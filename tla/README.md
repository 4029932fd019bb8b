# A verification project for Ambassador

This directory holds TLA+ models of Ambassador's control plane, the TLC
configurations that check them on small instances, and proofs that TLAPS checks
for every instance. It covers the version of the repository beside it
(Ambassador 0.7x: Python under `ambassador/ambassador` and
`ambassador/ambassador_diag`, shell scripts under `ambassador/`). The code is
the reference for every definition; where the documentation disagrees with the
code, the model follows the code and the disagreement is reported under
*Findings*. `PROJECT.json` names, for every definition, the lines it models.

Paths below are relative to `src/ambassador/` unless they begin with `docs/`.

## 1. Inventory

Ambassador turns Kubernetes resources into the configuration of an Envoy proxy.
In one container, `entrypoint.sh` launches three workers: `watt`, which watches
Kubernetes and Consul and announces snapshots of what it sees; `diagd`, which
turns a snapshot into an Envoy configuration and serves the diagnostics pages;
and `ambex`, which feeds the configuration to Envoy over ADS. Envoy itself is
started by the first `kick` of diagd.

    watt --post_watt.sh/post_update.py--> diagd HTTP thread --queue--> event watcher thread
      event watcher:  fetch -> Config -> IR -> EnvoyConfig -> validate (envoy subprocess)
                      -> rotate snapshot files -> bootstrap file, ADS file -> app.* -> kick
      kick (kick_ads.sh): start Envoy once; SIGHUP ambex --> ambex reads the ADS file --> Envoy
      HTTP threads: read app.* for the pages, post SCOUT and ESTATS events to the watcher

| component | state it keeps | operations | interacts with |
|---|---|---|---|
| event watcher (`ambassador_diag/diagd.py` 562-1019) | event queue, `chimed` flags, `app.aconf/ir/econf/diag/latest_snapshot`, the stats updater | `post`, `run`, `load_config_*`, `_load_ir`, `check_environment`, `check_scout`, `validate_envoy_config` | HTTP threads post and wait; runs `envoy --mode validate`; writes the files ambex and Envoy read |
| snapshot rotation (`diagd.py` 644-800) | files `snapshot/aconf/ir/econf` with suffixes `-tmp`, none, `-1`... | write `-tmp`, rename chain | only the watcher writes it; it survives a restart |
| diagnostics handlers (`diagd.py` 311-545) | locals of a request | updates, pages, liveness and readiness checks | read `app.*` without a lock; post events |
| Scout and notices (`diagd.py` 213-246, 902-970, `ambassador/ambscout.py`) | `app.notices`, result cache and its age | `check_scout`, `report` | watcher, daily `scout_checker` thread, handlers |
| Envoy statistics (`ambassador/diagnostics/envoy_stats.py`) | update times, log levels, statistics | `update`, `is_alive`, `is_ready` | updated by ESTATS events, read by handlers |
| configuration delivery (`kick_ads.sh`, ambex) | Envoy's pid file, the pending signal | start Envoy, SIGHUP | diagd calls it; ambex reads the ADS file at any time |
| container supervision (`entrypoint.sh`) | the workers, `tries_left`, `delay` | launch, ping diagd, wait for the first exit | all workers |
| resource fetching (`ambassador/config/resourcefetcher.py`) | elements, services, the stack of locations, object count | parse, `process_object`, `finalize`, `sorted` | first stage of a load |
| configuration store (`ambassador/config/config.py`) | resources by kind and name, errors, notices, sources, `current_resource` | `load_all`, `process`, `safe_store`, `post_error` | fetcher before; the IR reads it and posts errors to it |
| TLS contexts, secrets, listeners (`ambassador/ir/irtls*.py`, `irlistener.py`, `ir.py`, `envoy/v2/v2listener.py`) | `tls_contexts`, `saved_secrets`, the service port, listeners, filter chains | `load_all`, `save_tls_context`, `resolve`, `resolve_secret`, `handle_sni` | the Config before, Envoy's listeners after |
| Mappings, resolvers, clusters (`ambassador/ir/irhttpmapping.py`, `irserviceresolver.py`, `ircluster.py`, `ir.py`) | resolvers, groups by id, clusters by name | `load_config`, `add_mapping`, `add_cluster`, shortening of names | groups normalise their weights in `finalize` |
| HTTP mapping groups (`ambassador/ir/irhttpmappinggroup.py`) | mappings, shadows, redirect, weights | constructor, `add_mapping`, `finalize` | the IR's group table |
| Envoy V2 generation, diagnostics rendering, command line | none beyond one call | translation and presentation | |

`PROJECT.json` has the complete list, with what each entry leaves out.

### What is hard, and what makes each part correct

* **Event watcher.** Several threads share one queue and each blocks on a
  response queue without a timeout. A load has some fifteen statements at which
  another thread can look or at which it can fail, and the attributes of `app`
  are assigned one by one without a lock. Correct means: updates take effect in
  the order they were posted; an answer is true and reaches the thread that asked;
  nothing unvalidated is deployed; what a reader sees is never torn the wrong way
  round; every post returns; an accepted update does reach Envoy although the ADS
  file is rewritten in place while ambex may read it.
* **Snapshot rotation.** A chain of renames that may be cut anywhere by a kill,
  after loads that failed at any point. Correct means: higher suffixes are older;
  in a process that is not restarted, `-j` is exactly the configuration accepted j
  updates before.
* **Mapping groups.** Mappings arrive in an arbitrary order and disagree; weights
  are rounded and repaired. Correct means: no Mapping disappears without an
  error, weights add up to 100 and stay near what was asked, the loop ends.
* **Scout and notices.** Two threads reset and refill one list, and pages add to it,
  without a lock. Correct means: the local notices are always there, and the list does
  not grow with the number of pages.
* **Envoy statistics.** The age of the last answer stands for Envoy's health, and the
  watcher's queue decides when Envoy is asked. Correct means: a silent Envoy is
  noticed, and a healthy one is not reported dead.
* **Supervision and delivery.** Processes die in any order and pids are used again.
  Correct means: the exit of one worker ends the container, the readiness loop ends,
  there is never a second Envoy.
* **Fetching and configuration store.** Inputs are listed in any order, broken in any
  way, and collide. Correct means: nothing the user wrote is lost without an error; what
  is kept does not depend on the listing; an error is filed under the resource it is about.
* **TLS.** Three generations of configuration are turned into one set of contexts,
  secrets may be missing or partial, a cache is keyed by one name and read by another.
  Correct means: a context serves the secret it names; whoever asks for TLS gets it or is
  told; the two listeners do not clash; a route is in the filter chains of its host.
* **Routing.** Groups are found by a hash and clusters by a name that loses
  information. Correct means: no route gets another one's requests, no Mapping another
  one's service; Envoy gets no name twice; no Mapping disappears without an error.

`hazards` in `PROJECT.json` lists these at the line where they bite, with the
properties that would catch them.

## 2. Modules

| module | models | EXTENDS / composed with |
|---|---|---|
| `SnapshotFiles` | the snapshot directory | - |
| `SnapshotFilesProofs` | its theorems | `SnapshotFiles`, TLAPS |
| `EventWatcher` | the watcher, the threads that post, `app.*`, the output files, the kick, ambex | instantiates `ConfigService` |
| `ConfigService` | abstract: what diagd promises to whoever posts updates | - |
| `EventWatcherProofs` | its theorems and the refinement | `EventWatcher`, TLAPS |
| `MappingGroup` | one `IRHTTPMappingGroup` | its theorems are in `RoutingProofs`, for which its names differ from those of `Routing` |
| `ScoutNotices` | `app.notices` and the cache of `AmbScout`, shared by the watcher, the scout_checker and the pages | takes up the SCOUT events and the chime of `EventWatcher` |
| `ScoutNoticesProofs` | its theorems | `ScoutNotices`, TLAPS |
| `Health` | `EnvoyStats`, the checks, the clock, the watcher's queue as they see it | takes up the ESTATS events of `EventWatcher` |
| `HealthProofs` | its theorems | `Health`, TLAPS |
| `Supervisor` | `entrypoint.sh`, `kick_ads.sh`, pids and the pid file | takes up the kick of `EventWatcher` |
| `SupervisorProofs` | its theorems | `Supervisor`, TLAPS |
| `ConfigStore` | `Config`: what is stored, the errors, notices and sources | - |
| `ResourceFetcher` | `ResourceFetcher`: from inputs to elements | extends `ConfigStore`, to which it posts errors |
| `ConfigLoad` | one load: fetch, sort, `load_all`, the IR's errors | composes the two |
| `ConfigLoadProofs` | the theorems about all three | `ConfigLoad`, TLAPS |
| `TLSContexts` | from the TLS module and TLSContexts to listeners and filter chains | - |
| `TLSContextsProofs` | its theorems | `TLSContexts`, TLAPS |
| `Routing` | from Mappings and resolvers to groups and clusters | leaves a group's weights to `MappingGroup` |
| `RoutingProofs` | the theorems about the path of a Mapping, through `Routing` and `MappingGroup` | both, TLAPS |
| `MC...` | the same modules with the definitions TLC needs | |

Operators introduced by a comment "A mistake" are deliberately wrong variants of
the definition they precede (a dropped return, a swapped order, an off-by-one).
They take no part in the specifications; `PROJECT.json` says which property each
one breaks when it is put in place, which shows that the property depends on that
line of the code.

### SnapshotFiles

A file is the number of the load that wrote it (0: missing); its contents do not
matter. `StartLoad`, `WriteTmp`, `Abandon` follow the three `load_config_*`
functions and `_load_ir` up to the validation, which write their `-tmp` files in
the order of `Writes(how)`: `load_config_fs` saves no input, and `econf-tmp`
exists only when there is an Envoy. `StartRotate` and `Rename` are the nested
loop over `snaplist` and the four formats, one `os.rename` per step, a missing
source being skipped. `Crash` is a kill at any point followed by a new process
over the same directory, perhaps with another `AMBASSADOR_SNAPSHOT_COUNT`.

### EventWatcher

Updates are numbered in the order their events enter the queue; every
attribute, file and Envoy itself holds the number of the update it comes from.

| model | code (`diagd.py`) |
|---|---|
| `setup`, `Options` | the command line, fixed at the start: Envoy or `--no-envoy`, a kick command, `--no-checks`, `config_path` |
| `Load` | `StandaloneApplication.load`, 1039-1047 |
| `HandleUpdate` | `handle_watt_update`, `handle_kubewatch_update` |
| `ShowPage`, `AppCheckScout`, `Render` | `show_overview`, `show_intermediate`, `app.check_scout` |
| `UpdateEstats` | the `PeriodicTrigger` started by `_load_ir` |
| `Post`, `Receive` | `post` 583-588: the two halves around the wait |
| `GetConfig`, `GetQuick`, `QuickWork` | `run` 593-638 |
| `Fetch`, `Compile` | `load_config_*`, `_load_ir` up to the validation |
| `ValidateSkipped/Accept/Reject/Timeout` | `validate_envoy_config` 972-1019 |
| `Refuse`, `Rotate`, `WriteBootstrap`, `OpenAds`, `WriteAds`, `Publish`, `Kick`, `Accept`, `Chime` | `_load_ir` 764-844 in order |
| `Raise`, `RaiseLate` | the `except` clause of `run` |
| `Ambex` | external: what ambex does on SIGHUP |

`step` is the watcher's program counter and stops wherever another thread could look.
`Raise` can happen at every statement that does I/O or builds something; plain assignments
cannot raise. `passed`, `hung` and `answer` are history variables that only properties read.
A bootstrap file is only read when Envoy starts, so it is no more than a number here. `Init`
chooses the options among those of `Options`: those of the container, and those of a diagd
alone that loads a directory at boot. A request that reads `app.diag` before the first
update fails with `AttributeError`; the action is then not enabled.

`ConfigService` says what remains when the queue, the threads and the stages
are forgotten: `Submit`, `Apply` (only forward), `Confirm` (only the live one),
`Reject` (only one that never was live). `Service` maps `live` to `app.diag` and
`submitted` to `posted`; `ImplementsService` is the refinement.

### MappingGroup

Mappings are named by the position in which they arrive and keep only what the
group looks at. `add_mapping(m)` is the constructor for the first and `add_mapping`
for the others: core keys are compared, then shadow, redirect, or the list of
routed Mappings, then the precedence. `Finalize` is the flattening of attributes and
the normalisation, with Python's `round` (ties to even; when the exact quotient
is a tie, doubles may fall on either side, hence the choice of `up`). Other quotients are
rounded as exact ones, which doubles do as long as the weights are below 2^42. The schema
allows negative weights, so the total may be negative too; `Percent` and `Whole` are
the numerator and the denominator with the sign moved to the former.
`SpreadOne`/`SpreadDone` are the loop that repairs the sum.

### ScoutNotices

`notices` is the list pages show; a notice is who put it there and what it is about.
`Show`, `Prepend`, `PostOwn`, `Render` are one page: the SCOUT event it posts
(`diagd.py` 391-398), the two places where `collect_errors_and_notices` adds to the
list, and the reading of it. `TakeScout` answers the page before `check_scout` runs,
as `run` does. `Reset`, `Report`, `Contact`/`Unavailable`, `StoreTime`,
`StoreResult`, `PostNotices` are the statements of `check_scout` and
`AmbScout.report` between which another thread can run; `Reporters` are the two
threads that run them. An exception ends the watcher's event, but for the
scout_checker it ends the thread (`Raise`). `no_cache` is the argument each call of
`check_scout` gets: true after an accepted update; false after a refused one
(`AfterBadUpdate`, `diagd.py` 764) and for the daily checkin; for a page it is the IR, which
`app.check_scout` passes in that position, and which counts as true once there is one. The report
of the boot comes before all of these and fills the cache or not (`BootReport`).

### Health

`now` is the clock. `PostUpdate`, `TakeUpdate` and `EndRefused`/`EndAccepted` keep of a load
only how long its validation keeps the watcher busy (any number of timeouts up to the
limit). The code puts no limit on the updates that wait: `MaxQueue` is a bound of the model.
The times and retries of the runs are the code's own, in units of 5 s. `PostEstats` and
`TakeEstats` are the stats_updater's period and the answer that lets it sleep again;
`LogLevels`, `Unparsable`, `EnvoyStats` are the two calls of `EnvoyStats.update` with their
failures. `is_alive`, `is_ready` and `CheckReady` are what the probes compute. Time passes
only when every thread waits (`Waiting`). There is one updater, which waits for its answer
before it asks again; the type invariant contains this (`OneEstats`).

### Supervisor

`table` is the kernel's view: which process has a pid. `jobs`, `dead` and
`signalled` are the shell's. The actions follow `entrypoint.sh` from the launch of
ambex to its exit, and `kick_ads.sh` statement by statement (`KickCheck` is the
`kill -0`, `KickStart` the launch, `KickWrite` the pid file, `KickHup` the signal). Any process
may die at any time, other processes take free pids, and `Restart` starts the
container again with or without the old pid file. `serving` tells a diagd that accepts
connections (`DiagdListens`) from one that answers them (`DiagdServes`): in between, `curl`
waits. gunicorn listens before its worker loads the application, and the load at boot
(`diagd.py` 1039-1047) waits for the watcher without a limit. Before the shell comes to
`wait -n`, a worker that exits may be reported by the CHLD trap instead, after which
`wait -n` does not see it: `Die` has both outcomes.

### ConfigStore, ResourceFetcher, ConfigLoad

An input is a file (`load_from_filesystem`) or a Kubernetes object with Ambassador
resources in it (`parse_watt`); its contents are a sequence of objects of which the model
keeps the kind, the name, whether `ambassador_id` selects it, the apiVersion and whether
a schema would accept it. `Open` takes any input next, as `os.listdir` does;
`ProcessObject`, `ProcessPragma`, `ProcessService` are one object each, with the early
returns of `process_object`; `Close` pops the location; `Finalize` adds the Services.
An rkey is the rank of `base.number` in string order, in which the tenth object of a file
comes before the second (`StringOrder`). `LoadNext` is one round of `load_all` with all of
`process`; the element to take is a least one in the order `sorted`. `IRError` is an error
of the IR that names no resource. `given` (what the user wrote) and `about` (which object an
error is about) are there for the properties.

### TLSContexts

Names with dots are sequences of their parts, so that `a.b` as a secret's name and `a` in
namespace `b` can meet as they do in the code. A certificate is identified by where it came
from, so that serving the wrong one is visible. `tls_contexts` is a dict in its order of
insertion: a context keeps its position when others are deleted. `LoadModule` and
`LoadOther` are `TLSModuleFactory.load_all` with `from_legacy`, for the module's `server`
(with `client`) and for a context of another name; `SaveContext` is one TLSContext resource;
`Resolve` one round of `IRAmbassador.finalize` (secret, ca secret, paths, in the order of
`IRTLSContext.resolve`), then `Finalize` deletes the inactive contexts and sets the explicit
service port; `LoadListeners` and `HandleSni` the listeners and filter chains. A context
with errors counts as false in Python, which `Truthy` says and `save_tls_context` and
`HandleSni` depend on. `handle_sni` may raise `KeyError` (phase `"raised"`). `load_secret`
takes a secret from watt's snapshot, where it is kept under a key that runs name and
namespace together (`FromWatt`), or, if the input has no secrets, from a secret handler,
which looks for the two separately (`FromHandler`, `utils.py`). What a context is given
through `from_legacy` is not always what its module asked for; `AsksForCA` therefore looks
at the module itself.

### Routing

`Init` chooses the Ambassador module's defaults: `resolver`, the load balancer and whether
endpoints are used. A Mapping is active if it has a usable resolver that fits its load
balancer (`Resolvable`, `IRBaseMapping.setup`) and if `IRHTTPMapping.setup` accepts it
(`Active`). Text is a sequence of words: a group id is the concatenation of the words of
prefix and headers, whatever stood between them, and a cluster's name that of the words of
its service and settings, since every punctuation mark becomes `_`. `LoadResolvers` provides
the resolvers with their aliases; `Targets` looks a name without dots up as a whole, and one
with dots by its parts, as the resolvers do; `AddMapping` is one Mapping through
`IRHTTPMapping.setup` and `ir.add_mapping`, `AddCluster` makes the clusters of the Mappings
of a group, one after the other (`IRCluster`, `add_cluster`), and `Mangle` shortens the long
names at the end of `IR.__init__`. Lengths are in words: 4 and 3 in the run for the code's
60 and 40.

## 3. Runs

| run | bounds | what it shows |
|---|---|---|
| `snapshot_files` | snapcount 0, 1, 2; 5 loads; 1 kill | `TypeOK`, `NewestFirst`, `Retention` |
| `watcher` | 2 HTTP threads, stats thread, 2 updates, 2 validation attempts; the container's options, and `--no-envoy --no-checks` with a load at boot and no kick; fairness | `TypeOK`, `DeployedWasValidated`, `PublishOrder`, `PageNeverBehind`, `AnswersAreTrue`, `OneEventPerThread`, `EnvoyMovesForward`, `PostReturns`, `AcceptedReachesEnvoy`, `ImplementsService` |
| `group` | all sequences of up to 4 Mappings of 25 kinds | `WeightsSumTo100`, `NearExactShare`, `EveryMappingAccounted`, `SpreadTerminates` |
| `notices` | 2 pages, 2 reporters, 4 reports, clock to 2 (one checkin) | `LocalAlwaysShown`, `NoticesBounded` |
| `health` | the defaults of the code in units of 5 s: age 4, period 1, timeout 1, 5 validation attempts; 1 update waiting, 3 changes of Envoy, clock to 16 | `TypeOK`, `SilenceNoticed`, `AgeBounded` |
| `supervisor` | 4 pids, 4 pings, 2 kicks per life, 2 lives, fairness | `TypeOK`, `OneEnvoy`, `DownTogether`, `PingEnds` |
| `config_load` | 3 inputs, two of one base name, 10 contents each, 1 error of the IR | `TypeOK`, `NothingLostSilently`, `OrderIndependent`, `ErrorsFiledRight` |
| `tls` | TLS module and `tls` block of 5 kinds, up to 2 TLSContexts of 9, 3 states of the secrets, 2 hosts | `TypeOK`, `RightSecret`, `ServedOrTold`, `ListenersApart`, `RoutesFollowHosts` |
| `routing` | all sequences of up to 3 Mappings of 16 kinds, 3 sets of resolvers, 2 defaults of the Ambassador module | `MappingsAccounted`, `OwnService`, `NamesDistinct`, `GroupsKeptApart` |
| `group_precedence`, `tls_client_certs` | the smallest that shows it | a violation each, see *Findings* |
| `health_probes` | those of `health` | `ChecksEnvoyItself` is violated, see *Findings* |

**Why the bounds are enough.** Snapshots: with `snapcount` 2 there is one numbered file
between the oldest and the current one, and five loads fill the chain, overflow it and leave
room for a failed load and a restart between them. Watcher: two HTTP threads and the stats
thread give an event queue with several waiting, two updates already have the race the
liveness properties are about (ambex reading while the second load rewrites the file).
Groups: four Mappings let rounding err by two in the same direction; the weights include
ties, zero, a negative one and totals above and below 100. Notices: two pages and two
reporters are enough for every pair of unlocked statements to interleave, and four reports
let a page come twice between two resets. Health: 16 units let Envoy come up and fall silent
for longer than `MaxAge`, or come up and be healthy for longer than an update in progress
and one behind it can take together (11 units), which is when `AgeBounded` begins to demand
something. Supervisor: four pids are the three workers and Envoy, so that a pid is soon used
again; four failed pings take the delay through its limit. Loads: two inputs that share a
base name and a third that does not are enough for a duplicate to come before or after the
resource it replaces and for rkeys to be equal; the contents have every way an object can be
refused. TLS: conflicts over a name, a host or a secret take two contexts, beside the one
the module makes. Routing: a collision takes two Mappings, and a third can share the cluster
or the group of either.

All invariants that the passing runs check are proved for all
values of the constants in section 5, together with `EnvoyMovesForward` and
`ImplementsService`. For them the runs serve to find out early that a formula is
wrong, and to show that it can be violated.

**Symmetry** is used only over `Workers` and `Pages`, and only in runs without temporal
liveness (`watcher` uses none). **Deadlock** is not checked: every model may legitimately
stop, because the numbers of updates, loads and Mappings are bounded and nobody has to send
another one. That no thread waits forever is what `PostReturns` says.

**Fairness.** `WF(Watcher)`, `WF(Ambex)` and `WF(Receive(t))`: the interpreter
schedules runnable threads, and signals are delivered. Nothing forces a new
request, a page or a report. For the watcher this assumes that a network call,
the kick or the validation ends in some way, in success or in an exception. The
validation has a timeout (`diagd.py` 1000-1012); `load_url_contents` and the kick
do not, which is listed as a hazard. `MappingGroup` is one uninterrupted call and
has weak fairness on its loop. `Supervisor` has `WF(Shell)`, since the script runs
whenever it can, and `WF(Obey(w))`: a worker that was sent SIGTERM exits. That is an
assumption about ambex, diagd and watt, and the script needs it: it sends
nothing stronger and waits without a limit. No process has to die of itself. A ping
ends when diagd refuses the connection, answers or dies; the `curl` at `entrypoint.sh:172` has no
`--max-time`, so while diagd listens and does not serve, no step of the loop is enabled and
fairness says nothing. Nothing forces diagd to listen or to serve.

Liveness is stated with the failures the code allows. `PostReturns` exempts a
thread whose load raised before the answer (`run` only logs it, and the thread
waits forever), and `AcceptedReachesEnvoy` exempts the case in which the next load
dies between truncating the ADS file and its own kick. `PingEnds` exempts a diagd that
listens from some time on and neither serves nor dies.

**What the properties do not cover.** Some properties name an exception for a thing that the
code does wrong or leaves open, and so show that there is no other one, not that this one is
closed: `RightSecret` (`Shadowed`), `OwnService` (punctuation, resolvers and marks in
names), `ServedOrTold` (the client block of finding 2), `ErrorsFiledRight` (a refused
resource). `EveryMappingAccounted` speaks of a group before its attributes are flattened.
`PostReturns` would be violated by a watcher that posts to itself, but no action does that,
since no line of the code does. `RoutesFollowHosts` and `ServedOrTold` speak of loads that
end, not of those that raise. The hazards concerned say so in their notes.

## 4. Findings

Each of these has a run that ends in a violation; `PROJECT.json` quotes the line it
contradicts.

1. `group_precedence`: a Mapping that outranks its group reads a key that only
   groups have and raises `KeyError` out of IR construction.
2. `tls_client_certs`: a TLS module with client certificates on that names no
   certificate for them is given `ambassador-cacert` as its *server* certificate
   (`irtlscontext.py:326`). If that secret has no key, as the documentation creates it,
   the context is dropped and the port speaks cleartext; if it has one, it is served and
   clients are not validated.
3. `health_probes`: with the defaults, the watcher may wait for five validations of 5 s
   before it asks Envoy for its statistics, while `max_live_age` is 20 s. Both probes then
   fail for an Envoy that has answered well throughout, although
   `docs/reference/core/ambassador.md:204` says that they check Envoy itself. `AgeBounded` and its
   theorem `HeardInTime` say how long it can take: the period, and a round of timeouts for the
   update in progress and for each one waiting. This is at most `max_live_age` only with
   fewer attempts or shorter timeouts than the defaults.

Other disagreements and limits that the models contain as the code has them, without a
run of their own. The properties state the exceptions they need for these.

* A single Mapping of weight 0 divides by zero, which costs the whole configuration
  (`DividesByZero`); `docs/reference/canary.md:16` promises it all of the traffic.
* `curl` at `entrypoint.sh:172` has no time limit. A load at boot that raises before it answers
  leaves diagd's application waiting for its own watcher (`diagd.py:1047`), and diagd listens
  without ever serving: the loop that should be "giving up on diagd and hoping for the
  best" stays in one attempt, and watt is never launched (`PingEnds`).
* `kill -0` on the pid in `envoy.pid` succeeds for any process that has this pid. After
  Envoy's death, or in a restarted container with the old file, `kick_ads.sh` may then poke
  ambex without starting Envoy, against its comment at line 22 (`PidAlive`).
* `--validation-retries 0`: the loop at `diagd.py:998` never runs, `exit_code` is still
  0 and every configuration counts as valid (`ValidateSkipped`). The theorem
  `OnlyValidatedDeployed` has the hypothesis `ValidationRetries > 0` for this reason.
* `chimed` and `chimed_ok` are never set after `__init__`, so no report after an update
  honours Scout's cache, against the comment at `diagd.py:829` (`Chime`).
* Weights that add up to more than 100 beside a Mapping without one, or weights such
  as 0, 1, 1, 4, give a negative weight; `docs/reference/canary.md` speaks of percentages
  (`Normalized`, `SpreadOne`).
* A `host_redirect: false` written out takes the redirect away from the Mapping that
  has it, without an error (`Flattened`).
* A page's check of Scout is answered before it resets the list, so the page may
  be shown without the notices it has just added; the comment at `diagd.py:463` wants
  them folded in (`TakeScout`, `Reset`).
* When Scout cannot be reached the cache's time is not updated, against the comment at
  `ambscout.py:140` (`Unavailable`).
* Two files of one base name, or two custom resources of one name, share their
  rkeys; which duplicate is kept then depends on the order of listing (`OrderIndependent`
  needs `DistinctRkeys`). An annotation that is no YAML, and a Service that replaces another
  one of its name, are only logged (`NothingLostSilently`).
* `current_resource` still names the last resource when that one was refused, and an
  error of the IR without a resource is filed under it (`ErrorsFiledRight`).
* An unsupported apiVersion draws a notice and is then not validated at all, and neither
  is `v2`, for which there are no schemas (`HasSchema`).
* `resolve_secret` saves under the name what it looks up under name and
  namespace (`ir.py:356`). The cache so never helps, except that with
  `secret_namespacing` off the secret `a.b` answers for `a` in namespace `b`
  (`Shadowed` in `RightSecret`).
* `utils.py:470` passes source and namespace to `SecretInfo.from_dict` in the wrong order. They
  decide the directory that the certificate is decoded to, which the model does not have.
* A context with errors counts as absent: the next one of its name replaces it without a
  word, and it gets no filter chain, which leaves a listener on the HTTPS port speaking
  cleartext (`Cleartext`). If such a context has no certificate, a Mapping asks for its host
  and another context is good, `handle_sni` raises `KeyError`.
* `service_port: 8080` set explicitly beside a redirect from 8080 gives two listeners on one
  port (`ListenersApart` leaves it out).
* `a.b` and `a-b` share a cluster, as do Mappings that differ in resolver,
  `connect_timeout_ms`, `grpc` or `circuit_breakers`, or in the TLS context of an `https`
  service; the shadow of `a` shares one with `shadow-a` (`OwnService`).
* A Mapping without `prefix_regex` joins a group that has it (`Mismatched`). A group with a
  `host_redirect` drops its routed Mappings without a word (`MappingsAccounted`).

## 5. Proofs

The proofs rest on the named assumptions on constants only, which TLC evaluates on every
run:

* `SnapAssumption`, `WatcherAssumption`, `HealthAssumption`, `SupervisorAssumption`: sizes
  and times are naturals, switches are Booleans, pids are positive, the names of the special
  threads are not HTTP threads;
* `ScoutAssumption`: finitely many pages, none of which is called as the other two
  authors of notices are;
* `FetcherAssumption`: inputs hold finite sequences of objects and have a base name;
* `TLSAssumption`: the attributes of TLSContexts and TLS modules have the types the schemas
  give them, and a namespace has no dot in it, which Kubernetes guarantees;
* `RoutingAssumption`: attributes of Mappings have their types, a service names a host, and
  a shortened name is shorter than the limit (40 and 60 in the code); `NumeralAssumption`: a
  port is written in digits, so it is not one of the marks in cluster names;
* `GroupAssumption`: attributes of the Mappings offered to a group have their types. Weights
  are any integers.

All theorems hold for any number of threads, updates, retries, suffixes, loads,
restarts, inputs, contexts and Mappings. One has a hypothesis on the constants
besides, `OnlyValidatedDeployed`. It is part of the statement because the code
does not ensure it.

**SnapshotFilesProofs.** `TypeCorrect`, and `NewestFirstAlways`. `NewestFirst`
alone is not inductive: writing a `-tmp` file needs to know that every numbered
file is older than the load that writes. `IInv` adds `NoneFromTheFuture` (no file
is newer than the latest load, and while a load is writing only `-tmp` files are
its own). A rename keeps the order because its target lies next to its source.

`RetentionAlways`: in a process that has not been killed, once a load is through, `-j` has
the files of the load accepted j loads before. `KeepInv` describes the directory at each
moment. `Resting` is the claim itself, for all the time no rotation is in progress.
`Rotating` says of each file of a half-rotated directory whether it is still in its old
place or already one further, from the positions of the two loops. `Loading` says which
`-tmp` files the load has written. `Loads` has the fact the others depend on: only the
first load of a process may come from the file system, and it is the only one that writes no
`snapshot`; so a rename whose source is missing is skipped only where all older
files of that kind are missing too, and leaves no stale file behind.

**EventWatcherProofs.**

* `TypeCorrect`.
* `PublishOrderAlways`, `AnswersAlwaysTrue`, `EnvoyNeverBack` from `PublishInv`:
  type, `QueueInOrder` (queued updates are unanswered, increasing, and newer than
  what is published and what is being loaded), `LoadInProgress` (for each value of
  `step`, which outputs the load has replaced), `EnvoyBehindFile`, and the two
  invariants themselves. `LoadInProgress` is what makes them inductive: the order
  of the outputs is preserved by one assignment only because everything before it
  in the code already holds the current number. `EnvoyMovesForward` follows
  because Envoy is never ahead of the file and the file only gets newer.
* `OnlyValidatedDeployed`: `ValidationRetries > 0 => ` always
  `DeployedWasValidated`, from `ValidationInv` (past the validation, the update being
  loaded is an accepted one). The hypothesis is needed: see the end of section 4.
* `OneEventPerThreadAlways`: inductive together with the type invariant.
* `PageNeverBehindAlways` from `PageInv` and `PublishInv`: what a thread has read is
  not newer than what is published, which is in order.
* `Implements`: `Spec => ImplementsService`. A step maps to `Submit` (posting),
  `Apply` (`Publish("diag")`), `Confirm` (`Accept`), `Reject` (`Refuse`), or a
  stutter; `PublishInv` provides the guards.

**HealthProofs.** `SilenceAlwaysNoticed` from `HeardBefore`: while
Envoy is not well, the recorded time of the last answer is not later than the moment
it stopped being well. `SilenceNoticed` alone says nothing about the first
`MaxAge` units and cannot be inductive.

`HeardInTime`: `AgeBounded` always holds, for all periods, timeouts, retries and lengths of
the queue. `AskInv` adds to `HeardBefore` that the queue has one ESTATS event while the updater
waits and none otherwise, hence at most `MaxQueue` updates before it (`QueueInv`); that a
validation takes at most `ValidationRetries * Timeout` (`ThreadInv`); and, as the induction
needs it, that the moment when Envoy will be asked next is known and early enough
wherever the ESTATS event stands in the queue (`DueInv`). As time passes, the time that is left
shrinks by as much; as an event is taken, all behind it move up by one. `TypeCorrect`
follows from `AskInv` too, because `OneEstats` needs `QueueInv`.

**SupervisorProofs.** `TypeCorrect` (with the limits of the delay), and
`OneEnvoyAlways` from `EnvoyInFile`: a running Envoy's pid is the one in the file, or,
between the start and the writing of the file, the one in the script's variable; and
the script is about to start Envoy only if there is none. That `kill -0` may be fooled
by another process only ever keeps Envoy from being started.

**ScoutNoticesProofs.** `LocalShown` and `ShortList` from `Balance`: there is always one
local notice; the notices from Scout and the reporters that will still add one are
at most two; and the notices of pages, with those that pages on their way may still add, are
at most two for each page, and two more for a page that the watcher has answered and not yet
reset the list for. `NoticesBounded` alone is not inductive, because it does not
count what is about to be added. The lemmas `CountAppend` and `CountPrepend` say what adding
a notice does to the counts.

**ConfigLoadProofs.** `TypeCorrect`, `FiledRight`, `AnyOrder`, `KeptOrTold` from one
invariant:

* `ReadingOK`, `PlaceOK`, `FoundOK`, `StoreOK`: types, and that the stack of locations is as
  deep as the number of inputs being read, so that a pop never fails;
* `PhaseInv`: nothing is stored before all is fetched, and all is before the IR is built;
* `OrderInv`: what has been loaded comes before what is left, and the Config is the set of
  the winners, the last acceptable elements of each kind and name. This is what makes
  the result independent of the order of listing: at the end it is a function of the elements;
* `FiledInv`: `current_resource` is global, or left over from a refused resource, and what
  each error is filed under follows from that;
* `KeptInv`: each object that has been read is an element, has an error, or has one of
  the excuses of `NothingLostSilently`; each loaded element is in the Config, has an error, or
  was replaced by one that has.

**TLSContextsProofs.** `TypeCorrect`, `ServesItsSecret`, `TLSServedOrTold`, `PortsApart`,
`RoutesInTheirChains`, again from one invariant:

* `ShapeInv`, `NamesInv`, `CountInv`: the contexts in the dict are made of what was asked
  for, no two have one name, and there are at most two beside those of TLSContexts;
* `ToldInv`: whatever was asked for is in the dict or has an error, and so has each context
  that is inactive or counts as false;
* `PathsInv`: a context that is not resolved yet has only what it was given as files, a ca
  among them (`HasFile`); one that is resolved has all it needs or an error;
* `ClientInv`: the context of the TLS module's `server` has the ca that the module's `client` names,
  so that `AsksForCA` of the module is answered by what the context was resolved with;
* `CacheInv`: only a context with namespacing off can put a name with a dot into
  `saved_secrets`. `RightInv`, that each certificate is the one meant, is inductive only
  with this: the entry a reference finds was made by another context;
* `PortInv`: a terminating context that stays moves the primary listener to 8443, so that
  a redirect listener on another port does not clash with it; `ChainsInv`: the filter chains
  `handle_sni` made.

**RoutingProofs.** `GroupsApart`, `Accounted`, `SharedRightly`, `NamesApart`.

* `GroupsApart` from `GroupInv`: a group has the group id of its core, is alone in that,
  and its Mappings are for the requests of its core.
* `Accounted` from `AccountedInv`: a Mapping without an error is in a group, and groups that
  have been finalized have given clusters to all they serve.
* `SharedRightly` from `ClusterInv` (a cluster's name is the one made from the Mapping it
  was made for, and names are distinct) and from `SameName`: a name determines the words of the
  service, whether TLS is originated and the policy. Names only concatenate words, so this
  has to find where the service ends in them: at the first of the marks `shadow`, `otls` and `er`
  after the prefix (`FirstMark`). It is why `OwnService` leaves out services that have a mark
  for a word.
* `NamesApart` from `NamesStep`: the shortened names carry numbers that are counted
  per prefix, and the others carry none.

About `MappingGroup`, for groups of any size and any integer weights:
`EveryMappingIsAccounted`, `WeightsAlwaysSumTo100`, `SharesStayNearExact`,
`SpreadGoesRoundOnce`, from `GroupIInv`:

* `MembersOK`: types; in particular no Mapping is twice in `mappings`, so that there are as many
  routed Mappings as the list is long;
* `EveryMappingAccounted` itself;
* `SpreadInv`: while the remainder is spread and afterwards, `final_total` is the sum of the
  weights; the weights before `turn` are at most one and a half percent from their exact share
  and the others at most a half; and twice the number of passes made and still to
  make is at most the number of Mappings. Neither `WeightsSumTo100` nor
  `NearExactShare` is inductive without this: the first needs the meaning of `final_total`, the
  second that the loop comes to no Mapping twice.

That `Finalize` establishes `SpreadInv` is where the arithmetic is. Rounding moves each
weight by at most a half (`HalfAtMost`, `NormalizedFacts`), the exact shares add up to 100
(`ExactSum`, for weights that are all given and for those that are not), so the rounded ones
are off by at most half the number of Mappings (`RemainderFacts`). Hence the loop breaks
before it has been to more than half of them: `SpreadGoesRoundOnce` says that the `for`
never comes to the end of the list, so the `while` around it goes round at most once. With the fact
that each pass brings the total one nearer to 100 (`StepCounted`) this is the argument
for termination; only its last, temporal, step is left to TLC (`SpreadTerminates`).

Sums are `SumFunctionOnSet` of the library, which is defined by recursion over a set. What is
needed of them is proved from that definition by well-founded induction over the subsets of a
finite set: `SubsetInduction` and `ElementInduction` state the induction for a *set* of good
subsets instead of a predicate, which the provers can instantiate. `SummingExists` and
`SummingUnique` show that the recursion defines one function, `SumFacts` that any element
can be taken out first, and the lemmas after it that sums are linear, bounded and change
with their summands.

`SamePlace`: the two models of `add_mapping`, in `Routing` and in `MappingGroup`, agree on
where a Mapping goes and on what is refused.

**Only model-checked.** Liveness (`PostReturns`, `AcceptedReachesEnvoy`,
`SpreadTerminates`, `DownTogether`, `PingEnds`): fairness is outside the prover's
reach.

## 6. Not modelled, and the plan

Not modelled, on purpose: watt, ambex and Envoy beyond what the scripts and diagd see of
them; the templates, the Prometheus proxy, logging; tests, build and documentation tooling.
All Go code of the repository (under `src/go` and `src/build-aux`) is either generated, the
protobuf types and validators of Envoy's API, or a tool of the build. It runs in
no component of the control plane and has no behaviour of its own to model. The system is the Python
and shell code under `src/ambassador`, some 12 500 lines, of which `PROJECT.json` maps
about 3 900; most of the rest is presentation (diagnostics, templates, the command line),
attribute defaulting and the translation of the IR to JSON.

Within the modules these are left out:

* demo mode and diagd-only mode of `entrypoint.sh`, the request counts sent to
  Scout, `AMBASSADOR_SCOUT_RESULT`, and the statistics themselves;
* of fetching: the join of Services and Endpoints (`resourcefetcher.py` 664-809), Consul
  endpoints and ClusterIngress;
* of routing: the order of routes by `_route_weight`, TCP mappings, `add_url`,
  `host_rewrite` in cluster names, the addresses of endpoints;
* of TLS: ALPN, versions and ciphers, which are only copied, and `cert_required` read from a
  secret, which `cache_secret` never delivers.

Planned, in this order:

1. The order of routes, the TCP groups, and the join of Services and Endpoints.
2. A composition of `EventWatcher` with `Supervisor`: an accepted update and a container
   that may restart.

Abstract specifications worth adding: a container that is either wholly up or gone
(for `Supervisor`), and the Config as a function of the set of inputs (for `ConfigLoad`).
