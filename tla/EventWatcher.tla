---------------------------- MODULE EventWatcher ----------------------------
(***************************************************************************)
(* diagd: the AmbassadorEventWatcher thread, the threads that post events  *)
(* to it and wait, the application state it publishes, and the files and   *)
(* the signal by which a configuration reaches Envoy through ambex.        *)
(*                                                                         *)
(* Threads.  Workers are gunicorn's HTTP threads; Boot is the thread that  *)
(* runs StandaloneApplication.load; Stats is the PeriodicTrigger that      *)
(* _load_ir starts after the first update.  Each of them has at most one   *)
(* event outstanding, because post blocks on the answer, so a response     *)
(* queue is modelled by the thread that waits on it.                       *)
(*                                                                         *)
(* Updates are numbered 1, 2, ... in the order their events enter the      *)
(* queue; app.aconf, app.ir, app.econf, app.diag and latest_snapshot and   *)
(* the files hold the number of the update they come from, 0 when unset.   *)
(* The watcher's program counter `step' follows _load_ir statement by      *)
(* statement wherever another thread could look in between.                *)
(***************************************************************************)
EXTENDS Integers, Sequences

CONSTANTS Workers,            \* HTTP threads
          MaxUpdates,         \* bound on the number of updates posted
          ValidationRetries,  \* --validation-retries
          Options             \* the command lines diagd may be started with

Boot == "boot"
Stats == "stats"

ASSUME WatcherAssumption ==
    /\ Boot \notin Workers /\ Stats \notin Workers
    /\ MaxUpdates \in Nat
    /\ ValidationRetries \in Nat
    /\ Options \subseteq [no_envoy : {"T", "F"}, kicks : {"T", "F"},
                          no_checks : {"T", "F"}, fs_config : {"T", "F"}]

VARIABLES events,    \* the watcher's queue
          rqueue,    \* rqueue[t]: responses put for thread t's last event
          thread,    \* what each posting thread is doing
          page,      \* what a thread showing a diagnostics page has read
          step,      \* where the watcher is in run() and _load_ir
          cur,       \* the event it is handling
          tries,     \* validation attempts so far
          app,       \* the state the handlers read
          bootstrap, \* bootstrap file: number of the update in it
          ads,       \* ADS file: its update, and whether it is complete
          hup,       \* has ambex been signalled?
          envoy,     \* the update Envoy runs
          updater,   \* the stats_updater: "none" or "running"
          setup,     \* fixed at the start: chimed, chimed_ok, the options
          report,    \* last report to Scout: its action and no_cache
          posted,    \* number of updates posted
          passed,    \* history: updates `envoy --mode validate' accepted
          hung,      \* history: threads whose event was dropped unanswered
          answer     \* history: the status each update was answered with

vars == <<events, rqueue, thread, page, step, cur, tries, app, bootstrap, ads,
          hup, envoy, updater, setup, report, posted, passed, hung, answer>>

postVars == <<events, rqueue, thread, page, posted>>
outVars  == <<app, bootstrap, ads, hup, envoy>>
runVars  == <<step, cur, tries>>
logVars  == <<updater, setup, report, passed, hung, answer>>

Threads == Workers \cup {Boot, Stats}

Updates == 1 .. MaxUpdates

Fields == {"latest", "aconf", "ir", "econf", "diag"}

Event(cmd, arg, from) == [cmd |-> cmd, arg |-> arg, from |-> from]

NoEvent == Event("none", 0, Boot)

(* --no-envoy; --kick or --ambex-pid; a config_path to load at boot. *)
NoEnvoy  == setup.options.no_envoy = "T"
Kicks    == setup.options.kicks = "T"
FsConfig == setup.options.fs_config = "T"

(* --no-checks switches them off, and so does --no-envoy. *)
HealthChecks == ~(setup.options.no_checks = "T" \/ NoEnvoy)

(* gunicorn hands out requests only once load() has returned. *)
Serving == thread[Boot] = "idle"
-----------------------------------------------------------------------------
Init ==
    /\ events = <<>>
    /\ rqueue = [t \in Threads |-> <<>>]
    /\ thread = [t \in Threads |-> IF t = Boot THEN "load" ELSE "idle"]
    /\ page = [t \in Threads |-> [diag |-> 0, ir |-> 0]]
    /\ step = "get"
    /\ cur = NoEvent
    /\ tries = 0
    /\ app = [f \in Fields |-> 0]
    /\ bootstrap = 0
    /\ ads = [update |-> 0, state |-> "whole"]
    /\ hup = "no"
    /\ envoy = 0
    /\ updater = "none"
    /\ setup \in [chimed : {"F"}, ok : {"F"}, options : Options]
    /\ report = [action |-> "none", no_cache |-> "F"]
    /\ posted = 0
    /\ passed = {}
    /\ hung = {}
    /\ answer = [u \in Updates |-> 0]
-----------------------------------------------------------------------------
(* Posting threads.                                                        *)

(* post: queue the event with a response queue of its own, and wait. *)
Post(t, cmd, arg) ==
    /\ events' = Append(events, Event(cmd, arg, t))
    /\ rqueue' = [rqueue EXCEPT ![t] = <<>>]
    /\ thread' = [thread EXCEPT ![t] = "waiting"]

(* StandaloneApplication.load: with a config_path the filesystem is loaded *)
(* before diagd serves anything.                                           *)
Load ==
    /\ thread[Boot] = "load"
    /\ \/ /\ FsConfig
          /\ posted < MaxUpdates
          /\ Post(Boot, "CONFIG_FS", posted + 1)
          /\ posted' = posted + 1
       \/ /\ ~FsConfig
          /\ thread' = [thread EXCEPT ![Boot] = "idle"]
          /\ UNCHANGED <<events, rqueue, posted>>
    /\ UNCHANGED <<page, runVars, outVars, logVars>>

(* handle_watt_update and handle_kubewatch_update. *)
HandleUpdate(w) ==
    /\ Serving
    /\ thread[w] = "idle"
    /\ posted < MaxUpdates
    /\ Post(w, "CONFIG", posted + 1)
    /\ posted' = posted + 1
    /\ UNCHANGED <<page, runVars, outVars, logVars>>

(* show_overview and show_intermediate begin by reading app.diag; before   *)
(* the first update that attribute is missing and the request fails.       *)
ShowPage(w) ==
    /\ Serving
    /\ thread[w] = "idle"
    /\ app["diag"] # 0
    /\ page' = [page EXCEPT ![w] = [diag |-> app["diag"], ir |-> 0]]
    /\ thread' = [thread EXCEPT ![w] = "scout"]
    /\ UNCHANGED <<events, rqueue, posted, runVars, outVars, logVars>>

(* ...then app.check_scout reads app.ir and posts it to the watcher. *)
AppCheckScout(w) ==
    /\ thread[w] = "scout"
    /\ Post(w, "SCOUT", app["ir"])
    /\ page' = [page EXCEPT ![w].ir = app["ir"]]
    /\ UNCHANGED <<posted, runVars, outVars, logVars>>

(* ...and the page is put together from the diag read at the beginning and *)
(* the latest_snapshot of now.                                             *)
Render(w) ==
    /\ thread[w] = "render"
    /\ thread' = [thread EXCEPT ![w] = "idle"]
    /\ page' = [page EXCEPT ![w] = [diag |-> 0, ir |-> 0]]
    /\ UNCHANGED <<events, rqueue, posted, runVars, outVars, logVars>>

(* The stats_updater fires update_estats. *)
UpdateEstats ==
    /\ updater = "running"
    /\ thread[Stats] = "idle"
    /\ Post(Stats, "ESTATS", 0)
    /\ UNCHANGED <<page, posted, runVars, outVars, logVars>>

(* rqueue.get() returns: the thread goes on. *)
Receive(t) ==
    /\ thread[t] = "waiting"
    /\ rqueue[t] # <<>>
    /\ rqueue' = [rqueue EXCEPT ![t] = Tail(@)]
    /\ thread' = [thread EXCEPT ![t] = IF page[t].diag # 0 THEN "render" ELSE "idle"]
    /\ UNCHANGED <<events, page, posted, runVars, outVars, logVars>>
-----------------------------------------------------------------------------
(* The watcher.                                                            *)

(* A mistake: one status for everything. *)
RespondIgnored(t, status) == rqueue' = [rqueue EXCEPT ![t] = Append(@, 204)]

Respond(t, status) == rqueue' = [rqueue EXCEPT ![t] = Append(@, status)]

Goto(s) == step' = s

(* An event is finished with, answered or not. *)
Finish == step' = "get" /\ cur' = NoEvent

(* Mistakes: the requester is answered before the load; the last event of  *)
(* the queue is taken instead of the first.                                *)
GetConfigAnswered ==
    /\ step = "get"
    /\ events # <<>>
    /\ Head(events).cmd \in {"CONFIG", "CONFIG_FS"}
    /\ cur' = Head(events)
    /\ events' = Tail(events)
    /\ Respond(Head(events).from, 200)
    /\ Goto("fetch")
    /\ UNCHANGED <<thread, page, posted, tries, outVars, logVars>>

GetConfigLast ==
    /\ step = "get"
    /\ events # <<>>
    /\ events[Len(events)].cmd \in {"CONFIG", "CONFIG_FS"}
    /\ cur' = events[Len(events)]
    /\ events' = SubSeq(events, 1, Len(events) - 1)
    /\ Goto("fetch")
    /\ UNCHANGED <<rqueue, thread, page, posted, tries, outVars, logVars>>

(* A CONFIG or CONFIG_FS event starts a load; nothing is answered yet. *)
GetConfig ==
    /\ step = "get"
    /\ events # <<>>
    /\ Head(events).cmd \in {"CONFIG", "CONFIG_FS"}
    /\ cur' = Head(events)
    /\ events' = Tail(events)
    /\ Goto("fetch")
    /\ UNCHANGED <<rqueue, thread, page, posted, tries, outVars, logVars>>

(* ESTATS and SCOUT are answered before the work is done. *)
GetQuick ==
    /\ step = "get"
    /\ events # <<>>
    /\ Head(events).cmd \in {"ESTATS", "SCOUT"}
    /\ cur' = Head(events)
    /\ events' = Tail(events)
    /\ Respond(Head(events).from, 200)
    /\ Goto("quick")
    /\ UNCHANGED <<thread, page, posted, tries, outVars, logVars>>

(* estats.update or check_scout, with their network calls; nothing this    *)
(* module keeps changes, and an exception is only logged.                  *)
QuickWork ==
    /\ step = "quick"
    /\ Finish
    /\ UNCHANGED <<postVars, tries, outVars, logVars>>

(* load_config_fs, load_config_kubewatch, load_config_watt up to _load_ir. *)
Fetch ==
    /\ step = "fetch"
    /\ Goto("compile")
    /\ UNCHANGED <<postVars, cur, tries, outVars, logVars>>

(* load_all, IR, EnvoyConfig.generate, Diagnostics and split_config. *)
Compile ==
    /\ step = "compile"
    /\ Goto("validate")
    /\ tries' = 0
    /\ UNCHANGED <<postVars, cur, outVars, logVars>>

(* Without an Envoy, or when the retry loop runs zero times, exit_code is  *)
(* still 0 and the configuration counts as valid.                          *)
ValidateSkipped ==
    /\ step = "validate"
    /\ NoEnvoy \/ ValidationRetries = 0
    /\ Goto("rotate")
    /\ UNCHANGED <<postVars, cur, tries, outVars, logVars>>

CanValidate == step = "validate" /\ ~NoEnvoy /\ tries < ValidationRetries

(* `envoy --mode validate' exits with 0. *)
ValidateAccept ==
    /\ CanValidate
    /\ passed' = passed \cup {cur.arg}
    /\ Goto("rotate")
    /\ UNCHANGED <<postVars, cur, tries, outVars, updater, setup, report, hung,
                   answer>>

(* ... exits with something else: no retry. *)
ValidateReject ==
    /\ CanValidate
    /\ Goto("refuse")
    /\ UNCHANGED <<postVars, cur, tries, outVars, logVars>>

(* Mistakes: a timeout leaves exit_code at 0; the count starts over. *)
TimeoutAccepted ==
    /\ CanValidate
    /\ tries' = tries + 1
    /\ Goto(IF tries + 1 < ValidationRetries THEN "validate" ELSE "rotate")
    /\ UNCHANGED <<postVars, cur, outVars, logVars>>

TimeoutForever ==
    /\ CanValidate
    /\ tries' = (tries + 1) % ValidationRetries
    /\ Goto("validate")
    /\ UNCHANGED <<postVars, cur, outVars, logVars>>

(* ... takes too long: exit_code is 1, and it is tried again up to the     *)
(* limit.                                                                  *)
ValidateTimeout ==
    /\ CanValidate
    /\ tries' = tries + 1
    /\ Goto(IF tries + 1 < ValidationRetries THEN "validate" ELSE "refuse")
    /\ UNCHANGED <<postVars, cur, outVars, logVars>>

(* A mistake: the return after the 500 is missing. *)
RefuseWithoutReturn ==
    /\ step = "refuse"
    /\ Respond(cur.from, 500)
    /\ answer' = [answer EXCEPT ![cur.arg] = 500]
    /\ Goto("rotate")
    /\ UNCHANGED <<events, thread, page, posted, cur, tries, outVars, updater, setup,
                   report, passed, hung>>

(* check_scout("attempted bad update"), then the requester gets a 500. *)
Refuse ==
    /\ step = "refuse"
    /\ Respond(cur.from, 500)
    /\ answer' = [answer EXCEPT ![cur.arg] = 500]
    /\ Finish
    /\ UNCHANGED <<events, thread, page, posted, tries, outVars, updater, setup,
                   report, passed, hung>>

(* The snapshots are rotated (SnapshotFiles) and latest_snapshot is set. *)
Rotate ==
    /\ step = "rotate"
    /\ app' = [app EXCEPT !["latest"] = cur.arg]
    /\ Goto("bootstrap")
    /\ UNCHANGED <<postVars, cur, tries, bootstrap, ads, hup, envoy, logVars>>

WriteBootstrap ==
    /\ step = "bootstrap"
    /\ bootstrap' = cur.arg
    /\ Goto("open_ads")
    /\ UNCHANGED <<postVars, cur, tries, app, ads, hup, envoy, logVars>>

(* open(ads_path, "w") truncates the file in place... *)
OpenAds ==
    /\ step = "open_ads"
    /\ ads' = [update |-> cur.arg, state |-> "torn"]
    /\ Goto("write_ads")
    /\ UNCHANGED <<postVars, cur, tries, app, bootstrap, hup, envoy, logVars>>

(* ...and it is whole again when the with block has closed it. *)
WriteAds ==
    /\ step = "write_ads"
    /\ ads' = [update |-> cur.arg, state |-> "whole"]
    /\ Goto("aconf")
    /\ UNCHANGED <<postVars, cur, tries, app, bootstrap, hup, envoy, logVars>>

(* A mistake: app.diag is assigned before app.ir. *)
AfterDiagEarly(field) == CASE field = "aconf" -> "diag"
                           [] field = "diag"  -> "ir"
                           [] field = "ir"    -> "econf"
                           [] field = "econf" -> "kick"

(* The order in which the attributes of app are assigned. *)
After(field) == CASE field = "aconf" -> "ir"
                  [] field = "ir"    -> "econf"
                  [] field = "econf" -> "diag"
                  [] field = "diag"  -> "kick"

Publish(field) ==
    /\ step = field
    /\ app' = [app EXCEPT ![field] = cur.arg]
    /\ Goto(After(field))
    /\ UNCHANGED <<postVars, cur, tries, bootstrap, ads, hup, envoy, logVars>>

(* A mistake: ambex is not told. *)
KickForgotten ==
    /\ step = "kick"
    /\ Goto("accept")
    /\ UNCHANGED <<postVars, cur, tries, outVars, logVars>>

(* kick_ads.sh, or a plain SIGHUP to ambex. *)
Kick ==
    /\ step = "kick"
    /\ hup' = IF Kicks THEN "yes" ELSE hup
    /\ Goto("accept")
    /\ UNCHANGED <<postVars, cur, tries, app, bootstrap, ads, envoy, logVars>>

(* The requester gets a 200; the first time, the stats_updater starts. *)
Accept ==
    /\ step = "accept"
    /\ Respond(cur.from, 200)
    /\ answer' = [answer EXCEPT ![cur.arg] = 200]
    /\ updater' = IF HealthChecks THEN "running" ELSE updater
    /\ Goto("chime")
    /\ UNCHANGED <<events, thread, page, posted, cur, tries, outVars, setup,
                   report, passed, hung>>

(* The Actions table, keyed by chimed - chimed_ok - env_good. *)
Actions(chimed, ok, good) ==
    LET key == <<chimed, ok, good>>
        Act(action, no_cache) == [action |-> action, no_cache |-> no_cache]
    IN  CASE key = <<"F", "F", "F">> -> Act("unhealthy", "T")
          [] key = <<"F", "F", "T">> -> Act("now-healthy", "T")
          [] key = <<"F", "T", "F">> -> Act("now-unhealthy", "T")
          [] key = <<"F", "T", "T">> -> Act("healthy", "T")
          [] key = <<"T", "F", "F">> -> Act("unhealthy", "F")
          [] key = <<"T", "F", "T">> -> Act("now-healthy", "T")
          [] key = <<"T", "T", "F">> -> Act("now-unhealthy", "T")
          [] key = <<"T", "T", "T">> -> Act("update", "F")

(* check_environment, and the report to Scout.  chimed and chimed_ok are   *)
(* read here; no statement of the program assigns them after __init__.     *)
Chime(good) ==
    /\ step = "chime"
    /\ report' = Actions(setup.chimed, setup.ok, good)
    /\ Finish
    /\ UNCHANGED <<postVars, tries, outVars, updater, setup, passed, hung, answer>>

(* Statements that may raise before the requester is answered. *)
Fallible == {"fetch", "compile", "validate", "refuse", "rotate", "bootstrap",
             "open_ads", "write_ads", "kick"}

(* An exception ends the event in run()'s except clause, which logs it:    *)
(* the response queue stays empty and the thread that waits on it waits on.*)
Raise ==
    /\ step \in Fallible
    /\ hung' = hung \cup {cur.from}
    /\ Finish
    /\ UNCHANGED <<postVars, tries, outVars, updater, setup, report, passed,
                   answer>>

(* After the answer an exception only costs the report to Scout. *)
RaiseLate ==
    /\ step = "chime"
    /\ Finish
    /\ UNCHANGED <<postVars, tries, outVars, logVars>>

(* ambex, external: on SIGHUP it reads the ADS file and hands it to Envoy; *)
(* a file it cannot decode changes nothing.                                *)
Ambex ==
    /\ hup = "yes"
    /\ hup' = "no"
    /\ envoy' = IF ads.state = "whole" THEN ads.update ELSE envoy
    /\ UNCHANGED <<postVars, runVars, app, bootstrap, ads, logVars>>
-----------------------------------------------------------------------------
Watcher ==
    \/ GetConfig \/ GetQuick \/ QuickWork
    \/ Fetch \/ Compile
    \/ ValidateSkipped \/ ValidateAccept \/ ValidateReject \/ ValidateTimeout
    \/ Refuse \/ Rotate \/ WriteBootstrap \/ OpenAds \/ WriteAds
    \/ \E f \in {"aconf", "ir", "econf", "diag"} : Publish(f)
    \/ Kick \/ Accept
    \/ \E good \in {"T", "F"} : Chime(good)
    \/ Raise \/ RaiseLate

Worker(w) ==
    \/ HandleUpdate(w) \/ ShowPage(w) \/ AppCheckScout(w) \/ Render(w)

Next ==
    \/ Watcher
    \/ Load \/ UpdateEstats \/ Ambex
    \/ \E w \in Workers : Worker(w)
    \/ \E t \in Threads : Receive(t)

Spec == Init /\ [][Next]_vars

(* The interpreter schedules every thread that can run, and the operating  *)
(* system delivers ambex its signal; nobody has to send another update or  *)
(* ask for another page.  That the watcher goes on also assumes that its   *)
(* network calls and the kick command end, one way or the other: the       *)
(* validation has a timeout, load_url_contents and the kick have none.     *)
Fairness ==
    /\ WF_vars(Watcher)
    /\ WF_vars(Ambex)
    /\ \A t \in Threads : WF_vars(Receive(t))

FairSpec == Spec /\ Fairness
-----------------------------------------------------------------------------
Steps == {"get", "quick", "fetch", "compile", "validate", "refuse", "rotate",
          "bootstrap", "open_ads", "write_ads", "aconf", "ir", "econf", "diag",
          "kick", "accept", "chime"}

Events == [cmd : {"none", "CONFIG", "CONFIG_FS", "SCOUT", "ESTATS"},
           arg : Nat, from : Threads]

PostTypeOK ==
    /\ events \in Seq(Events)
    /\ rqueue \in [Threads -> Seq({200, 500})]
    /\ thread \in [Threads -> {"load", "idle", "scout", "waiting", "render"}]
    /\ page \in [Threads -> [diag : Nat, ir : Nat]]
    /\ posted \in 0 .. MaxUpdates

RunTypeOK ==
    /\ step \in Steps
    /\ cur \in Events
    /\ tries \in Nat

OutTypeOK ==
    /\ app \in [Fields -> Nat]
    /\ bootstrap \in Nat
    /\ ads \in [update : Nat, state : {"whole", "torn"}]
    /\ hup \in {"no", "yes"}
    /\ envoy \in Nat

LogTypeOK ==
    /\ updater \in {"none", "running"}
    /\ setup \in [chimed : {"T", "F"}, ok : {"T", "F"}, options : Options]
    /\ report \in [action : {"none", "unhealthy", "now-healthy", "now-unhealthy",
                             "healthy", "update"}, no_cache : {"T", "F"}]
    /\ passed \subseteq Nat
    /\ hung \subseteq Threads
    /\ answer \in [Updates -> {0, 200, 500}]

TypeOK == PostTypeOK /\ RunTypeOK /\ OutTypeOK /\ LogTypeOK

(* docs/user-guide/kubernetes-integration.md: "The Envoy configuration     *)
(* file is validated by Ambassador ... Assuming the file is valid          *)
(* configuration, Ambassador uses [ADS] to deploy the new configuration".  *)
(* Whatever update is in the ADS file, is shown by the diagnostics or runs *)
(* in Envoy was accepted by `envoy --mode validate'.                       *)
DeployedWasValidated ==
    NoEnvoy \/ {ads.update, bootstrap, app["latest"], app["econf"], app["diag"], envoy}
                   \subseteq passed \cup {0}

(* _load_ir makes an update visible in one order and never lets a later    *)
(* stage run ahead of an earlier one, so a handler that reads app.diag and *)
(* afterwards another attribute never finds that one unset or older.       *)
PublishOrder ==
    /\ app["diag"] <= app["econf"] /\ app["econf"] <= app["ir"]
    /\ app["ir"] <= app["aconf"] /\ app["aconf"] <= ads.update
    /\ ads.update <= bootstrap /\ bootstrap <= app["latest"]

(* A page whose diagnostics come from update u reports an IR of u or later *)
(* to Scout and shows a latest_snapshot of u or later: the reads of one    *)
(* request are never torn the wrong way round.                             *)
PageNeverBehind ==
    \A w \in Workers :
        /\ page[w].diag <= app["latest"]
        /\ thread[w] \in {"waiting", "render"} => page[w].diag <= page[w].ir \/ page[w].diag = 0

(* An answer means what it says: a 200 is only given for an update that    *)
(* the diagnostics show or that a later one replaced, a 500 only for one   *)
(* that neither the ADS file nor the handlers nor Envoy ever have.         *)
AnswersAreTrue ==
    \A u \in Updates :
        /\ answer[u] = 200 => u <= app["diag"]
        /\ answer[u] = 500 => u \notin {app["diag"], app["latest"], ads.update, envoy}

(* The watcher has an event whose thread has no answer yet. *)
Unanswered == step \in Steps \ {"get", "quick", "chime"}

(* Every event queued or being handled belongs to a thread that is waiting *)
(* for it, no thread has two, and none has a response before the watcher   *)
(* gets to its event: a thread never reads the answer to another request,  *)
(* and never finds two.                                                    *)
OneEventPerThread ==
    /\ \A i, j \in 1 .. Len(events) : i # j => events[i].from # events[j].from
    /\ \A i \in 1 .. Len(events) :
           /\ thread[events[i].from] = "waiting"
           /\ rqueue[events[i].from] = <<>>
           /\ Unanswered => events[i].from # cur.from
    /\ Unanswered => thread[cur.from] = "waiting" /\ rqueue[cur.from] = <<>>
    /\ \A t \in Threads : Len(rqueue[t]) <= 1

(* Envoy never goes back to an older update. *)
EnvoyMovesForward == [][envoy' >= envoy]_envoy

(* A thread that posted an event is answered, unless the load raised an    *)
(* exception before the answer; a validation that times out, a rejected    *)
(* configuration or a busy queue never leave it waiting.                   *)
PostReturns ==
    \A t \in Threads : thread[t] = "waiting" ~> (thread[t] # "waiting" \/ t \in hung)

(* The load of update u ended in an exception after it had begun to write  *)
(* the ADS file.                                                           *)
DiedPublishing(u) ==
    /\ ads.update = u
    /\ u # 0 /\ answer[u] = 0
    /\ step \in {"get", "quick"} \/ cur.arg # u

(* With a kick command, an update that was answered with 200 reaches       *)
(* Envoy, or a later one does, although ambex may read the ADS file while  *)
(* the next load is rewriting it: the kick that follows makes up for it,   *)
(* unless that load dies before its kick.                                  *)
AcceptedReachesEnvoy ==
    \A u \in Updates :
        (Kicks /\ answer[u] = 200) ~> (envoy >= u \/ DiedPublishing(ads.update))

(* Updates wait in the order they were numbered, unanswered, and all of    *)
(* them are newer than what has been published and what is being loaded.   *)
IsConfig(e) == e.cmd \in {"CONFIG", "CONFIG_FS"}

QueueInOrder ==
    /\ \A i \in 1 .. Len(events) : IsConfig(events[i]) =>
           /\ events[i].arg \in 1 .. posted
           /\ answer[events[i].arg] = 0
           /\ app["latest"] < events[i].arg
           /\ Unanswered => cur.arg < events[i].arg
    /\ \A i, j \in 1 .. Len(events) :
           i < j /\ IsConfig(events[i]) /\ IsConfig(events[j])
               => events[i].arg < events[j].arg
    /\ \A u \in Updates : u > posted => answer[u] = 0
    /\ app["latest"] <= posted

(* Which of the outputs the load in progress has already replaced. *)
LoadInProgress ==
    Unanswered =>
        LET u == cur.arg
            From(stage) == step \in stage
        IN  /\ u \in 1 .. posted
            /\ answer[u] = 0
            /\ From({"fetch", "compile", "validate", "refuse", "rotate"}) => app["latest"] < u
            /\ From({"bootstrap", "open_ads", "write_ads", "aconf", "ir", "econf",
                     "diag", "kick", "accept"}) => app["latest"] = u
            /\ From({"open_ads", "write_ads", "aconf", "ir", "econf", "diag", "kick",
                     "accept"}) => bootstrap = u
            /\ From({"write_ads", "aconf", "ir", "econf", "diag", "kick", "accept"})
                     => ads.update = u
            /\ From({"ir", "econf", "diag", "kick", "accept"}) => app["aconf"] = u
            /\ From({"econf", "diag", "kick", "accept"}) => app["ir"] = u
            /\ From({"diag", "kick", "accept"}) => app["econf"] = u
            /\ From({"kick", "accept"}) => app["diag"] = u

(* Envoy is never ahead of the file it is configured from. *)
EnvoyBehindFile == envoy <= ads.update

(* The inductive invariant behind PublishOrder and AnswersAreTrue. *)
PublishInv ==
    /\ TypeOK
    /\ QueueInOrder
    /\ LoadInProgress
    /\ PublishOrder
    /\ EnvoyBehindFile
    /\ AnswersAreTrue

(* A load past its validation is of an update Envoy accepted. *)
ValidationInv ==
    /\ TypeOK
    /\ DeployedWasValidated
    /\ ~NoEnvoy /\ step \in {"rotate", "bootstrap", "open_ads", "write_ads", "aconf",
                           "ir", "econf", "diag", "kick"} => cur.arg \in passed

(* A thread that shows no page has read nothing, and what has been read    *)
(* is not newer than what is published.                                    *)
PageInv ==
    \A t \in Threads :
        /\ page[t].diag <= app["diag"]
        /\ thread[t] \in {"load", "idle"} => page[t].diag = 0
        /\ thread[t] \in {"waiting", "render"} => page[t].diag <= page[t].ir \/ page[t].diag = 0

(* diagd implements the service of ConfigService, seen through app.diag,   *)
(* the numbers handed out and the answers given.                           *)
Service == INSTANCE ConfigService
               WITH live <- app["diag"], submitted <- posted

ImplementsService == Service!ServiceSpec
=============================================================================
