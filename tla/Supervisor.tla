----------------------------- MODULE Supervisor -----------------------------
(***************************************************************************)
(* The processes of the Ambassador container: entrypoint.sh launches       *)
(* ambex, diagd and watt as jobs, waits for diagd to answer, and then      *)
(* waits for one of them to exit in order to bring down the others.  Envoy *)
(* is not one of its jobs: kick_ads.sh, which diagd runs after each update,*)
(* starts it when the pid file does not name a running process.            *)
(*                                                                         *)
(* A pid belongs to one process at a time and may be used again after its  *)
(* death.  The pid file lies in ENVOY_DIR and may survive a restart of the *)
(* container.  Demo mode and diagd-only mode are left out.                 *)
(***************************************************************************)
EXTENDS Integers, FiniteSets

CONSTANTS Pids,       \* process ids, other than the shell's own
          Tries,      \* attempts to reach diagd
          MaxKicks,   \* bound on the kicks in the life of one container
          MaxStarts   \* bound on the starts of the container

ASSUME SupervisorAssumption ==
    /\ Pids \subseteq Nat \ {0}
    /\ Tries \in Nat /\ MaxKicks \in Nat /\ MaxStarts \in Nat

VARIABLES table,      \* table[pid]: the process that has it, or "free"
          entry,      \* where entrypoint.sh is
          tries_left,
          delay,
          jobs,       \* the shell's jobs it has not collected yet
          dead,       \* those of them that have exited
          signalled,  \* those it has sent SIGTERM
          serving,    \* diagd's port: "no", "listening" or "yes" (it answers)
          kick,       \* where kick_ads.sh is, "none" when it does not run
          envoy_pid,  \* its variable envoy_pid
          pidfile,    \* contents of envoy.pid, 0 when there is none
          kicks, starts

vars == <<table, entry, tries_left, delay, jobs, dead, signalled, serving, kick,
          envoy_pid, pidfile, kicks, starts>>

shellVars == <<entry, tries_left, delay, starts>>
jobVars   == <<jobs, dead, signalled, serving>>
kickVars  == <<kick, envoy_pid, pidfile, kicks>>

Workers == {"ambex", "diagd", "watt"}

Processes == Workers \cup {"envoy", "other", "free"}

Running(w) == w \in jobs \ dead

EnvoyPids == {pid \in Pids : table[pid] = "envoy"}

Init ==
    /\ table = [pid \in Pids |-> "free"]
    /\ entry = "ambex"
    /\ tries_left = Tries
    /\ delay = 1
    /\ jobs = {}
    /\ dead = {}
    /\ signalled = {}
    /\ serving = "no"
    /\ kick = "none"
    /\ envoy_pid = 0
    /\ pidfile = 0
    /\ kicks = 0
    /\ starts = 1

(* The kernel gives a new process any pid that is free. *)
Spawn(name) ==
    \E pid \in Pids : table[pid] = "free" /\ table' = [table EXCEPT ![pid] = name]

(* ...and takes it back when the process ends. *)
End(name) ==
    \E pid \in Pids : table[pid] = name /\ table' = [table EXCEPT ![pid] = "free"]
-----------------------------------------------------------------------------
(* entrypoint.sh                                                           *)

launch(name, next) ==
    /\ Spawn(name)
    /\ jobs' = jobs \cup {name}
    /\ entry' = next

LaunchAmbex ==
    /\ entry = "ambex"
    /\ launch("ambex", "diagd")
    /\ UNCHANGED <<tries_left, delay, starts, dead, signalled, serving, kickVars>>

LaunchDiagd ==
    /\ entry = "diagd"
    /\ launch("diagd", "ping")
    /\ UNCHANGED <<tries_left, delay, starts, dead, signalled, serving, kickVars>>

(* A mistake: the delay is doubled without a limit. *)
BackoffUnlimited(d) == 2 * d

(* The delay before the next attempt. *)
Backoff(d) == IF 2 * d > 10 THEN 5 ELSE 2 * d

(* gunicorn binds the port before it loads the application, so that a      *)
(* connection is accepted and waits until diagd serves it.                 *)
Accepting == serving \in {"listening", "yes"}

(* A mistake: the attempts are not counted. *)
PingUncounted ==
    /\ entry = "ping"
    /\ tries_left > 0
    /\ ~Accepting
    /\ delay' = Backoff(delay)
    /\ UNCHANGED <<table, entry, tries_left, starts, jobVars, kickVars>>

(* One round of the loop that waits for diagd: the connection is refused,  *)
(* or breaks because diagd dies.  There is no round that ends because diagd*)
(* accepts the connection and does not answer: curl is given no time limit.*)
PingFails ==
    /\ entry = "ping"
    /\ tries_left > 0
    /\ ~Accepting
    /\ tries_left' = tries_left - 1
    /\ delay' = Backoff(delay)
    /\ UNCHANGED <<table, entry, starts, jobVars, kickVars>>

(* diagd answers, or the shell gives up and hopes for the best.  The       *)
(* loop's variables are not read again.                                    *)
PingDone ==
    /\ entry = "ping"
    /\ tries_left = 0 \/ serving = "yes"
    /\ entry' = "watt"
    /\ tries_left' = 0
    /\ delay' = 1
    /\ UNCHANGED <<table, starts, jobVars, kickVars>>

LaunchWatt ==
    /\ entry = "watt"
    /\ launch("watt", "wait")
    /\ UNCHANGED <<tries_left, delay, starts, dead, signalled, serving, kickVars>>

(* AMBASSADOR_NO_KUBEWATCH: there is no watt. *)
NoWatt ==
    /\ entry = "watt"
    /\ entry' = "wait"
    /\ UNCHANGED <<table, tries_left, delay, starts, jobVars, kickVars>>

Collect(w, next) ==
    /\ w \in dead
    /\ dead' = dead \ {w}
    /\ jobs' = jobs \ {w}
    /\ signalled' = signalled \ {w}
    /\ entry' = next
    /\ UNCHANGED <<table, tries_left, delay, starts, serving, kickVars>>

(* wait -n: one of the workers has exited. *)
WaitReturns == entry = "wait" /\ \E w \in dead : Collect(w, "kill")

(* Nothing to wait for: wait -n fails at once. *)
WaitFails ==
    /\ entry \in {"wait", "reap"}
    /\ jobs = {}
    /\ entry' = "kill"
    /\ UNCHANGED <<table, tries_left, delay, starts, jobVars, kickVars>>

(* A mistake: the others are not signalled. *)
KillNobody ==
    /\ entry = "kill"
    /\ jobs # {}
    /\ signalled' = signalled
    /\ entry' = "reap"
    /\ UNCHANGED <<table, tries_left, delay, starts, jobs, dead, serving, kickVars>>

(* jobs -p | xargs -r kill, and wait for one more. *)
KillJobs ==
    /\ entry = "kill"
    /\ jobs # {}
    /\ signalled' = signalled \cup jobs
    /\ entry' = "reap"
    /\ UNCHANGED <<table, tries_left, delay, starts, jobs, dead, serving, kickVars>>

Reap == entry = "reap" /\ \E w \in dead : Collect(w, "kill")

(* The shell exits; whatever still runs in the container ends with it. *)
Exit ==
    /\ entry = "kill"
    /\ jobs = {}
    /\ entry' = "exited"
    /\ table' = [pid \in Pids |-> "free"]
    /\ serving' = "no"
    /\ kick' = "none"
    /\ envoy_pid' = 0
    /\ UNCHANGED <<tries_left, delay, starts, jobs, dead, signalled, pidfile, kicks>>
-----------------------------------------------------------------------------
(* The other processes.                                                    *)

(* A worker exits.  Before the shell waits, the CHLD trap's `jobs -n' may  *)
(* report the job, and then wait -n does not see it any more.  diagd's     *)
(* port is closed with it.                                                 *)
Die(w) ==
    /\ Running(w)
    /\ End(w)
    /\ \/ dead' = dead \cup {w} /\ jobs' = jobs
       \/ /\ entry \notin {"wait", "kill", "reap"}
          /\ jobs' = jobs \ {w} /\ dead' = dead
    /\ serving' = IF w = "diagd" THEN "no" ELSE serving
    /\ UNCHANGED <<shellVars, signalled, kickVars>>

(* A worker obeys SIGTERM. *)
Obey(w) == w \in signalled /\ Die(w)

(* gunicorn, external: it listens, and serves once load() has returned,    *)
(* which waits for the configuration of the filesystem when there is one.  *)
DiagdListens ==
    /\ Running("diagd")
    /\ serving = "no"
    /\ serving' = "listening"
    /\ UNCHANGED <<table, shellVars, jobs, dead, signalled, kickVars>>

DiagdServes ==
    /\ serving = "listening"
    /\ serving' = "yes"
    /\ UNCHANGED <<table, shellVars, jobs, dead, signalled, kickVars>>

EnvoyDies ==
    /\ End("envoy")
    /\ UNCHANGED <<shellVars, jobVars, kickVars>>

(* Short-lived processes: validations, hooks, kicks. *)
OtherStarts ==
    /\ entry # "exited"
    /\ Spawn("other")
    /\ UNCHANGED <<shellVars, jobVars, kickVars>>

OtherEnds ==
    /\ End("other")
    /\ UNCHANGED <<shellVars, jobVars, kickVars>>

(* The container is started again.  Its filesystem, or the volume that     *)
(* AMBASSADOR_CONFIG_BASE_DIR names, may be the old one.                   *)
Restart ==
    /\ entry = "exited"
    /\ starts < MaxStarts
    /\ starts' = starts + 1
    /\ entry' = "ambex"
    /\ tries_left' = Tries
    /\ delay' = 1
    /\ jobs' = {} /\ dead' = {} /\ signalled' = {}
    /\ pidfile' \in {pidfile, 0}
    /\ kicks' = 0
    /\ UNCHANGED <<table, serving, kick, envoy_pid>>
-----------------------------------------------------------------------------
(* kick_ads.sh, run by the event watcher, one at a time.                   *)

(* kill -0 says that some process has the pid in the file. *)
PidAlive == pidfile \in Pids /\ table[pidfile] # "free"

KickCheck ==
    /\ Running("diagd")
    /\ kick = "none"
    /\ kicks < MaxKicks
    /\ kicks' = kicks + 1
    /\ kick' = IF PidAlive THEN "hup" ELSE "start"
    /\ UNCHANGED <<table, shellVars, jobVars, envoy_pid, pidfile>>

KickStart ==
    /\ kick = "start"
    /\ \E pid \in Pids :
           /\ table[pid] = "free"
           /\ table' = [table EXCEPT ![pid] = "envoy"]
           /\ envoy_pid' = pid
    /\ kick' = "write"
    /\ UNCHANGED <<shellVars, jobVars, pidfile, kicks>>

(* A mistake: the pid file is only written once. *)
KickWriteOnce ==
    /\ kick = "write"
    /\ pidfile' = IF pidfile = 0 THEN envoy_pid ELSE pidfile
    /\ kick' = "hup"
    /\ envoy_pid' = 0
    /\ UNCHANGED <<table, shellVars, jobVars, kicks>>

KickWrite ==
    /\ kick = "write"
    /\ pidfile' = envoy_pid
    /\ kick' = "hup"
    /\ envoy_pid' = 0
    /\ UNCHANGED <<table, shellVars, jobVars, kicks>>

(* SIGHUP for ambex; EventWatcher has what comes of it. *)
KickHup ==
    /\ kick = "hup"
    /\ kick' = "none"
    /\ UNCHANGED <<table, shellVars, jobVars, envoy_pid, pidfile, kicks>>
-----------------------------------------------------------------------------
Shell ==
    \/ LaunchAmbex \/ LaunchDiagd \/ PingFails \/ PingDone \/ LaunchWatt \/ NoWatt
    \/ WaitReturns \/ WaitFails \/ KillJobs \/ Reap \/ Exit

Kick == KickCheck \/ KickStart \/ KickWrite \/ KickHup

Next ==
    \/ Shell \/ Kick
    \/ \E w \in Workers : Die(w)
    \/ DiagdListens \/ DiagdServes \/ EnvoyDies \/ OtherStarts \/ OtherEnds
    \/ Restart

Spec == Init /\ [][Next]_vars

(* The shell runs, and a worker that was sent SIGTERM exits.  Nothing else *)
(* has to happen: not even an answer to a connection diagd has accepted.   *)
FairSpec == Spec /\ WF_vars(Shell) /\ \A w \in Workers : WF_vars(Obey(w))
-----------------------------------------------------------------------------
TypeOK ==
    /\ table \in [Pids -> Processes]
    /\ entry \in {"ambex", "diagd", "ping", "watt", "wait", "kill", "reap", "exited"}
    /\ tries_left \in 0 .. Tries
    /\ delay \in 1 .. 10
    /\ jobs \subseteq Workers /\ dead \subseteq jobs /\ signalled \subseteq Workers
    /\ serving \in {"no", "listening", "yes"}
    /\ kick \in {"none", "start", "write", "hup"}
    /\ envoy_pid \in Nat /\ pidfile \in Nat
    /\ kicks \in Nat /\ starts \in Nat

(* There is never a second Envoy beside the first, whatever dies, restarts *)
(* or takes over a pid between two kicks: two would fight for the ports.   *)
OneEnvoy == \A p, q \in EnvoyPids : p = q

(* The inductive form: Envoy's pid is in the file, or about to be.         *)
EnvoyInFile ==
    /\ \A pid \in EnvoyPids : pid = IF kick = "write" THEN envoy_pid ELSE pidfile
    /\ kick = "start" => EnvoyPids = {}
    /\ entry = "exited" => EnvoyPids = {} /\ jobs = {} /\ kick = "none"

(* entrypoint.sh: "Wait for one worker to quit, then kill the others":     *)
(* once the shell waits, the exit of any worker brings the container down. *)
DownTogether == (entry = "wait" /\ dead # {}) ~> entry = "exited"

(* "giving up on diagd and hoping for the best": the loop that waits for   *)
(* diagd ends, whether diagd answers, refuses every connection or dies at  *)
(* any time.  The one exception is a diagd that has accepted a connection  *)
(* and from then on neither answers nor dies.                              *)
PingEnds ==
    entry = "ping" ~> (entry # "ping" \/ [](serving = "listening"))
=============================================================================
