------------------------------- MODULE Health -------------------------------
(***************************************************************************)
(* diagd's liveness and readiness checks.  EnvoyStats remembers when Envoy *)
(* last answered; check_alive and check_ready compare that time with the   *)
(* clock.  The statistics are fetched by the event watcher thread, when it *)
(* gets to the ESTATS event that the stats_updater posts, so that they     *)
(* wait for whatever the watcher does before: an update with its           *)
(* validations, each of which may take until its timeout.                  *)
(*                                                                         *)
(* `now' counts units of time; the cfg files use units of 5 seconds, which *)
(* are the updater's period and the timeout of one validation.  Work other *)
(* than waiting for a validation takes no time.                            *)
(***************************************************************************)
EXTENDS Integers, FiniteSets, Sequences

CONSTANTS MaxAge,             \* max_live_age and max_ready_age
          Period,             \* period of the stats_updater
          Timeout,            \* timeout of one validation
          ValidationRetries,  \* --validation-retries
          MaxQueue,           \* bound on the updates waiting in the queue
          MaxChanges,         \* bound on the changes of Envoy's condition
          MaxTime             \* bound on the clock

ASSUME HealthAssumption ==
    /\ MaxAge \in Nat /\ Period \in Nat \ {0}
    /\ Timeout \in Nat /\ ValidationRetries \in Nat
    /\ MaxQueue \in Nat /\ MaxChanges \in Nat /\ MaxTime \in Nat

VARIABLES now,          \* time.time(); diagd booted at Boot
          envoy,        \* "down", "ailing" (answers badly) or "good"
          since,        \* history: when Envoy last became good or stopped being it
          changes,      \* changes of Envoy's condition so far
          last_update,  \* stats["last_update"], 0 for never
          last_attempt, \* stats["last_attempt"]
          update_errors,\* stats["update_errors"]
          events,       \* the watcher's queue
          watcher,      \* what the watcher is doing
          left,         \* time until the validation it waits for ends
          attempt,      \* when the update of the statistics in progress began
          updater,      \* the stats_updater: "none", "asleep" or "waiting"
          wake,         \* when it wakes up
          configured    \* "yes" once app.ir is set

vars == <<now, envoy, since, changes, last_update, last_attempt, update_errors,
          events, watcher, left, attempt, updater, wake, configured>>

statVars    == <<last_update, last_attempt, update_errors>>
envoyVars   == <<envoy, since, changes>>
updaterVars == <<updater, wake>>

(* stats["created"]; not 0, which stands for "never". *)
Boot == 1

Init ==
    /\ now = Boot
    /\ envoy = "down"
    /\ since = Boot
    /\ changes = 0
    /\ last_update = 0
    /\ last_attempt = 0
    /\ update_errors = 0
    /\ events = <<>>
    /\ watcher = "idle"
    /\ left = 0
    /\ attempt = 0
    /\ updater = "none"
    /\ wake = 0
    /\ configured = "no"
-----------------------------------------------------------------------------
(* is_alive: until Envoy is first heard of, the time of the boot counts. *)
Epoch == IF last_update = 0 THEN Boot ELSE last_update

is_alive == now - Epoch <= MaxAge

is_ready == last_update # 0 /\ now - last_update <= MaxAge

(* check_ready also wants a configuration. *)
CheckReady == configured = "yes" /\ is_ready
-----------------------------------------------------------------------------
(* Somebody posts an update. *)
PostUpdate ==
    /\ Cardinality({i \in 1 .. Len(events) : events[i] = "CONFIG"}) < MaxQueue
    /\ events' = Append(events, "CONFIG")
    /\ UNCHANGED <<now, envoyVars, statVars, watcher, left, attempt, updaterVars,
                   configured>>

(* The stats_updater has slept for its period: update_estats posts and     *)
(* waits.                                                                  *)
PostEstats ==
    /\ updater = "asleep"
    /\ wake <= now
    /\ events' = Append(events, "ESTATS")
    /\ updater' = "waiting"
    /\ UNCHANGED <<now, envoyVars, statVars, watcher, left, attempt, wake,
                   configured>>

(* The watcher takes an update; its validation will take until `left'. *)
TakeUpdate ==
    /\ watcher = "idle"
    /\ events # <<>> /\ Head(events) = "CONFIG"
    /\ events' = Tail(events)
    /\ watcher' = "load"
    /\ \E timeouts \in 0 .. ValidationRetries : left' = timeouts * Timeout
    /\ UNCHANGED <<now, envoyVars, statVars, attempt, updaterVars, configured>>

(* The load ends: refused, or accepted, and then app.ir is set and the     *)
(* updater started if there is none.                                       *)
EndRefused ==
    /\ watcher = "load" /\ left = 0
    /\ watcher' = "idle"
    /\ UNCHANGED <<now, envoyVars, statVars, events, left, attempt, updaterVars,
                   configured>>

(* A mistake: whether there is an updater is not looked at. *)
SecondUpdater ==
    /\ watcher = "load" /\ left = 0
    /\ watcher' = "idle"
    /\ configured' = "yes"
    /\ updater' = "asleep"
    /\ wake' = now + Period
    /\ UNCHANGED <<now, envoyVars, statVars, events, left, attempt>>

EndAccepted ==
    /\ watcher = "load" /\ left = 0
    /\ watcher' = "idle"
    /\ configured' = "yes"
    /\ updater' = IF updater = "none" THEN "asleep" ELSE updater
    /\ wake' = IF updater = "none" THEN now + Period ELSE wake
    /\ UNCHANGED <<now, envoyVars, statVars, events, left, attempt>>

(* A mistake: the event is not answered, and the updater waits on. *)
EstatsUnanswered ==
    /\ watcher = "idle"
    /\ events # <<>> /\ Head(events) = "ESTATS"
    /\ events' = Tail(events)
    /\ watcher' = "levels"
    /\ attempt' = now
    /\ UNCHANGED <<now, envoyVars, statVars, left, updaterVars, configured>>

(* An ESTATS event is answered first, which lets the updater sleep again. *)
TakeEstats ==
    /\ watcher = "idle"
    /\ events # <<>> /\ Head(events) = "ESTATS"
    /\ events' = Tail(events)
    /\ updater' = "asleep"
    /\ wake' = now + Period
    /\ watcher' = "levels"
    /\ attempt' = now
    /\ UNCHANGED <<now, envoyVars, statVars, left, configured>>

(* update_log_levels: its failure is counted, and update goes on... *)
LogLevels ==
    /\ watcher = "levels"
    /\ watcher' = "stats"
    /\ \/ envoy # "down" /\ update_errors' = update_errors
       \/ envoy # "good" /\ update_errors' = update_errors + 1
    /\ UNCHANGED <<now, envoyVars, last_update, last_attempt, events, left,
                   attempt, updaterVars, configured>>

(* ...an answer it cannot parse raises out of either call, and update      *)
(* swallows the exception.                                                 *)
Unparsable ==
    /\ watcher \in {"levels", "stats"}
    /\ envoy = "ailing"
    /\ watcher' = "idle"
    /\ UNCHANGED <<now, envoyVars, statVars, events, left, attempt, updaterVars,
                   configured>>

(* A mistake: the time of the update is noted before Envoy is asked. *)
NotedAnyway ==
    /\ watcher = "stats"
    /\ watcher' = "idle"
    /\ last_update' = now
    /\ last_attempt' = attempt
    /\ update_errors' = IF envoy = "good" THEN update_errors ELSE update_errors + 1
    /\ UNCHANGED <<now, envoyVars, events, left, attempt, updaterVars, configured>>

(* update_envoy_stats: only an answer that could be used changes the times.*)
EnvoyStats ==
    /\ watcher = "stats"
    /\ watcher' = "idle"
    /\ IF envoy = "good"
       THEN /\ last_update' = now
            /\ last_attempt' = attempt
            /\ UNCHANGED update_errors
       ELSE /\ update_errors' = update_errors + 1
            /\ UNCHANGED <<last_update, last_attempt>>
    /\ UNCHANGED <<now, envoyVars, events, left, attempt, updaterVars, configured>>

(* Envoy, external: the first accepted update starts it; it may die, ail   *)
(* and recover at any time.                                                *)
EnvoyChanges ==
    /\ configured = "yes"
    /\ changes < MaxChanges
    /\ envoy' \in {"down", "ailing", "good"} \ {envoy}
    /\ since' = IF "good" \in {envoy, envoy'} THEN now ELSE since
    /\ changes' = changes + 1
    /\ UNCHANGED <<now, statVars, events, watcher, left, attempt, updaterVars,
                   configured>>

(* Time passes while nobody has anything to do but wait. *)
Waiting ==
    /\ \/ watcher = "idle" /\ events = <<>>
       \/ watcher = "load" /\ left > 0
    /\ updater = "asleep" => now < wake

Tick ==
    /\ now < MaxTime
    /\ Waiting
    /\ now' = now + 1
    /\ left' = IF left > 0 THEN left - 1 ELSE 0
    /\ UNCHANGED <<envoyVars, statVars, events, watcher, attempt, updaterVars,
                   configured>>

Next ==
    \/ PostUpdate \/ PostEstats
    \/ TakeUpdate \/ EndRefused \/ EndAccepted
    \/ TakeEstats \/ LogLevels \/ Unparsable \/ EnvoyStats
    \/ EnvoyChanges \/ Tick

Spec == Init /\ [][Next]_vars
-----------------------------------------------------------------------------
ValuesOK ==
    /\ now \in Nat /\ since \in Nat /\ changes \in Nat
    /\ last_update \in Nat /\ last_attempt \in Nat /\ update_errors \in Nat
    /\ left \in Nat /\ attempt \in Nat /\ wake \in Nat
    /\ envoy \in {"down", "ailing", "good"}
    /\ events \in Seq({"CONFIG", "ESTATS"})
    /\ watcher \in {"idle", "load", "levels", "stats"}
    /\ updater \in {"none", "asleep", "waiting"}
    /\ configured \in {"no", "yes"}

(* There is one stats_updater (app.stats_updater), and it waits for the    *)
(* answer to its event before it posts another.                            *)
OneEstats ==
    \A i, j \in 1 .. Len(events) : events[i] = "ESTATS" /\ events[j] = "ESTATS" => i = j

TypeOK == ValuesOK /\ OneEstats

(* envoy_stats.py: "Make sure we've heard from Envoy within max_live_age   *)
(* seconds".  When Envoy has been down, or has answered nothing usable,    *)
(* for longer than that, both checks fail, however many attempts were made *)
(* to ask it and whenever the last good answer was recorded.               *)
SilenceNoticed ==
    envoy # "good" /\ now - since > MaxAge => ~is_alive /\ ~CheckReady

(* The longest that an update can keep the watcher, when all of its        *)
(* validations time out...                                                 *)
Work == ValidationRetries * Timeout

(* ...and that the statistics can wait for the update in progress and      *)
(* those in the queue.                                                     *)
Delay == Work * (MaxQueue + 1)

(* How stale the checks' knowledge of Envoy can get: once Envoy has been   *)
(* answering well for the updater's period and the longest delay, it was   *)
(* heard within that time, whatever the watcher had to do before asking.   *)
(* check_alive and check_ready compare this age with max_live_age.         *)
AgeBounded ==
    envoy = "good" /\ now - since > Period + Delay =>
        /\ configured = "yes"
        /\ last_update # 0
        /\ now - last_update <= Period + Delay

(* docs/reference/core/ambassador.md: "The default liveness and readiness  *)
(* probes map `/ambassador/v0/check_alive` and                             *)
(* `ambassador/v0/check_ready` internally to check Envoy itself."  Once    *)
(* Envoy has been answering well for max_live_age, the checks pass: they   *)
(* are not failed by what the watcher has to do before it asks Envoy.      *)
ChecksEnvoyItself ==
    envoy = "good" /\ now - since > MaxAge => is_alive /\ CheckReady

(* The inductive form of SilenceNoticed: nothing was heard from Envoy      *)
(* after it fell silent.                                                   *)
HeardBefore ==
    /\ ValuesOK
    /\ Boot <= since /\ since <= now
    /\ envoy # "good" => last_update <= since
    /\ last_update <= now
=============================================================================
