---------------------------- MODULE ScoutNotices ----------------------------
(***************************************************************************)
(* Reports to Scout and the notices on the diagnostics pages.  check_scout *)
(* resets app.notices to the local notices, reports to Scout (or takes the *)
(* cached result) and posts the notices of the answer.  Two threads run    *)
(* it: the event watcher, after an update and for every page shown, and    *)
(* the scout_checker once a day.  A page is answered before its check      *)
(* begins, and puts notices of its own into the same list before it shows  *)
(* it.  Nothing of this is locked.                                         *)
(*                                                                         *)
(* The result of a contact with Scout is 1 and carries one notice at or    *)
(* above the log level; 0 is a result without any.                         *)
(* AMBASSADOR_SCOUT_RESULT is not set.                                     *)
(***************************************************************************)
EXTENDS Integers, Sequences, FiniteSets

CONSTANTS Pages,        \* HTTP threads that show pages
          Frequency,    \* update_frequency of AmbScout
          Day,          \* period of the scout_checker
          MaxReports,   \* bound on the updates reported and the pages shown
          MaxTime       \* bound on the clock

ASSUME ScoutAssumption ==
    /\ IsFiniteSet(Pages) /\ Pages \cap {"local", "scout"} = {}
    /\ Frequency \in Nat /\ Day \in Nat
    /\ MaxReports \in Nat /\ MaxTime \in Nat

VARIABLES now,          \* datetime.now(), counted from the boot
          notices,      \* app.notices.notices
          events,       \* SCOUT events: the pages that posted them
          page,         \* what each page is doing
          job,          \* where each reporter is in check_scout
          began,        \* its `now' in AmbScout.report
          result,       \* the result it got, 0 for none with a notice
          no_cache,     \* its argument: "yes" to contact Scout in any case
          connected,    \* "yes" once AmbScout has its Scout object
          last_update,  \* _last_update
          last_result,  \* _last_result, 0 for None
          wake,         \* when the scout_checker wakes up
          reports       \* updates reported and pages shown so far

vars == <<now, notices, events, page, job, began, result, no_cache, connected,
          last_update, last_result, wake, reports>>

pageVars  == <<events, page, reports>>
cacheVars == <<connected, last_update, last_result>>
callVars  == <<began, result, no_cache>>

Reporters == {"watcher", "checker"}

Notice(by, what) == [by |-> by, what |-> what]

LocalNotices == <<Notice("local", "file")>>

(* StandaloneApplication.__init__ reports the boot, before there is an     *)
(* event watcher and without posting notices: Scout is reached or not.     *)
BootReport ==
    \/ connected = "yes" /\ last_update = 0 /\ last_result = 1
    \/ connected = "no" /\ last_update = -2 * Frequency /\ last_result = 0

Init ==
    /\ now = 0
    /\ notices = LocalNotices
    /\ events = <<>>
    /\ page = [p \in Pages |-> "idle"]
    /\ job = [r \in Reporters |-> "idle"]
    /\ began = [r \in Reporters |-> 0]
    /\ result = [r \in Reporters |-> 0]
    /\ no_cache = [r \in Reporters |-> "no"]
    /\ BootReport
    /\ wake = Day
    /\ reports = 0
-----------------------------------------------------------------------------
(* Pages.                                                                  *)

(* show_overview, show_intermediate: app.check_scout posts an event. *)
Show(p) ==
    /\ page[p] = "idle"
    /\ reports < MaxReports
    /\ reports' = reports + 1
    /\ events' = Append(events, p)
    /\ page' = [page EXCEPT ![p] = "waiting"]
    /\ UNCHANGED <<now, notices, job, callVars, cacheVars, wake>>

(* collect_errors_and_notices: a log level that could not be set is put in *)
(* front...                                                                *)
Prepend(p) ==
    /\ page[p] = "collect"
    /\ page' = [page EXCEPT ![p] = "post"]
    /\ notices' \in {notices, <<Notice(p, "loglevel")>> \o notices}
    /\ UNCHANGED <<now, events, reports, job, callVars, cacheVars, wake>>

(* ...and the notices of the configuration at the end. *)
PostOwn(p) ==
    /\ page[p] = "post"
    /\ page' = [page EXCEPT ![p] = "render"]
    /\ notices' \in {notices, Append(notices, Notice(p, "diag"))}
    /\ UNCHANGED <<now, events, reports, job, callVars, cacheVars, wake>>

(* The page takes the list as it is now. *)
Render(p) ==
    /\ page[p] = "render"
    /\ page' = [page EXCEPT ![p] = "idle"]
    /\ UNCHANGED <<now, notices, events, reports, job, callVars,
                   cacheVars, wake>>
-----------------------------------------------------------------------------
(* Reporters.                                                              *)

Goto(r, s) == job' = [job EXCEPT ![r] = s]

(* check_scout is called. *)
Call(r, nc) ==
    /\ Goto(r, "reset")
    /\ no_cache' = [no_cache EXCEPT ![r] = nc]

(* run: a SCOUT event is answered before check_scout is called; its second *)
(* argument, the page's IR, is taken for no_cache.                         *)
TakeScout ==
    /\ job["watcher"] = "idle"
    /\ events # <<>>
    /\ events' = Tail(events)
    /\ page' = [page EXCEPT ![Head(events)] = "collect"]
    /\ Call("watcher", "yes")
    /\ UNCHANGED <<now, notices, reports, began, result, cacheVars, wake>>

(* _load_ir calls check_scout at the end of an accepted update, with the   *)
(* no_cache of the Actions table, which is True as long as chimed is not   *)
(* set, and nothing sets it...                                             *)
AfterUpdate ==
    /\ job["watcher"] = "idle"
    /\ reports < MaxReports
    /\ reports' = reports + 1
    /\ Call("watcher", "yes")
    /\ UNCHANGED <<now, notices, events, page, began, result, cacheVars, wake>>

(* ...and when the configuration is refused, with the cache. *)
AfterBadUpdate ==
    /\ job["watcher"] = "idle"
    /\ reports < MaxReports
    /\ reports' = reports + 1
    /\ Call("watcher", "no")
    /\ UNCHANGED <<now, notices, events, page, began, result, cacheVars, wake>>

(* The scout_checker has slept for a day. *)
Checkin ==
    /\ job["checker"] = "idle"
    /\ wake <= now
    /\ Call("checker", "no")
    /\ UNCHANGED <<now, notices, pageVars, began, result, cacheVars, wake>>

(* Mistakes: the new list is filled in place; the old one is kept. *)
ResetInPlace(r) ==
    /\ job[r] = "reset"
    /\ IF notices # <<>> THEN notices' = <<>> /\ UNCHANGED job
                         ELSE notices' = LocalNotices /\ Goto(r, "report")
    /\ UNCHANGED <<now, pageVars, callVars, cacheVars, wake>>

ResetExtends(r) ==
    /\ job[r] = "reset"
    /\ notices' = notices \o LocalNotices
    /\ Goto(r, "report")
    /\ UNCHANGED <<now, pageVars, callVars, cacheVars, wake>>

(* Notices.reset builds a list from the local file and then puts it in     *)
(* place of the old one.                                                   *)
Reset(r) ==
    /\ job[r] = "reset"
    /\ notices' = LocalNotices
    /\ Goto(r, "report")
    /\ UNCHANGED <<now, pageVars, callVars, cacheVars, wake>>

needs_update(r) == no_cache[r] = "yes" \/ now - last_update > Frequency

(* AmbScout.report up to the contact, or all of it from the cache. *)
Report(r) ==
    /\ job[r] = "report"
    /\ began' = [began EXCEPT ![r] = now]
    /\ \/ /\ needs_update(r)
          /\ Goto(r, "contact")
          /\ UNCHANGED result
       \/ /\ ~needs_update(r)
          /\ result' = [result EXCEPT ![r] = last_result]
          /\ Goto(r, "post")
    /\ UNCHANGED <<now, notices, pageVars, no_cache, cacheVars, wake>>

(* Scout answers (an error of the network is an answer too)... *)
Contact(r) ==
    /\ job[r] = "contact"
    /\ connected' = "yes"
    /\ result' = [result EXCEPT ![r] = 1]
    /\ Goto(r, "store_time")
    /\ UNCHANGED <<now, notices, pageVars, began, no_cache, last_update, last_result,
                   wake>>

(* ...or the Scout object cannot be made: only a DEBUG notice, and neither *)
(* _last_update nor _last_result changes.                                  *)
Unavailable(r) ==
    /\ job[r] = "contact"
    /\ connected = "no"
    /\ result' = [result EXCEPT ![r] = 0]
    /\ Goto(r, "post")
    /\ UNCHANGED <<now, notices, pageVars, began, no_cache, cacheVars, wake>>

StoreTime(r) ==
    /\ job[r] = "store_time"
    /\ last_update' = began[r]
    /\ Goto(r, "store_result")
    /\ UNCHANGED <<now, notices, pageVars, callVars, connected, last_result, wake>>

StoreResult(r) ==
    /\ job[r] = "store_result"
    /\ last_result' = result[r]
    /\ Goto(r, "post")
    /\ UNCHANGED <<now, notices, pageVars, callVars, connected, last_update, wake>>

(* check_scout returns or raises: its locals are gone. *)
Leave(r) ==
    /\ began' = [began EXCEPT ![r] = 0]
    /\ result' = [result EXCEPT ![r] = 0]
    /\ no_cache' = [no_cache EXCEPT ![r] = "no"]

(* The notices of the result are posted; the scout_checker sleeps for      *)
(* another day.                                                            *)
PostNotices(r) ==
    /\ job[r] = "post"
    /\ notices' = IF result[r] = 0 THEN notices
                                   ELSE Append(notices, Notice("scout", "report"))
    /\ Goto(r, "idle")
    /\ Leave(r)
    /\ wake' = IF r = "checker" THEN now + Day ELSE wake
    /\ UNCHANGED <<now, pageVars, cacheVars>>

(* An exception: run logs it, but nothing catches it in a PeriodicTrigger, *)
(* whose thread ends.                                                      *)
Raise(r) ==
    /\ job[r] \in {"report", "contact", "post"}
    /\ Goto(r, IF r = "watcher" THEN "idle" ELSE "dead")
    /\ Leave(r)
    /\ UNCHANGED <<now, notices, pageVars, cacheVars, wake>>

Tick ==
    /\ now < MaxTime
    /\ now' = now + 1
    /\ UNCHANGED <<notices, pageVars, job, callVars, cacheVars, wake>>

Next ==
    \/ \E p \in Pages : Show(p) \/ Prepend(p) \/ PostOwn(p) \/ Render(p)
    \/ TakeScout \/ AfterUpdate \/ AfterBadUpdate \/ Checkin
    \/ \E r \in Reporters : \/ Reset(r) \/ Report(r)
                            \/ Contact(r) \/ Unavailable(r)
                            \/ StoreTime(r) \/ StoreResult(r)
                            \/ PostNotices(r) \/ Raise(r)
    \/ Tick

Spec == Init /\ [][Next]_vars
-----------------------------------------------------------------------------
(* Whoever reads app.notices, at whatever point of whichever reporter's    *)
(* reset, finds the local notices in it, and once.                         *)
LocalAlwaysShown ==
    Cardinality({i \in 1 .. Len(notices) : notices[i].by = "local"}) = 1

(* The list does not grow with the number of pages shown: between two      *)
(* resets every reporter posts at most once, and of the pages only the one *)
(* that is answered last can come twice.                                   *)
NoticesBounded ==
    /\ Cardinality({i \in 1 .. Len(notices) : notices[i].by = "scout"}) <= 2
    /\ Cardinality({i \in 1 .. Len(notices) : notices[i].by \in Pages})
           <= 2 * (Cardinality(Pages) + 1)
=============================================================================
