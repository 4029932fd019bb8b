------------------------- MODULE EventWatcherProofs -------------------------
(***************************************************************************)
(* Proofs about diagd's event watcher, for any number of HTTP threads, of  *)
(* updates and of validation retries.                                      *)
(***************************************************************************)
EXTENDS EventWatcher, TLAPS

(* What an event put on the queue is. *)
LEMMA EventType ==
    ASSUME NEW cmd \in {"CONFIG", "CONFIG_FS", "SCOUT", "ESTATS"},
           NEW arg \in Nat, NEW t \in Threads
    PROVE  Event(cmd, arg, t) \in Events
BY DEF Event, Events

LEMMA NoEventType == NoEvent \in Events
BY DEF NoEvent, Event, Events, Threads

(* Variables a step leaves alone stay well typed. *)
LEMMA FrameType ==
    /\ PostTypeOK /\ UNCHANGED postVars => PostTypeOK'
    /\ RunTypeOK /\ UNCHANGED runVars => RunTypeOK'
    /\ OutTypeOK /\ UNCHANGED outVars => OutTypeOK'
    /\ LogTypeOK /\ UNCHANGED logVars => LogTypeOK'
<1>1. PostTypeOK /\ UNCHANGED postVars => PostTypeOK'
  BY DEF PostTypeOK, postVars
<1>2. RunTypeOK /\ UNCHANGED runVars => RunTypeOK'
  BY DEF RunTypeOK, runVars
<1>3. OutTypeOK /\ UNCHANGED outVars => OutTypeOK'
  BY DEF OutTypeOK, outVars
<1>4. LogTypeOK /\ UNCHANGED logVars => LogTypeOK'
  BY DEF LogTypeOK, logVars
<1>5. QED
  BY <1>1, <1>2, <1>3, <1>4

(* post keeps the queue and the threads well typed. *)
LEMMA PostType ==
    ASSUME PostTypeOK, NEW cmd \in {"CONFIG", "CONFIG_FS", "SCOUT", "ESTATS"},
           NEW arg \in Nat, NEW t \in Threads, Post(t, cmd, arg)
    PROVE  /\ events' \in Seq(Events)
           /\ rqueue' \in [Threads -> Seq({200, 500})]
           /\ thread' \in [Threads -> {"load", "idle", "scout", "waiting", "render"}]
<1>1. Event(cmd, arg, t) \in Events
  BY EventType
<1>2. events' \in Seq(Events)
  BY <1>1 DEF PostTypeOK, Post
<1>3. rqueue' \in [Threads -> Seq({200, 500})]
  BY DEF PostTypeOK, Post
<1>4. thread' \in [Threads -> {"load", "idle", "scout", "waiting", "render"}]
  BY DEF PostTypeOK, Post
<1>5. QED
  BY <1>2, <1>3, <1>4

(* A posting thread's step keeps the state well typed: it changes nothing  *)
(* but the queue, the response queues and the threads.                     *)
LEMMA ThreadType ==
    ASSUME TypeOK,
           Load \/ UpdateEstats \/ (\E w \in Workers : Worker(w))
               \/ (\E t \in Threads : Receive(t))
    PROVE  TypeOK'
<1>p. PostTypeOK /\ OutTypeOK
  BY DEF TypeOK
<1>a. \A w \in Workers : w \in Threads
  BY DEF Threads
<1>b. Boot \in Threads /\ Stats \in Threads
  BY DEF Threads
<1>c. app["ir"] \in Nat /\ app["diag"] \in Nat
  BY <1>p DEF OutTypeOK, Fields
<1>d. posted \in Nat /\ posted + 1 \in Nat
          /\ (posted < MaxUpdates => posted + 1 \in 0 .. MaxUpdates)
  BY <1>p, WatcherAssumption DEF PostTypeOK
<1>e. SUFFICES PostTypeOK' /\ UNCHANGED <<runVars, outVars, logVars>>
  BY <1>e, FrameType DEF TypeOK
<1>f. UNCHANGED <<runVars, outVars, logVars>>
  BY DEF Load, UpdateEstats, Worker, HandleUpdate, ShowPage, AppCheckScout, Render, Receive
<1>1. ASSUME Load PROVE PostTypeOK'
  <2>1. CASE FsConfig
    <3>1. Post(Boot, "CONFIG_FS", posted + 1) /\ posted' = posted + 1
              /\ posted < MaxUpdates /\ page' = page
      BY <1>1, <2>1 DEF Load
    <3>2. QED
      BY <3>1, <1>p, <1>b, <1>d, PostType DEF PostTypeOK
  <2>2. CASE ~FsConfig
    BY <1>1, <2>2, <1>p, <1>b DEF Load, PostTypeOK
  <2>3. QED
    BY <2>1, <2>2
<1>2. ASSUME UpdateEstats PROVE PostTypeOK'
  BY <1>2, <1>p, <1>b, PostType DEF UpdateEstats, PostTypeOK
<1>3. ASSUME NEW w \in Workers, HandleUpdate(w) PROVE PostTypeOK'
  BY <1>3, <1>p, <1>a, <1>d, PostType DEF HandleUpdate, PostTypeOK
<1>4. ASSUME NEW w \in Workers, ShowPage(w) PROVE PostTypeOK'
  BY <1>4, <1>p, <1>a, <1>c DEF ShowPage, PostTypeOK
<1>5. ASSUME NEW w \in Workers, AppCheckScout(w) PROVE PostTypeOK'
  <2>1. /\ events' \in Seq(Events)
        /\ rqueue' \in [Threads -> Seq({200, 500})]
        /\ thread' \in [Threads -> {"load", "idle", "scout", "waiting", "render"}]
    BY <1>5, <1>p, <1>a, <1>c, PostType DEF AppCheckScout
  <2>2. page' \in [Threads -> [diag : Nat, ir : Nat]] /\ posted' = posted
    BY <1>5, <1>p, <1>a, <1>c DEF AppCheckScout, PostTypeOK
  <2>3. QED
    BY <2>1, <2>2, <1>p DEF PostTypeOK
<1>6. ASSUME NEW w \in Workers, Render(w) PROVE PostTypeOK'
  BY <1>6, <1>p, <1>a DEF Render, PostTypeOK
<1>7. ASSUME NEW t \in Threads, Receive(t) PROVE PostTypeOK'
  <2>1. Tail(rqueue[t]) \in Seq({200, 500})
    BY <1>7, <1>p DEF Receive, PostTypeOK
  <2>2. rqueue' \in [Threads -> Seq({200, 500})]
    BY <1>7, <1>p, <2>1 DEF Receive, PostTypeOK
  <2>3. QED
    BY <1>7, <1>p, <2>2 DEF Receive, PostTypeOK
<1>8. QED
  BY <1>f, <1>1, <1>2, <1>3, <1>4, <1>5, <1>6, <1>7 DEF Worker

(* A step of the watcher or of ambex keeps the state well typed. *)
LEMMA WatcherType ==
    ASSUME TypeOK, Watcher \/ Ambex
    PROVE  TypeOK'
<1> USE FrameType DEF TypeOK, Goto, Finish, Steps
<1>a. events # <<>> => Head(events) \in Events /\ Tail(events) \in Seq(Events)
  BY DEF PostTypeOK
<1>b. cur.from \in Threads /\ cur.arg \in Nat
          /\ (events # <<>> => Head(events).from \in Threads)
  BY <1>a DEF Events, RunTypeOK
<1>c. ASSUME NEW t \in Threads, NEW x \in {200, 500}, Respond(t, x)
      PROVE  rqueue' \in [Threads -> Seq({200, 500})]
  <2>1. Append(rqueue[t], x) \in Seq({200, 500})
    BY DEF PostTypeOK
  <2>2. QED
    BY <1>c, <2>1 DEF Respond, PostTypeOK
<1>1. CASE GetConfig
  BY <1>1, <1>a DEF GetConfig, PostTypeOK, RunTypeOK
<1>2. CASE GetQuick
  <2>1. PostTypeOK'
    BY <1>2, <1>a, <1>b, <1>c DEF GetQuick, PostTypeOK
  <2>2. RunTypeOK'
    BY <1>2, <1>a DEF GetQuick, RunTypeOK
  <2>3. QED
    BY <1>2, <2>1, <2>2 DEF GetQuick
<1>3. CASE QuickWork \/ Fetch \/ Compile \/ RaiseLate
  BY <1>3, NoEventType DEF QuickWork, Fetch, Compile, RaiseLate, RunTypeOK
<1>4. CASE ValidateSkipped \/ ValidateReject \/ ValidateTimeout
  BY <1>4 DEF ValidateSkipped, ValidateReject, ValidateTimeout, RunTypeOK
<1>5. CASE ValidateAccept
  <2>1. LogTypeOK'
    BY <1>5, <1>b DEF ValidateAccept, LogTypeOK
  <2>2. RunTypeOK'
    BY <1>5 DEF ValidateAccept, RunTypeOK
  <2>3. QED
    BY <1>5, <2>1, <2>2 DEF ValidateAccept
<1>6. CASE Refuse
  <2>1. PostTypeOK'
    BY <1>6, <1>b, <1>c DEF Refuse, PostTypeOK
  <2>2. RunTypeOK'
    BY <1>6, NoEventType DEF Refuse, RunTypeOK
  <2>3. LogTypeOK'
    BY <1>6 DEF Refuse, LogTypeOK
  <2>4. QED
    BY <1>6, <2>1, <2>2, <2>3 DEF Refuse
<1>7. CASE Rotate \/ WriteBootstrap \/ OpenAds \/ WriteAds \/ Kick
  <2>1. OutTypeOK'
    BY <1>7, <1>b DEF Rotate, WriteBootstrap, OpenAds, WriteAds, Kick, OutTypeOK
  <2>2. RunTypeOK'
    BY <1>7 DEF Rotate, WriteBootstrap, OpenAds, WriteAds, Kick, RunTypeOK
  <2>3. QED
    BY <1>7, <2>1, <2>2 DEF Rotate, WriteBootstrap, OpenAds, WriteAds, Kick
<1>9. ASSUME NEW f \in {"aconf", "ir", "econf", "diag"}, Publish(f) PROVE TypeOK'
  <2>1. OutTypeOK'
    BY <1>9, <1>b DEF Publish, OutTypeOK
  <2>2. RunTypeOK'
    BY <1>9 DEF Publish, After, RunTypeOK
  <2>3. QED
    BY <1>9, <2>1, <2>2 DEF Publish
<1>11. CASE Accept
  <2>1. PostTypeOK'
    BY <1>11, <1>b, <1>c DEF Accept, PostTypeOK
  <2>2. RunTypeOK'
    BY <1>11 DEF Accept, RunTypeOK
  <2>3. LogTypeOK'
    BY <1>11 DEF Accept, LogTypeOK
  <2>4. QED
    BY <1>11, <2>1, <2>2, <2>3 DEF Accept
<1>12. ASSUME NEW good \in {"T", "F"}, Chime(good) PROVE TypeOK'
  <2>1. LogTypeOK'
    <3>1. Actions(setup.chimed, setup.ok, good) \in
              [action : {"none", "unhealthy", "now-healthy", "now-unhealthy",
                         "healthy", "update"}, no_cache : {"T", "F"}]
      BY DEF Actions, LogTypeOK
    <3>2. QED
      BY <1>12, <3>1 DEF Chime, LogTypeOK
  <2>2. RunTypeOK'
    BY <1>12, NoEventType DEF Chime, RunTypeOK
  <2>3. QED
    BY <1>12, <2>1, <2>2 DEF Chime
<1>13. CASE Raise
  <2>1. LogTypeOK'
    BY <1>13, <1>b DEF Raise, LogTypeOK
  <2>2. RunTypeOK'
    BY <1>13, NoEventType DEF Raise, RunTypeOK
  <2>3. QED
    BY <1>13, <2>1, <2>2 DEF Raise
<1>14. CASE Ambex
  <2>1. OutTypeOK'
    BY <1>14 DEF Ambex, OutTypeOK
  <2>2. QED
    BY <1>14, <2>1 DEF Ambex
<1>15. QED
  BY <1>1, <1>2, <1>3, <1>4, <1>5, <1>6, <1>7, <1>9, <1>11, <1>12,
     <1>13, <1>14 DEF Watcher

LEMMA TypeStep == TypeOK /\ [Next]_vars => TypeOK'
<1> SUFFICES ASSUME TypeOK, [Next]_vars PROVE TypeOK'
  OBVIOUS
<1>1. CASE UNCHANGED vars
  BY <1>1, FrameType DEF vars, TypeOK, postVars, runVars, outVars, logVars
<1>2. CASE Next
  BY <1>2, ThreadType, WatcherType DEF Next
<1>3. QED
  BY <1>1, <1>2

LEMMA InitType == Init => TypeOK
<1> SUFFICES ASSUME Init PROVE TypeOK
  OBVIOUS
<1>1. PostTypeOK
  BY WatcherAssumption DEF Init, PostTypeOK
<1>2. RunTypeOK /\ OutTypeOK
  BY NoEventType DEF Init, RunTypeOK, OutTypeOK, Steps
<1>3. LogTypeOK
  BY DEF Init, LogTypeOK
<1>4. QED
  BY <1>1, <1>2, <1>3 DEF TypeOK

(* Every reachable state of diagd is well typed. *)
THEOREM TypeCorrect == Spec => []TypeOK
BY InitType, TypeStep, PTL DEF Spec
-----------------------------------------------------------------------------
(* The facts about the types that the arithmetic below needs. *)
LEMMA Numbers ==
    ASSUME TypeOK
    PROVE  /\ posted \in Nat /\ MaxUpdates \in Nat /\ posted <= MaxUpdates
           /\ \A f \in Fields : app[f] \in Nat
           /\ cur.arg \in Nat /\ ads.update \in Nat /\ bootstrap \in Nat /\ envoy \in Nat
           /\ \A i \in 1 .. Len(events) : events[i] \in Events /\ events[i].arg \in Nat
           /\ Len(events) \in Nat
<1>1. posted \in Nat /\ MaxUpdates \in Nat /\ posted <= MaxUpdates
  BY WatcherAssumption DEF TypeOK, PostTypeOK
<1>2. \A f \in Fields : app[f] \in Nat
  BY DEF TypeOK, OutTypeOK
<1>3. cur.arg \in Nat /\ ads.update \in Nat /\ bootstrap \in Nat /\ envoy \in Nat
  BY DEF TypeOK, OutTypeOK, RunTypeOK, Events
<1>4. \A i \in 1 .. Len(events) : events[i] \in Events
  BY DEF TypeOK, PostTypeOK
<1>5. Len(events) \in Nat
  BY DEF TypeOK, PostTypeOK
<1>6. QED
  BY <1>1, <1>2, <1>3, <1>4, <1>5 DEF Events

(* The part of the invariant that follows the queue survives a post: the   *)
(* number of a new update is higher than any other.                        *)
LEMMA PostKeepsOrder ==
    ASSUME PublishInv, TypeOK', NEW e \in Events,
           events' = Append(events, e),
           IsConfig(e) => e.arg = posted + 1 /\ posted' = posted + 1,
           ~IsConfig(e) => posted' = posted,
           UNCHANGED <<runVars, outVars, logVars>>
    PROVE  PublishInv'
<1> USE DEF PublishInv
<1>a. UNCHANGED <<step, cur, app, bootstrap, ads, envoy, answer>>
  BY DEF runVars, outVars, logVars
<1>b. posted' \in Nat /\ posted \in Nat /\ posted' >= posted /\ posted' <= MaxUpdates
  BY Numbers DEF TypeOK, PostTypeOK
<1>1. LoadInProgress'
  BY <1>a, <1>b, Numbers DEF LoadInProgress, Unanswered
<1>2. PublishOrder' /\ EnvoyBehindFile' /\ AnswersAreTrue'
  BY <1>a DEF PublishOrder, EnvoyBehindFile, AnswersAreTrue
<1>3. QueueInOrder'
  <2>1. events \in Seq(Events)
    BY DEF TypeOK, PostTypeOK
  <2>2. Len(events') = Len(events) + 1 /\ Len(events) \in Nat
          /\ events'[Len(events) + 1] = e
          /\ \A i \in 1 .. Len(events) : events'[i] = events[i]
    BY <2>1
  <2>3. IsConfig(e) => e.arg = posted + 1 /\ e.arg \in Updates /\ answer[e.arg] = 0
    BY <1>b, WatcherAssumption DEF QueueInOrder, Updates
  <2>4. app["latest"] \in Nat /\ app["latest"] <= posted
    BY Numbers DEF QueueInOrder, Fields
  <2>5. Unanswered => cur.arg \in Nat /\ cur.arg <= posted
    BY Numbers DEF LoadInProgress
  <2>6. ASSUME NEW i \in 1 .. Len(events'), IsConfig(events'[i])
        PROVE  /\ events'[i].arg \in 1 .. posted'
               /\ answer'[events'[i].arg] = 0
               /\ app'["latest"] < events'[i].arg
               /\ Unanswered' => cur'.arg < events'[i].arg
    <3>1. CASE i \in 1 .. Len(events)
      BY <3>1, <2>6, <2>2, <1>a, <1>b, Numbers DEF QueueInOrder, Unanswered
    <3>2. CASE i = Len(events) + 1
      BY <3>2, <2>6, <2>2, <2>3, <2>4, <2>5, <1>a, <1>b DEF Unanswered
    <3>3. QED
      BY <3>1, <3>2, <2>2
  <2>7. ASSUME NEW i \in 1 .. Len(events'), NEW j \in 1 .. Len(events'),
               i < j, IsConfig(events'[i]), IsConfig(events'[j])
        PROVE  events'[i].arg < events'[j].arg
    <3>1. i \in 1 .. Len(events)
      BY <2>7, <2>2
    <3>2. CASE j \in 1 .. Len(events)
      BY <3>1, <3>2, <2>7, <2>2 DEF QueueInOrder
    <3>3. CASE j = Len(events) + 1
      BY <3>1, <3>3, <2>7, <2>2, <2>3, <1>b, Numbers DEF QueueInOrder
    <3>4. QED
      BY <3>2, <3>3, <2>2
  <2>8. \A u \in Updates : u > posted' => answer'[u] = 0
    BY <1>a, <1>b DEF QueueInOrder, Updates
  <2>9. app'["latest"] <= posted'
    BY <2>4, <1>a, <1>b
  <2>10. QED
    BY <2>6, <2>7, <2>8, <2>9 DEF QueueInOrder
<1>4. QED
  BY <1>1, <1>2, <1>3

(* Steps of the posting threads. *)
LEMMA ThreadKeepsOrder ==
    ASSUME PublishInv, TypeOK',
           Load \/ UpdateEstats \/ (\E w \in Workers : Worker(w))
               \/ (\E t \in Threads : Receive(t))
    PROVE  PublishInv'
<1>a. UNCHANGED <<runVars, outVars, logVars>>
  BY DEF Load, UpdateEstats, Worker, HandleUpdate, ShowPage, AppCheckScout, Render, Receive
<1>b. app["ir"] \in Nat /\ posted + 1 \in Nat
  BY Numbers DEF PublishInv, Fields
<1>c. Workers \subseteq Threads /\ Boot \in Threads /\ Stats \in Threads
  BY DEF Threads
<1>1. ASSUME UNCHANGED <<events, posted>> PROVE PublishInv'
  <2>1. UNCHANGED <<step, cur, app, bootstrap, ads, envoy, answer>>
    BY <1>a DEF runVars, outVars, logVars
  <2>2. QED
    BY <1>1, <2>1 DEF PublishInv, QueueInOrder, LoadInProgress, Unanswered,
                      PublishOrder, EnvoyBehindFile, AnswersAreTrue
<1>2. ASSUME NEW t \in Threads, NEW cmd \in {"CONFIG", "CONFIG_FS"},
             Post(t, cmd, posted + 1), posted' = posted + 1
      PROVE  PublishInv'
  <2>1. Event(cmd, posted + 1, t) \in Events
    BY <1>b, EventType
  <2>2. IsConfig(Event(cmd, posted + 1, t)) /\ Event(cmd, posted + 1, t).arg = posted + 1
    BY DEF IsConfig, Event
  <2>3. QED
    BY <1>2, <1>a, <2>1, <2>2, PostKeepsOrder DEF Post
<1>3. ASSUME NEW t \in Threads, NEW cmd \in {"SCOUT", "ESTATS"}, NEW arg \in Nat,
             Post(t, cmd, arg), posted' = posted
      PROVE  PublishInv'
  <2>1. Event(cmd, arg, t) \in Events
    BY EventType
  <2>2. ~IsConfig(Event(cmd, arg, t))
    BY DEF IsConfig, Event
  <2>3. QED
    BY <1>3, <1>a, <2>1, <2>2, PostKeepsOrder DEF Post
<1>4. CASE Load
  BY <1>4, <1>1, <1>2, <1>c DEF Load
<1>5. CASE UpdateEstats
  BY <1>5, <1>3, <1>c DEF UpdateEstats
<1>6. ASSUME NEW w \in Workers, Worker(w) PROVE PublishInv'
  <2>1. CASE HandleUpdate(w)
    BY <2>1, <1>2, <1>c DEF HandleUpdate
  <2>2. CASE AppCheckScout(w)
    BY <2>2, <1>3, <1>b, <1>c DEF AppCheckScout
  <2>3. CASE ShowPage(w) \/ Render(w)
    BY <2>3, <1>1 DEF ShowPage, Render
  <2>4. QED
    BY <1>6, <2>1, <2>2, <2>3 DEF Worker
<1>7. ASSUME NEW t \in Threads, Receive(t) PROVE PublishInv'
  BY <1>7, <1>1 DEF Receive
<1>8. QED
  BY <1>4, <1>5, <1>6, <1>7

(* Handling an event begins by taking it off the queue. *)
LEMMA GetKeepsOrder ==
    ASSUME PublishInv, TypeOK', GetConfig \/ GetQuick
    PROVE  PublishInv'
<1> USE DEF PublishInv
<1>a. events \in Seq(Events) /\ events # <<>>
  BY DEF TypeOK, PostTypeOK, GetConfig, GetQuick
<1>b. /\ Len(events) \in Nat /\ Len(events) >= 1
      /\ Len(events') = Len(events) - 1
      /\ \A i \in 1 .. Len(events') : events'[i] = events[i + 1]
      /\ Head(events) = events[1]
  BY <1>a DEF GetConfig, GetQuick
<1>c. UNCHANGED <<app, bootstrap, ads, envoy, answer, posted>> /\ step = "get"
  BY DEF GetConfig, GetQuick, outVars, logVars
<1>1. PublishOrder' /\ EnvoyBehindFile' /\ AnswersAreTrue'
  BY <1>c DEF PublishOrder, EnvoyBehindFile, AnswersAreTrue
<1>2. Unanswered' => IsConfig(events[1]) /\ cur' = events[1] /\ step' = "fetch"
  BY <1>b DEF GetConfig, GetQuick, IsConfig, Unanswered, Goto
<1>3. LoadInProgress'
  BY <1>2, <1>b, <1>c DEF LoadInProgress, QueueInOrder
<1>4. QueueInOrder'
  <2>1. ASSUME NEW i \in 1 .. Len(events'), IsConfig(events'[i])
        PROVE  /\ events'[i].arg \in 1 .. posted
               /\ answer[events'[i].arg] = 0
               /\ app["latest"] < events'[i].arg
               /\ Unanswered' => cur'.arg < events'[i].arg
    <3>1. i + 1 \in 1 .. Len(events) /\ events'[i] = events[i + 1]
          /\ 1 \in 1 .. Len(events) /\ 1 < i + 1
      BY <1>b
    <3>2. Unanswered' => events[1].arg < events[i + 1].arg
      BY <1>2, <2>1, <3>1 DEF QueueInOrder
    <3>3. QED
      BY <3>1, <3>2, <2>1, <1>2 DEF QueueInOrder
  <2>2. ASSUME NEW i \in 1 .. Len(events'), NEW j \in 1 .. Len(events'),
               i < j, IsConfig(events'[i]), IsConfig(events'[j])
        PROVE  events'[i].arg < events'[j].arg
    <3>1. i + 1 \in 1 .. Len(events) /\ j + 1 \in 1 .. Len(events) /\ i + 1 < j + 1
      BY <2>2, <1>b
    <3>2. QED
      BY <2>2, <3>1, <1>b DEF QueueInOrder
  <2>3. QED
    BY <2>1, <2>2, <1>c DEF QueueInOrder
<1>5. QED
  BY <1>1, <1>3, <1>4

(* Steps that touch neither the queue nor anything published. *)
LEMMA InternalKeepsOrder ==
    ASSUME PublishInv, TypeOK',
           \/ Fetch \/ Compile \/ ValidateSkipped \/ ValidateAccept
           \/ ValidateReject \/ ValidateTimeout \/ Kick \/ QuickWork
           \/ Raise \/ RaiseLate
           \/ \E good \in {"T", "F"} : Chime(good)
    PROVE  PublishInv'
<1> USE DEF PublishInv
<1>a. UNCHANGED <<events, posted, app, bootstrap, ads, envoy, answer>>
  BY DEF Fetch, Compile, ValidateSkipped, ValidateAccept, ValidateReject,
         ValidateTimeout, Kick, QuickWork, Raise, RaiseLate, Chime, postVars,
         outVars, logVars
<1>1. PublishOrder' /\ EnvoyBehindFile' /\ AnswersAreTrue'
  BY <1>a DEF PublishOrder, EnvoyBehindFile, AnswersAreTrue
<1>2. \/ ~Unanswered'
      \/ /\ cur' = cur /\ Unanswered
         /\ \/ /\ step \in {"fetch", "compile", "validate"}
               /\ step' \in {"compile", "validate", "refuse", "rotate"}
            \/ step = "kick" /\ step' = "accept"
  BY DEF Fetch, Compile, ValidateSkipped, ValidateAccept, ValidateReject,
         ValidateTimeout, CanValidate, Kick, QuickWork, Raise, RaiseLate, Chime,
         Unanswered, Steps, Goto, Finish
<1>3. LoadInProgress'
  BY <1>a, <1>2 DEF LoadInProgress
<1>4. QueueInOrder'
  BY <1>a, <1>2 DEF QueueInOrder
<1>5. QED
  BY <1>1, <1>3, <1>4

(* Steps that publish one stage of the load in progress. *)
LEMMA PublishKeepsOrder ==
    ASSUME PublishInv, TypeOK',
           \/ Rotate \/ WriteBootstrap \/ OpenAds \/ WriteAds
           \/ \E f \in {"aconf", "ir", "econf", "diag"} : Publish(f)
    PROVE  PublishInv'
<1> USE DEF PublishInv, Goto
<1>a. UNCHANGED <<events, posted, envoy, answer, cur>> /\ Unanswered /\ Unanswered'
  BY DEF Rotate, WriteBootstrap, OpenAds, WriteAds, Publish, After, Unanswered,
         Steps, postVars, logVars
<1>b. /\ cur.arg \in Nat /\ bootstrap \in Nat /\ ads.update \in Nat /\ envoy \in Nat
      /\ app["latest"] \in Nat /\ app["aconf"] \in Nat /\ app["ir"] \in Nat
      /\ app["econf"] \in Nat /\ app["diag"] \in Nat
      /\ posted \in Nat
  BY Numbers DEF Fields
<1>c. app \in [Fields -> Nat]
  BY DEF TypeOK, OutTypeOK
<1>d. cur.arg \in 1 .. posted /\ answer[cur.arg] = 0 /\ cur.arg \in Updates
  BY <1>a, Numbers DEF LoadInProgress, Updates
<1>1. PublishOrder' /\ LoadInProgress'
  <2>1. CASE Rotate
    BY <2>1, <1>a, <1>b, <1>c, <1>d DEF Rotate, PublishOrder, LoadInProgress, Fields
  <2>2. CASE WriteBootstrap
    BY <2>2, <1>a, <1>b, <1>c, <1>d DEF WriteBootstrap, PublishOrder, LoadInProgress, Fields
  <2>3. CASE OpenAds
    BY <2>3, <1>a, <1>b, <1>c, <1>d DEF OpenAds, PublishOrder, LoadInProgress, Fields
  <2>4. CASE WriteAds
    BY <2>4, <1>a, <1>b, <1>c, <1>d DEF WriteAds, PublishOrder, LoadInProgress, Fields
  <2>5. ASSUME NEW f \in {"aconf", "ir", "econf", "diag"}, Publish(f)
        PROVE  PublishOrder' /\ LoadInProgress'
    BY <2>5, <1>a, <1>b, <1>c, <1>d DEF Publish, After, PublishOrder, LoadInProgress, Fields
  <2>6. QED
    BY <2>1, <2>2, <2>3, <2>4, <2>5
<1>2. EnvoyBehindFile'
  BY <1>a, <1>b, <1>d DEF EnvoyBehindFile, LoadInProgress, PublishOrder, Rotate,
     WriteBootstrap, OpenAds, WriteAds, Publish
<1>3. QueueInOrder'
  <2>1. app'["latest"] = app["latest"] \/ app'["latest"] = cur.arg
    BY <1>c DEF Rotate, WriteBootstrap, OpenAds, WriteAds, Publish, Fields
  <2>2. app'["latest"] \in Nat /\ app'["latest"] <= posted
    BY <2>1, <1>b, <1>d DEF QueueInOrder
  <2>3. ASSUME NEW i \in 1 .. Len(events), IsConfig(events[i])
        PROVE  app'["latest"] < events[i].arg
    BY <2>1, <2>3, <1>a DEF QueueInOrder
  <2>4. QED
    BY <2>2, <2>3, <1>a DEF QueueInOrder
<1>4. AnswersAreTrue'
  <2>1. /\ app'["diag"] \in {app["diag"], cur.arg}
        /\ app'["latest"] \in {app["latest"], cur.arg}
        /\ ads'.update \in {ads.update, cur.arg}
        /\ app'["diag"] >= app["diag"]
    BY <1>a, <1>b, <1>c DEF Rotate, WriteBootstrap, OpenAds, WriteAds, Publish,
       Fields, LoadInProgress, PublishOrder
  <2>2. ASSUME NEW u \in Updates
        PROVE  /\ answer'[u] = 200 => u <= app'["diag"]
               /\ answer'[u] = 500 => u \notin {app'["diag"], app'["latest"],
                                                ads'.update, envoy'}
    <3>1. u \in Nat /\ app'["diag"] \in Nat
      BY <2>1, <1>b, Numbers DEF Updates
    <3>2. u = cur.arg => answer'[u] = 0
      BY <1>a, <1>d
    <3>3. QED
      BY <2>1, <3>1, <3>2, <1>a, <1>b DEF AnswersAreTrue
  <2>3. QED
    BY <2>2 DEF AnswersAreTrue
<1>5. QED
  BY <1>1, <1>2, <1>3, <1>4

(* The answer to the load in progress. *)
LEMMA AnswerKeepsOrder ==
    ASSUME PublishInv, TypeOK', Refuse \/ Accept
    PROVE  PublishInv'
<1> USE DEF PublishInv, Goto, Finish
<1>a. UNCHANGED <<events, posted, app, bootstrap, ads, envoy>> /\ Unanswered /\ ~Unanswered'
  BY DEF Refuse, Accept, Unanswered, Steps, outVars
<1>b. /\ cur.arg \in 1 .. posted /\ posted \in Nat /\ posted <= MaxUpdates
      /\ ads.update \in Nat /\ bootstrap \in Nat /\ envoy \in Nat
      /\ app["latest"] \in Nat /\ app["diag"] \in Nat /\ app["econf"] \in Nat
      /\ app["ir"] \in Nat /\ app["aconf"] \in Nat
  BY <1>a, Numbers DEF LoadInProgress, Fields
<1>c. answer \in [Updates -> {0, 200, 500}] /\ cur.arg \in Updates /\ MaxUpdates \in Nat
  BY <1>b, Numbers DEF TypeOK, LogTypeOK, Updates
<1>d. \A u \in Updates : u # cur.arg => answer'[u] = answer[u]
  BY <1>c DEF Refuse, Accept
<1>1. PublishOrder' /\ EnvoyBehindFile'
  BY <1>a DEF PublishOrder, EnvoyBehindFile
<1>2. LoadInProgress'
  BY <1>a DEF LoadInProgress
<1>3. QueueInOrder'
  <2>1. ASSUME NEW i \in 1 .. Len(events), IsConfig(events[i])
        PROVE  answer'[events[i].arg] = 0
    <3>1. /\ events[i].arg \in 1 .. posted /\ answer[events[i].arg] = 0
          /\ cur.arg < events[i].arg
      BY <2>1, <1>a DEF QueueInOrder
    <3>2. events[i].arg \in Updates /\ events[i].arg # cur.arg
      BY <3>1, <1>b, <1>c DEF Updates
    <3>3. QED
      BY <3>1, <3>2, <1>d
  <2>2. \A u \in Updates : u > posted => answer'[u] = 0
    BY <1>b, <1>d DEF QueueInOrder, Updates
  <2>3. QED
    BY <1>a, <2>1, <2>2 DEF QueueInOrder
<1>4. AnswersAreTrue'
  <2>1. CASE Accept
    <3>1. app["diag"] = cur.arg /\ answer'[cur.arg] = 200
      BY <2>1, <1>a, <1>c DEF Accept, LoadInProgress
    <3>2. QED
      BY <3>1, <1>a, <1>b, <1>d DEF AnswersAreTrue
  <2>2. CASE Refuse
    <3>1. app["latest"] < cur.arg /\ answer'[cur.arg] = 500
      BY <2>2, <1>a, <1>c DEF Refuse, LoadInProgress
    <3>2. cur.arg \notin {app["diag"], app["latest"], ads.update, envoy}
      BY <3>1, <1>b DEF PublishOrder, EnvoyBehindFile
    <3>3. QED
      BY <3>1, <3>2, <1>a, <1>d DEF AnswersAreTrue
  <2>3. QED
    BY <2>1, <2>2
<1>5. QED
  BY <1>1, <1>2, <1>3, <1>4

(* ambex hands Envoy what is in the file. *)
LEMMA AmbexKeepsOrder ==
    ASSUME PublishInv, TypeOK', Ambex
    PROVE  PublishInv'
<1> USE DEF PublishInv
<1>a. UNCHANGED <<events, posted, step, cur, app, bootstrap, ads, answer>>
  BY DEF Ambex, postVars, runVars, logVars
<1>b. envoy' = envoy \/ envoy' = ads.update
  BY DEF Ambex
<1>1. QueueInOrder' /\ LoadInProgress' /\ PublishOrder'
  BY <1>a DEF QueueInOrder, LoadInProgress, PublishOrder, Unanswered
<1>2. EnvoyBehindFile' /\ AnswersAreTrue'
  BY <1>a, <1>b, Numbers DEF EnvoyBehindFile, AnswersAreTrue
<1>3. QED
  BY <1>1, <1>2

LEMMA PublishStep == PublishInv /\ [Next]_vars => PublishInv'
<1> SUFFICES ASSUME PublishInv, [Next]_vars PROVE PublishInv'
  OBVIOUS
<1>t. TypeOK'
  BY TypeStep DEF PublishInv
<1>1. CASE UNCHANGED vars
  BY <1>1, <1>t DEF vars, PublishInv, QueueInOrder, LoadInProgress, Unanswered,
     PublishOrder, EnvoyBehindFile, AnswersAreTrue
<1>2. CASE Watcher
  BY <1>2, <1>t, GetKeepsOrder, InternalKeepsOrder, PublishKeepsOrder,
     AnswerKeepsOrder DEF Watcher
<1>3. CASE Ambex
  BY <1>3, <1>t, AmbexKeepsOrder
<1>4. QED
  BY <1>1, <1>2, <1>3, <1>t, ThreadKeepsOrder DEF Next

LEMMA PublishInit == Init => PublishInv
<1> SUFFICES ASSUME Init PROVE PublishInv
  OBVIOUS
<1>1. TypeOK
  BY InitType
<1>2. QueueInOrder /\ LoadInProgress
  BY WatcherAssumption DEF Init, QueueInOrder, LoadInProgress, Unanswered, Fields, Updates
<1>3. PublishOrder /\ EnvoyBehindFile /\ AnswersAreTrue
  BY DEF Init, PublishOrder, EnvoyBehindFile, AnswersAreTrue, Fields, Updates
<1>4. QED
  BY <1>1, <1>2, <1>3 DEF PublishInv

LEMMA PublishInvariant == Spec => []PublishInv
BY PublishInit, PublishStep, PTL DEF Spec

(* Whatever the number of threads and updates, and wherever loads fail: no *)
(* reader of app ever finds a later stage of a load ahead of an earlier.   *)
THEOREM PublishOrderAlways == Spec => []PublishOrder
<1>1. PublishInv => PublishOrder
  BY DEF PublishInv
<1>2. QED
  BY <1>1, PublishInvariant, PTL

(* A 200 or a 500 answered by _load_ir is never contradicted by what diagd *)
(* shows, what is in its files or what Envoy runs, then or later.          *)
THEOREM AnswersAlwaysTrue == Spec => []AnswersAreTrue
<1>1. PublishInv => AnswersAreTrue
  BY DEF PublishInv
<1>2. QED
  BY <1>1, PublishInvariant, PTL

(* Envoy is never moved back to an older update: ambex hands on the file,  *)
(* and the file never gets an older update than Envoy has.                 *)
THEOREM EnvoyNeverBack == Spec => EnvoyMovesForward
<1>1. PublishInv /\ [Next]_vars => [envoy' >= envoy]_envoy
  <2> SUFFICES ASSUME PublishInv, Next, envoy' # envoy PROVE envoy' >= envoy
    BY DEF vars
  <2>1. Ambex
    <3>1. Load \/ UpdateEstats \/ (\E w \in Workers : Worker(w))
              \/ (\E t \in Threads : Receive(t)) => UNCHANGED envoy
      BY DEF Load, UpdateEstats, Worker, HandleUpdate, ShowPage, AppCheckScout,
             Render, Receive, outVars
    <3>2. Watcher => UNCHANGED envoy
      BY DEF Watcher, GetConfig, GetQuick, QuickWork, Fetch, Compile, ValidateSkipped,
             ValidateAccept, ValidateReject, ValidateTimeout, Refuse, Rotate,
             WriteBootstrap, OpenAds, WriteAds, Publish, Kick, Accept, Chime, Raise,
             RaiseLate, outVars
    <3>3. QED
      BY <3>1, <3>2 DEF Next
  <2>2. QED
    BY <2>1, Numbers DEF Ambex, PublishInv, EnvoyBehindFile
<1>2. QED
  BY <1>1, PublishInvariant, PTL DEF Spec, EnvoyMovesForward
-----------------------------------------------------------------------------
(* No statement changes the options diagd was started with. *)
LEMMA SetupFixed == ASSUME [Next]_vars PROVE setup' = setup /\ NoEnvoy' = NoEnvoy
<1>1. setup' = setup
  <2>1. CASE Watcher
    BY <2>1 DEF Watcher, GetConfig, GetQuick, QuickWork, Fetch, Compile, ValidateSkipped,
       ValidateAccept, ValidateReject, ValidateTimeout, Refuse, Rotate, WriteBootstrap,
       OpenAds, WriteAds, Publish, Kick, Accept, Chime, Raise, RaiseLate, logVars
  <2>2. CASE UNCHANGED vars \/ Ambex \/ Load \/ UpdateEstats
    BY <2>2 DEF vars, Ambex, Load, UpdateEstats, logVars
  <2>3. CASE (\E w \in Workers : Worker(w)) \/ (\E t \in Threads : Receive(t))
    BY <2>3 DEF Worker, HandleUpdate, ShowPage, AppCheckScout, Render, Receive, logVars
  <2> QED BY <2>1, <2>2, <2>3 DEF Next
<1> QED BY <1>1 DEF NoEnvoy

LEMMA ValidationStep ==
    ASSUME ValidationRetries > 0
    PROVE  ValidationInv /\ [Next]_vars => ValidationInv'
<1> SUFFICES ASSUME ValidationInv, [Next]_vars PROVE ValidationInv'
  OBVIOUS
<1> USE DEF ValidationInv
<1>t. TypeOK' /\ TypeOK
  BY TypeStep
<1>r. ValidationRetries # 0
  BY WatcherAssumption
<1>s. NoEnvoy' = NoEnvoy
  BY SetupFixed
<1>n. CASE NoEnvoy
  BY <1>n, <1>s, <1>t DEF DeployedWasValidated
<1>e. CASE ~NoEnvoy
  <2>a. app \in [Fields -> Nat]
    BY <1>t DEF TypeOK, OutTypeOK
  <2>1. ASSUME UNCHANGED <<app, bootstrap, ads, envoy, passed>>,
               \/ UNCHANGED <<step, cur>>
               \/ step' \in {"get", "quick", "fetch", "compile", "validate", "refuse",
                            "accept", "chime"}
        PROVE  ValidationInv'
    BY <2>1, <1>s, <1>t DEF DeployedWasValidated
  <2>2. CASE UNCHANGED vars
    BY <2>2, <2>1 DEF vars
  <2>3. CASE Load \/ UpdateEstats \/ (\E w \in Workers : Worker(w))
                 \/ (\E t \in Threads : Receive(t))
    BY <2>3, <2>1 DEF Load, UpdateEstats, Worker, HandleUpdate, ShowPage, AppCheckScout,
       Render, Receive, runVars, outVars, logVars
  <2>4. CASE GetConfig \/ GetQuick \/ QuickWork \/ Fetch \/ Compile \/ ValidateSkipped
             \/ ValidateReject \/ ValidateTimeout
    BY <2>4, <2>1, <1>e, <1>r DEF GetConfig, GetQuick, QuickWork, Fetch, Compile,
       ValidateSkipped, ValidateReject, ValidateTimeout, Goto, Finish, outVars, logVars
  <2>5. CASE Refuse \/ Accept \/ Kick \/ Raise \/ RaiseLate
             \/ (\E good \in {"T", "F"} : Chime(good))
    BY <2>5, <2>1 DEF Refuse, Accept, Kick, Raise, RaiseLate, Chime, Goto, Finish,
       outVars, logVars
  <2>6. CASE ValidateAccept
    <3>1. UNCHANGED <<app, bootstrap, ads, envoy, cur>> /\ passed' = passed \cup {cur.arg}
      BY <2>6 DEF ValidateAccept, outVars
    <3>2. QED
      BY <1>s, <3>1, <1>t, <1>e DEF DeployedWasValidated
  <2>7. CASE \/ Rotate \/ WriteBootstrap \/ OpenAds \/ WriteAds
             \/ \E f \in {"aconf", "ir", "econf", "diag"} : Publish(f)
    <3>1. cur.arg \in passed /\ UNCHANGED <<passed, cur, envoy>>
      BY <2>7, <1>e DEF Rotate, WriteBootstrap, OpenAds, WriteAds, Publish, logVars
    <3>2. /\ \A f \in Fields : app'[f] \in {app[f], cur.arg}
          /\ ads'.update \in {ads.update, cur.arg}
          /\ bootstrap' \in {bootstrap, cur.arg}
      BY <2>7, <2>a DEF Rotate, WriteBootstrap, OpenAds, WriteAds, Publish
    <3>3. QED
      BY <1>s, <3>1, <3>2, <1>t, <1>e DEF DeployedWasValidated, Fields
  <2>8. CASE Ambex
    <3>1. UNCHANGED <<app, bootstrap, ads, passed, step, cur>> /\ envoy' \in {envoy, ads.update}
      BY <2>8 DEF Ambex, runVars, logVars
    <3>2. QED
      BY <1>s, <3>1, <1>t, <1>e DEF DeployedWasValidated
  <2>9. QED
    BY <2>2, <2>3, <2>4, <2>5, <2>6, <2>7, <2>8 DEF Next, Watcher
<1>3. QED
  BY <1>n, <1>e

(* As long as validation is tried at least once, no configuration that     *)
(* `envoy --mode validate' did not accept is written, shown or run.        *)
THEOREM OnlyValidatedDeployed ==
    ValidationRetries > 0 => (Spec => []DeployedWasValidated)
<1> SUFFICES ASSUME ValidationRetries > 0 PROVE Spec => []DeployedWasValidated
  OBVIOUS
<1>1. Init => ValidationInv
  <2>1. Init => TypeOK
    BY InitType
  <2>2. Init => DeployedWasValidated /\ step = "get"
    BY DEF Init, DeployedWasValidated, Fields
  <2>3. QED
    BY <2>1, <2>2 DEF ValidationInv
<1>2. ValidationInv /\ [Next]_vars => ValidationInv'
  BY ValidationStep
<1>3. ValidationInv => DeployedWasValidated
  BY DEF ValidationInv
<1>4. QED
  BY <1>1, <1>2, <1>3, PTL DEF Spec
-----------------------------------------------------------------------------
(* OneEventPerThread is inductive on its own, given the types. *)

LEMMA Senders ==
    ASSUME TypeOK
    PROVE  /\ \A i \in 1 .. Len(events) : events[i].from \in Threads
           /\ cur.from \in Threads
<1>1. \A i \in 1 .. Len(events) : events[i] \in Events
  BY Numbers
<1>2. cur \in Events
  BY DEF TypeOK, RunTypeOK
<1>3. QED
  BY <1>1, <1>2 DEF Events

LEMMA PostKeepsOne ==
    ASSUME TypeOK, OneEventPerThread, NEW t \in Threads, NEW cmd, NEW arg,
           thread[t] # "waiting", Post(t, cmd, arg), UNCHANGED runVars
    PROVE  OneEventPerThread'
<1> DEFINE e == Event(cmd, arg, t)
<1>a. events \in Seq(Events) /\ Len(events) \in Nat
  BY DEF TypeOK, PostTypeOK
<1>b. /\ Len(events') = Len(events) + 1
      /\ events'[Len(events) + 1] = e
      /\ \A i \in 1 .. Len(events) : events'[i] = events[i]
  BY <1>a DEF Post
<1>c. e.from = t
  BY DEF Event
<1>d. /\ rqueue \in [Threads -> Seq({200, 500})] /\ thread'[t] = "waiting"
      /\ rqueue'[t] = <<>>
      /\ \A s \in Threads : s # t => rqueue'[s] = rqueue[s] /\ thread'[s] = thread[s]
  BY DEF TypeOK, PostTypeOK, Post
<1>f. /\ \A i \in 1 .. Len(events) : events[i].from \in Threads
      /\ cur.from \in Threads
  BY Senders
<1>g. /\ \A i \in 1 .. Len(events) : events[i].from # t
      /\ Unanswered => cur.from # t
  BY DEF OneEventPerThread
<1>h. UNCHANGED <<step, cur>>
  BY DEF runVars
<1> HIDE DEF e
<1>1. ASSUME NEW i \in 1 .. Len(events'), NEW j \in 1 .. Len(events'), i # j
      PROVE  events'[i].from # events'[j].from
  <2>1. i \in 1 .. Len(events) \/ i = Len(events) + 1
    BY <1>a, <1>b
  <2>2. j \in 1 .. Len(events) \/ j = Len(events) + 1
    BY <1>a, <1>b
  <2>3. QED
    BY <1>1, <2>1, <2>2, <1>b, <1>c, <1>g DEF OneEventPerThread
<1>2. ASSUME NEW i \in 1 .. Len(events')
      PROVE  /\ thread'[events'[i].from] = "waiting"
             /\ rqueue'[events'[i].from] = <<>>
             /\ Unanswered' => events'[i].from # cur'.from
  <2>1. CASE i \in 1 .. Len(events)
    BY <2>1, <1>b, <1>d, <1>f, <1>g, <1>h DEF OneEventPerThread, Unanswered
  <2>2. CASE i = Len(events) + 1
    BY <2>2, <1>b, <1>c, <1>d, <1>g, <1>h DEF Unanswered
  <2>3. QED
    BY <2>1, <2>2, <1>a, <1>b
<1>3. Unanswered' => thread'[cur'.from] = "waiting" /\ rqueue'[cur'.from] = <<>>
  BY <1>d, <1>f, <1>g, <1>h DEF OneEventPerThread, Unanswered
<1>4. \A s \in Threads : Len(rqueue'[s]) <= 1
  BY <1>d DEF OneEventPerThread
<1>5. QED
  BY <1>1, <1>2, <1>3, <1>4 DEF OneEventPerThread

(* A thread without an event may do what it likes with its own state. *)
LEMMA OwnStepKeepsOne ==
    ASSUME TypeOK, OneEventPerThread, NEW t \in Threads,
           thread[t] # "waiting" \/ rqueue[t] # <<>>,
           UNCHANGED <<events, runVars>>,
           \A s \in Threads : s # t => rqueue'[s] = rqueue[s] /\ thread'[s] = thread[s],
           Len(rqueue'[t]) <= 1
    PROVE  OneEventPerThread'
<1>f. /\ \A i \in 1 .. Len(events) : events[i].from \in Threads
      /\ cur.from \in Threads
  BY Senders
<1>g. /\ \A i \in 1 .. Len(events) : events[i].from # t
      /\ Unanswered => cur.from # t
  BY DEF OneEventPerThread
<1>1. QED
  BY <1>f, <1>g DEF OneEventPerThread, Unanswered, runVars

(* Taking an event off the queue, answered at once or not. *)
LEMMA GetKeepsOne ==
    ASSUME TypeOK, OneEventPerThread, GetConfig \/ GetQuick
    PROVE  OneEventPerThread'
<1>a. events \in Seq(Events) /\ events # <<>> /\ Len(events) \in Nat
  BY DEF TypeOK, PostTypeOK, GetConfig, GetQuick
<1>b. /\ Len(events) >= 1 /\ Len(events') = Len(events) - 1
      /\ \A i \in 1 .. Len(events') : events'[i] = events[i + 1]
      /\ Head(events) = events[1]
  BY <1>a DEF GetConfig, GetQuick
<1>c. cur' = events[1] /\ thread' = thread /\ events[1].from \in Threads
  BY <1>a, <1>b, Senders DEF GetConfig, GetQuick
<1>d. rqueue \in [Threads -> Seq({200, 500})]
  BY DEF TypeOK, PostTypeOK
<1>e. /\ 1 \in 1 .. Len(events)
      /\ \A i \in 1 .. Len(events') : i + 1 \in 1 .. Len(events) /\ i + 1 # 1
  BY <1>a, <1>b
<1>f. /\ \A s \in Threads : s # events[1].from => rqueue'[s] = rqueue[s]
      /\ Len(rqueue'[events[1].from]) <= 1
      /\ Unanswered' => rqueue' = rqueue
  <2>1. CASE GetConfig
    BY <2>1, <1>c DEF GetConfig, OneEventPerThread
  <2>2. CASE GetQuick
    <3>1. rqueue[events[1].from] = <<>>
      BY <1>e DEF OneEventPerThread
    <3>2. rqueue' = [rqueue EXCEPT ![events[1].from] = Append(@, 200)] /\ step' = "quick"
      BY <2>2, <1>b DEF GetQuick, Respond, Goto
    <3>3. Len(Append(rqueue[events[1].from], 200)) = 1
      BY <3>1
    <3>4. QED
      BY <3>2, <3>3, <1>c, <1>d DEF Unanswered
  <2>3. QED
    BY <2>1, <2>2
<1>1. ASSUME NEW i \in 1 .. Len(events'), NEW j \in 1 .. Len(events'), i # j
      PROVE  events'[i].from # events'[j].from
  <2>1. i + 1 # j + 1
    BY <1>1, <1>a, <1>b
  <2>2. QED
    BY <2>1, <1>b, <1>e DEF OneEventPerThread
<1>2. ASSUME NEW i \in 1 .. Len(events')
      PROVE  /\ thread'[events'[i].from] = "waiting"
             /\ rqueue'[events'[i].from] = <<>>
             /\ events'[i].from # cur'.from
  <2>1. /\ events'[i].from # events[1].from /\ thread[events'[i].from] = "waiting"
        /\ rqueue[events'[i].from] = <<>>
    BY <1>b, <1>e DEF OneEventPerThread
  <2>2. events'[i].from \in Threads
    BY <1>b, <1>e, Senders
  <2>3. QED
    BY <2>1, <2>2, <1>c, <1>f
<1>3. Unanswered' => thread'[cur'.from] = "waiting" /\ rqueue'[cur'.from] = <<>>
  BY <1>c, <1>e, <1>f DEF OneEventPerThread
<1>4. \A s \in Threads : Len(rqueue'[s]) <= 1
  BY <1>c, <1>f DEF OneEventPerThread
<1>5. QED
  BY <1>1, <1>2, <1>3, <1>4 DEF OneEventPerThread

(* The answer to a load goes to the one thread that waits for it. *)
LEMMA AnswerKeepsOne ==
    ASSUME TypeOK, OneEventPerThread, Refuse \/ Accept
    PROVE  OneEventPerThread'
<1>a. Unanswered /\ ~Unanswered' /\ UNCHANGED <<events, thread>>
  BY DEF Refuse, Accept, Unanswered, Steps, Goto, Finish
<1>b. rqueue \in [Threads -> Seq({200, 500})] /\ cur.from \in Threads
      /\ \A i \in 1 .. Len(events) : events[i].from \in Threads
  BY Senders DEF TypeOK, PostTypeOK
<1>c. rqueue[cur.from] = <<>>
  BY <1>a DEF OneEventPerThread
<1>d. /\ \A s \in Threads : s # cur.from => rqueue'[s] = rqueue[s]
      /\ Len(rqueue'[cur.from]) <= 1
  <2>1. PICK x \in {200, 500} : rqueue' = [rqueue EXCEPT ![cur.from] = Append(@, x)]
    BY DEF Refuse, Accept, Respond
  <2>2. Len(Append(rqueue[cur.from], x)) = 1
    BY <1>c
  <2>3. QED
    BY <2>1, <2>2, <1>b
<1>1. QED
  BY <1>a, <1>b, <1>d DEF OneEventPerThread

LEMMA OneStep == TypeOK /\ OneEventPerThread /\ [Next]_vars => OneEventPerThread'
<1> SUFFICES ASSUME TypeOK, OneEventPerThread, [Next]_vars PROVE OneEventPerThread'
  OBVIOUS
<1>a. Workers \subseteq Threads /\ Boot \in Threads /\ Stats \in Threads
  BY DEF Threads
<1>b. /\ rqueue \in [Threads -> Seq({200, 500})]
      /\ thread \in [Threads -> {"load", "idle", "scout", "waiting", "render"}]
  BY DEF TypeOK, PostTypeOK
<1>c. \A t \in Threads : Len(rqueue[t]) <= 1
  BY DEF OneEventPerThread
<1>1. CASE UNCHANGED vars \/ Ambex
  BY <1>1 DEF vars, Ambex, postVars, runVars, OneEventPerThread, Unanswered
<1>2. CASE Load
  <2>1. CASE FsConfig
    BY <1>2, <2>1, <1>a, PostKeepsOne DEF Load
  <2>2. CASE ~FsConfig
    BY <1>2, <2>2, <1>a, <1>b, <1>c, OwnStepKeepsOne DEF Load
  <2>3. QED
    BY <2>1, <2>2
<1>3. CASE UpdateEstats
  BY <1>3, <1>a, PostKeepsOne DEF UpdateEstats
<1>4. ASSUME NEW w \in Workers, Worker(w) PROVE OneEventPerThread'
  <2>1. CASE HandleUpdate(w)
    BY <2>1, <1>a, PostKeepsOne DEF HandleUpdate
  <2>2. CASE AppCheckScout(w)
    BY <2>2, <1>a, PostKeepsOne DEF AppCheckScout
  <2>3. CASE ShowPage(w) \/ Render(w)
    BY <2>3, <1>a, <1>b, <1>c, OwnStepKeepsOne DEF ShowPage, Render
  <2>4. QED
    BY <1>4, <2>1, <2>2, <2>3 DEF Worker
<1>5. ASSUME NEW t \in Threads, Receive(t) PROVE OneEventPerThread'
  <2>1. Len(Tail(rqueue[t])) <= 1
    BY <1>5, <1>b, <1>c DEF Receive
  <2>2. QED
    BY <1>5, <2>1, <1>b, OwnStepKeepsOne DEF Receive
<1>6. CASE Watcher
  <2>1. CASE GetConfig \/ GetQuick
    BY <2>1, GetKeepsOne
  <2>2. CASE Refuse \/ Accept
    BY <2>2, AnswerKeepsOne
  <2>3. ASSUME UNCHANGED <<events, rqueue, thread>>,
               ~Unanswered' \/ (Unanswered /\ UNCHANGED cur)
        PROVE  OneEventPerThread'
    BY <2>3 DEF OneEventPerThread
  <2>4. CASE QuickWork \/ Raise \/ RaiseLate \/ (\E good \in {"T", "F"} : Chime(good))
    BY <2>4, <2>3 DEF QuickWork, Raise, RaiseLate, Chime, Finish, Unanswered, postVars
  <2>5. CASE Fetch \/ Compile \/ ValidateSkipped \/ ValidateAccept \/ ValidateReject
             \/ ValidateTimeout \/ Kick
    BY <2>5, <2>3 DEF Fetch, Compile, ValidateSkipped, ValidateAccept, ValidateReject,
       ValidateTimeout, CanValidate, Kick, Unanswered, Steps, postVars
  <2>6. CASE \/ Rotate \/ WriteBootstrap \/ OpenAds \/ WriteAds
             \/ \E f \in {"aconf", "ir", "econf", "diag"} : Publish(f)
    BY <2>6, <2>3 DEF Rotate, WriteBootstrap, OpenAds, WriteAds, Publish, Unanswered,
       Steps, postVars
  <2>7. QED
    BY <1>6, <2>1, <2>2, <2>4, <2>5, <2>6 DEF Watcher
<1>7. QED
  BY <1>1, <1>2, <1>3, <1>4, <1>5, <1>6 DEF Next

(* However many threads post to the watcher, none of them ever gets the    *)
(* answer to another's request or a second answer to its own.              *)
THEOREM OneEventPerThreadAlways == Spec => []OneEventPerThread
<1>1. Init => OneEventPerThread
  <2> SUFFICES ASSUME Init PROVE OneEventPerThread
    OBVIOUS
  <2>1. Len(events) = 0 /\ ~Unanswered
    BY DEF Init, Unanswered
  <2>2. \A t \in Threads : rqueue[t] = <<>> /\ Len(<<>>) = 0
    BY DEF Init
  <2>3. QED
    BY <2>1, <2>2 DEF OneEventPerThread
<1>2. QED
  BY <1>1, OneStep, TypeCorrect, PTL DEF Spec
-----------------------------------------------------------------------------
(* Which steps move what the requester sees. *)
LEMMA UnseenStep ==
    ASSUME TypeOK,
           \/ GetConfig \/ GetQuick \/ QuickWork \/ Fetch \/ Compile \/ ValidateSkipped
           \/ ValidateAccept \/ ValidateReject \/ ValidateTimeout \/ Rotate
           \/ WriteBootstrap \/ OpenAds \/ WriteAds \/ Kick \/ Raise \/ RaiseLate
           \/ Ambex \/ UpdateEstats \/ (\E t \in Threads : Receive(t))
           \/ (\E f \in {"aconf", "ir", "econf"} : Publish(f))
           \/ (\E good \in {"T", "F"} : Chime(good))
           \/ (\E w \in Workers : ShowPage(w) \/ AppCheckScout(w) \/ Render(w))
    PROVE  app'["diag"] = app["diag"] /\ posted' = posted /\ answer' = answer
<1>a. app \in [Fields -> Nat]
  BY DEF TypeOK, OutTypeOK
<1>1. app'["diag"] = app["diag"]
  BY <1>a DEF GetConfig, GetQuick, QuickWork, Fetch, Compile, ValidateSkipped,
     ValidateAccept, ValidateReject, ValidateTimeout, Rotate, WriteBootstrap, OpenAds,
     WriteAds, Publish, Kick, Chime, Raise, RaiseLate, Ambex, UpdateEstats, ShowPage,
     AppCheckScout, Render, Receive, outVars, Fields
<1>2. posted' = posted /\ answer' = answer
  BY DEF GetConfig, GetQuick, QuickWork, Fetch, Compile, ValidateSkipped,
     ValidateAccept, ValidateReject, ValidateTimeout, Rotate, WriteBootstrap, OpenAds,
     WriteAds, Publish, Kick, Chime, Raise, RaiseLate, Ambex, UpdateEstats, ShowPage,
     AppCheckScout, Render, Receive, postVars, logVars
<1>3. QED
  BY <1>1, <1>2

(* Every step of diagd is a step of the service, or one it does not show. *)
LEMMA ServiceStep ==
    PublishInv /\ [Next]_vars => [Service!ServiceNext]_(Service!serviceVars)
<1> SUFFICES ASSUME PublishInv, [Next]_vars,
                    ~(app'["diag"] = app["diag"] /\ posted' = posted /\ answer' = answer)
             PROVE  Service!ServiceNext
  BY DEF Service!serviceVars
<1>a. TypeOK /\ app \in [Fields -> Nat] /\ MaxUpdates \in Nat /\ posted \in Nat
      /\ posted <= MaxUpdates /\ app["diag"] \in Nat /\ cur.arg \in Nat
  BY Numbers DEF PublishInv, TypeOK, OutTypeOK, Fields
<1>b. Unanswered => /\ cur.arg \in 1 .. posted /\ cur.arg \in 1 .. MaxUpdates
                    /\ Service!Pending(cur.arg)
  BY <1>a DEF PublishInv, LoadInProgress, Service!Pending
<1>1. CASE \/ Load \/ \E w \in Workers : HandleUpdate(w)
  <2>1. app' = app /\ answer' = answer
    BY <1>1 DEF Load, HandleUpdate, outVars, logVars
  <2>2. posted' = posted + 1 /\ posted < MaxUpdates
    BY <1>1, <2>1 DEF Load, HandleUpdate
  <2>3. QED
    BY <2>1, <2>2 DEF Service!ServiceNext, Service!Submit
<1>2. CASE Publish("diag")
  <2>1. Unanswered /\ app'["diag"] = cur.arg /\ posted' = posted /\ answer' = answer
    BY <1>2, <1>a DEF Publish, Unanswered, Steps, Fields, postVars, logVars
  <2>2. app["diag"] <= cur.arg
    <3>1. app["econf"] = cur.arg
      BY <1>2, <2>1 DEF Publish, PublishInv, LoadInProgress
    <3>2. QED
      BY <3>1 DEF PublishInv, PublishOrder
  <2>3. Service!Apply(cur.arg)
    BY <2>1, <2>2, <1>a, <1>b DEF Service!Apply
  <2>4. QED
    BY <2>1, <2>3, <1>b DEF Service!ServiceNext
<1>3. CASE Accept
  <2>1. Unanswered /\ app["diag"] = cur.arg
    BY <1>3 DEF Accept, PublishInv, LoadInProgress, Unanswered, Steps
  <2>2. Service!Confirm(cur.arg)
    BY <1>3, <2>1, <1>b DEF Accept, outVars, Service!Confirm
  <2>3. QED
    BY <2>1, <2>2, <1>b DEF Service!ServiceNext
<1>4. CASE Refuse
  <2>1. Unanswered /\ app["latest"] < cur.arg
    BY <1>4 DEF Refuse, PublishInv, LoadInProgress, Unanswered, Steps
  <2>2. app["diag"] < cur.arg
    BY <2>1, Numbers DEF PublishInv, PublishOrder, Fields
  <2>3. Service!Reject(cur.arg)
    BY <1>4, <2>1, <2>2, <1>b DEF Refuse, outVars, Service!Reject
  <2>4. QED
    BY <2>1, <2>3, <1>b DEF Service!ServiceNext
<1>5. QED
  <2>1. ~UNCHANGED vars
    BY DEF vars
  <2>2. Publish("diag") \/ (\E f \in {"aconf", "ir", "econf"} : Publish(f))
            \/ ~(\E f \in {"aconf", "ir", "econf", "diag"} : Publish(f))
    OBVIOUS
  <2>3. QED
    BY <1>a, <1>1, <1>2, <1>3, <1>4, <2>1, <2>2, UnseenStep DEF Next, Watcher, Worker

(* diagd implements ConfigService: updates become live in the order they   *)
(* were posted, and each is answered at most once and truthfully.          *)
THEOREM Implements == Spec => ImplementsService
<1>1. Init => Service!ServiceInit
  BY DEF Init, Service!ServiceInit, Updates, Fields
<1>2. QED
  BY <1>1, ServiceStep, PublishInvariant, PTL DEF Spec, ImplementsService, Service!ServiceSpec
-----------------------------------------------------------------------------
LEMMA PageStep == PublishInv /\ PageInv /\ [Next]_vars => PageInv'
<1> SUFFICES ASSUME PublishInv, PageInv, [Next]_vars, NEW t \in Threads
             PROVE  /\ page'[t].diag <= app'["diag"]
                    /\ thread'[t] \in {"load", "idle"} => page'[t].diag = 0
                    /\ thread'[t] \in {"waiting", "render"}
                           => page'[t].diag <= page'[t].ir \/ page'[t].diag = 0
  BY DEF PageInv
<1>a. /\ app["diag"] \in Nat /\ app["ir"] \in Nat /\ app["diag"] <= app["ir"]
      /\ page[t].diag \in Nat /\ page[t].ir \in Nat
      /\ page \in [Threads -> [diag : Nat, ir : Nat]]
      /\ thread \in [Threads -> {"load", "idle", "scout", "waiting", "render"}]
  <2>1. app["diag"] \in Nat /\ app["ir"] \in Nat /\ app["econf"] \in Nat
    BY Numbers DEF PublishInv, Fields
  <2>2. /\ page \in [Threads -> [diag : Nat, ir : Nat]]
        /\ thread \in [Threads -> {"load", "idle", "scout", "waiting", "render"}]
    BY DEF PublishInv, TypeOK, PostTypeOK
  <2>3. QED
    BY <2>1, <2>2 DEF PublishInv, PublishOrder
<1>b. Workers \subseteq Threads /\ Boot \in Threads /\ Stats \in Threads
  BY DEF Threads
<1>c. /\ page[t].diag <= app["diag"]
      /\ thread[t] \in {"load", "idle"} => page[t].diag = 0
      /\ thread[t] \in {"waiting", "render"} => page[t].diag <= page[t].ir \/ page[t].diag = 0
  BY DEF PageInv
<1>1. CASE Watcher
  <2>1. page' = page /\ thread' = thread
    BY <1>1 DEF Watcher, GetConfig, GetQuick, QuickWork, Fetch, Compile, ValidateSkipped,
       ValidateAccept, ValidateReject, ValidateTimeout, Refuse, Rotate, WriteBootstrap,
       OpenAds, WriteAds, Publish, Kick, Accept, Chime, Raise, RaiseLate, postVars
  <2>2. app'["diag"] >= app["diag"] /\ app'["diag"] \in Nat
    <3>1. CASE Publish("diag")
      <4>1. app'["diag"] = cur.arg /\ app["econf"] = cur.arg
        BY <3>1 DEF Publish, PublishInv, LoadInProgress, Unanswered, Steps, TypeOK,
           OutTypeOK, Fields
      <4>2. QED
        BY <4>1, <1>a, Numbers DEF PublishInv, PublishOrder
    <3>2. CASE Refuse \/ Accept
      BY <3>2, <1>a DEF Refuse, Accept, outVars
    <3>3. Publish("diag") \/ (\E f \in {"aconf", "ir", "econf"} : Publish(f))
              \/ ~(\E f \in {"aconf", "ir", "econf", "diag"} : Publish(f))
      OBVIOUS
    <3>4. QED
      BY <1>1, <1>a, <3>1, <3>2, <3>3, UnseenStep DEF Watcher, PublishInv
  <2>3. QED
    BY <2>1, <2>2, <1>a, <1>c
<1>2. CASE UNCHANGED vars \/ Ambex
  BY <1>2, <1>c DEF vars, Ambex, postVars
<1>3. CASE Load \/ UpdateEstats
  <2>1. app' = app /\ page' = page
    BY <1>3 DEF Load, UpdateEstats, outVars
  <2>2. \/ thread'[t] = thread[t]
        \/ thread[t] \in {"load", "idle"} /\ thread'[t] \in {"waiting", "idle"}
    BY <1>3, <1>a, <1>b DEF Load, UpdateEstats, Post
  <2>3. QED
    BY <2>1, <2>2, <1>a, <1>c
<1>4. ASSUME NEW s \in Threads, Receive(s)
      PROVE  /\ page'[t].diag <= app'["diag"]
             /\ thread'[t] \in {"load", "idle"} => page'[t].diag = 0
             /\ thread'[t] \in {"waiting", "render"}
                    => page'[t].diag <= page'[t].ir \/ page'[t].diag = 0
  <2>1. app' = app /\ page' = page
    BY <1>4 DEF Receive, outVars
  <2>2. CASE s = t
    BY <2>1, <2>2, <1>4, <1>a, <1>c DEF Receive
  <2>3. CASE s # t
    BY <2>1, <2>3, <1>4, <1>a, <1>c DEF Receive
  <2>4. QED
    BY <2>2, <2>3
<1>5. ASSUME NEW w \in Workers, Worker(w)
      PROVE  /\ page'[t].diag <= app'["diag"]
             /\ thread'[t] \in {"load", "idle"} => page'[t].diag = 0
             /\ thread'[t] \in {"waiting", "render"}
                    => page'[t].diag <= page'[t].ir \/ page'[t].diag = 0
  <2>1. app' = app /\ w \in Threads
    BY <1>5, <1>b DEF Worker, HandleUpdate, ShowPage, AppCheckScout, Render, outVars
  <2>2. CASE w # t
    <3>1. page'[t] = page[t] /\ thread'[t] = thread[t]
      BY <1>5, <2>1, <2>2, <1>a DEF Worker, HandleUpdate, ShowPage, AppCheckScout,
         Render, Post
    <3>2. QED
      BY <3>1, <2>1, <1>c
  <2>3. CASE w = t
    <3>1. CASE HandleUpdate(w)
      BY <3>1, <2>1, <2>3, <1>a, <1>c DEF HandleUpdate, Post
    <3>2. CASE ShowPage(w)
      BY <3>2, <2>1, <2>3, <1>a DEF ShowPage
    <3>3. CASE AppCheckScout(w)
      BY <3>3, <2>1, <2>3, <1>a, <1>c DEF AppCheckScout, Post
    <3>4. CASE Render(w)
      BY <3>4, <2>1, <2>3, <1>a DEF Render
    <3>5. QED
      BY <1>5, <3>1, <3>2, <3>3, <3>4 DEF Worker
  <2>4. QED
    BY <2>2, <2>3
<1>6. QED
  BY <1>1, <1>2, <1>3, <1>4, <1>5 DEF Next

(* However a page request interleaves with loads, the IR it reports and    *)
(* the snapshot name it shows are never older than its diagnostics.        *)
THEOREM PageNeverBehindAlways == Spec => []PageNeverBehind
<1>1. Init => PageInv
  BY DEF Init, PageInv, Fields
<1>2. PublishInv /\ PageInv => PageNeverBehind
  <2> SUFFICES ASSUME PublishInv, PageInv, NEW w \in Workers
               PROVE  /\ page[w].diag <= app["latest"]
                      /\ thread[w] \in {"waiting", "render"}
                             => page[w].diag <= page[w].ir \/ page[w].diag = 0
    BY DEF PageNeverBehind
  <2>1. w \in Threads
    BY DEF Threads
  <2>2. page[w].diag \in Nat
    BY <2>1 DEF PublishInv, TypeOK, PostTypeOK
  <2>3. app["diag"] <= app["latest"] /\ app["diag"] \in Nat /\ app["latest"] \in Nat
    BY Numbers DEF PublishInv, PublishOrder, Fields
  <2>4. QED
    BY <2>1, <2>2, <2>3 DEF PageInv
<1>3. QED
  BY <1>1, <1>2, PageStep, PublishInvariant, PTL DEF Spec
=============================================================================
