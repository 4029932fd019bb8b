---------------------------- MODULE HealthProofs ----------------------------
(***************************************************************************)
(* Theorems about Health, for every age, period, timeout and bound.        *)
(***************************************************************************)
EXTENDS Health, FiniteSetTheorems, SequenceTheorems, TLAPS

(* The clock's and the counters' part of the type invariant, and the queue *)
(* and the threads' part, are preserved by every step.                     *)
LEMMA TypeStep == ASSUME ValuesOK, [Next]_vars PROVE ValuesOK'
<1> USE HealthAssumption DEF ValuesOK, statVars, envoyVars, updaterVars
<1>1. CASE PostUpdate
  <2>1. "CONFIG" \in {"CONFIG", "ESTATS"}
    OBVIOUS
  <2> QED BY <1>1, <2>1 DEF PostUpdate
<1>2. CASE PostEstats
  BY <1>2 DEF PostEstats
<1>3. CASE TakeUpdate
  <2>1. PICK timeouts \in 0 .. ValidationRetries : left' = timeouts * Timeout
    BY <1>3 DEF TakeUpdate
  <2>2. left' \in Nat
    BY <2>1
  <2> QED BY <1>3, <2>2 DEF TakeUpdate
<1>4. CASE EndRefused
  BY <1>4 DEF EndRefused
<1>5. CASE EndAccepted
  BY <1>5 DEF EndAccepted
<1>6. CASE TakeEstats
  BY <1>6 DEF TakeEstats
<1>7. CASE LogLevels
  BY <1>7 DEF LogLevels
<1>8. CASE Unparsable
  BY <1>8 DEF Unparsable
<1>9. CASE EnvoyStats
  BY <1>9 DEF EnvoyStats
<1>10. CASE EnvoyChanges
  BY <1>10 DEF EnvoyChanges
<1>11. CASE Tick
  BY <1>11 DEF Tick
<1>12. CASE UNCHANGED vars
  BY <1>12 DEF vars
<1> QED
  BY <1>1, <1>2, <1>3, <1>4, <1>5, <1>6, <1>7, <1>8, <1>9, <1>10, <1>11, <1>12 DEF Next

(* Only EnvoyStats records an answer, and only while Envoy is good; when   *)
(* it stops being good, `since' becomes the present.                       *)
LEMMA HeardStep == ASSUME HeardBefore, [Next]_vars PROVE HeardBefore'
<1>1. ValuesOK'
  BY TypeStep DEF HeardBefore
<1> DEFINE Heard == /\ Boot <= since /\ since <= now
                    /\ envoy # "good" => last_update <= since
                    /\ last_update <= now
<1>2. Heard /\ ValuesOK
  BY DEF HeardBefore
<1> SUFFICES Heard'
  BY <1>1 DEF HeardBefore
<1>3. CASE EnvoyStats
  <2>1. CASE envoy = "good"
    BY <1>2, <1>3, <2>1 DEF EnvoyStats, envoyVars, ValuesOK
  <2>2. CASE envoy # "good"
    BY <1>2, <1>3, <2>2 DEF EnvoyStats, envoyVars, ValuesOK
  <2> QED BY <2>1, <2>2
<1>4. CASE EnvoyChanges
  <2>1. CASE "good" \in {envoy, envoy'}
    <3>1. since' = now /\ now' = now /\ last_update' = last_update
      BY <1>4, <2>1 DEF EnvoyChanges, statVars
    <3> QED BY <1>2, <3>1 DEF ValuesOK, Boot
  <2>2. CASE "good" \notin {envoy, envoy'}
    <3>1. since' = since /\ now' = now /\ last_update' = last_update /\ envoy # "good"
      BY <1>4, <2>2 DEF EnvoyChanges, statVars
    <3> QED BY <1>2, <3>1
  <2> QED BY <2>1, <2>2
<1>5. CASE Tick
  <2>1. now' = now + 1 /\ since' = since /\ envoy' = envoy /\ last_update' = last_update
    BY <1>5 DEF Tick, envoyVars, statVars
  <2> QED BY <1>2, <2>1 DEF ValuesOK
<1>6. ASSUME UNCHANGED <<now, since, envoy, last_update>> PROVE Heard'
  BY <1>2, <1>6
<1>7. CASE PostUpdate \/ PostEstats \/ TakeUpdate \/ EndRefused \/ EndAccepted
           \/ TakeEstats \/ LogLevels \/ Unparsable \/ UNCHANGED vars
  <2>1. UNCHANGED <<now, since, envoy, last_update>>
    BY <1>7 DEF PostUpdate, PostEstats, TakeUpdate, EndRefused, EndAccepted, TakeEstats,
                LogLevels, Unparsable, vars, envoyVars, statVars
  <2> QED BY <1>6, <2>1
<1> QED
  BY <1>3, <1>4, <1>5, <1>7 DEF Next

(* When Envoy has given no usable answer for longer than max_live_age,     *)
(* check_alive and check_ready both fail.                                  *)
THEOREM SilenceAlwaysNoticed == Spec => []SilenceNoticed
<1>1. Init => HeardBefore
  BY DEF Init, HeardBefore, ValuesOK, Boot
<1>2. HeardBefore => SilenceNoticed
  BY HealthAssumption
     DEF HeardBefore, SilenceNoticed, is_alive, is_ready, CheckReady, Epoch, ValuesOK, Boot
<1> QED
  BY <1>1, <1>2, HeardStep, PTL DEF Spec
-----------------------------------------------------------------------------
Latest == IF last_update > since THEN last_update ELSE since

(* There is one ESTATS event while the updater waits and none otherwise,   *)
(* and the rest of the queue is updates.                                   *)
QueueInv ==
    /\ Len(events) <= MaxQueue + (IF updater = "waiting" THEN 1 ELSE 0)
    /\ updater = "waiting" <=> \E k \in 1 .. Len(events) : events[k] = "ESTATS"
    /\ OneEstats

(* Asking Envoy takes no time, and the updater sleeps through it.          *)
ThreadInv ==
    /\ left <= Work /\ (watcher # "load" => left = 0)
    /\ configured = "no" => envoy = "down" /\ updater = "none"
    /\ configured = "yes" => updater # "none"
    /\ updater = "asleep" => now <= wake /\ wake <= now + Period
    /\ watcher \in {"levels", "stats"} => updater = "asleep" /\ wake = now + Period

(* While Envoy is good, the next time it will be asked is known: at `wake' *)
(* or when the updates ahead of the ESTATS event are done.                 *)
DueInv ==
    envoy = "good" =>
        /\ updater = "asleep" /\ watcher \notin {"levels", "stats"} => wake <= Latest + Period
        /\ watcher \in {"levels", "stats"} => now <= Latest + Period + Delay
        /\ \A k \in 1 .. Len(events) :
               events[k] = "ESTATS" => now + left + Work * (k - 1) <= Latest + Period + Delay

(* The inductive invariant of AgeBounded, and of TypeOK. *)
AskInv == HeardBefore /\ QueueInv /\ ThreadInv /\ DueInv

(* Work and Delay are natural numbers. *)
LEMMA WorkNat == Work \in Nat /\ Delay \in Nat /\ Delay = Work * MaxQueue + Work
  BY HealthAssumption DEF Work, Delay

(* Multiplication by a natural number is monotonic. *)
LEMMA TimesMonotonic ==
    ASSUME NEW n \in Nat, NEW a \in Nat, NEW b \in Nat, a <= b PROVE n * a <= n * b
<1>1. PICK c \in Nat : b = a + c
  <2>1. b - a \in Nat /\ b = a + (b - a)
    OBVIOUS
  <2> QED BY <2>1
<1>2. n * b = n * a + n * c
  BY <1>1
<1>3. n * c \in Nat /\ n * a \in Nat
  OBVIOUS
<1> QED BY <1>2, <1>3

(* Multiplication distributes over one more: an update more is a Work more.*)
LEMMA TimesNext == ASSUME NEW n \in Nat, NEW a \in Nat PROVE n * (a + 1) = n * a + n
  OBVIOUS

(* A validation that takes no more than a whole update keeps the bound. *)
LEMMA ShorterWait ==
    ASSUME NEW t \in Nat, NEW l \in Nat, NEW w \in Nat, NEW whole \in Nat, NEW bound \in Nat,
           l <= whole, t + (w + whole) <= bound
    PROVE  t + l + w <= bound
  OBVIOUS

(* At most MaxQueue events are waiting besides the ESTATS event, so that   *)
(* PostUpdate finds room only for an update that keeps the bound.          *)
LEMMA RoomForUpdate ==
    ASSUME ValuesOK, QueueInv, PostUpdate
    PROVE  Len(events) + 1 <= MaxQueue + (IF updater = "waiting" THEN 1 ELSE 0)
<1> DEFINE C == {i \in 1 .. Len(events) : events[i] = "CONFIG"}
<1>1. Cardinality(C) < MaxQueue
  BY DEF PostUpdate
<1>2. Len(events) \in Nat /\ \A i \in 1 .. Len(events) : events[i] \in {"CONFIG", "ESTATS"}
  BY ElementOfSeq DEF ValuesOK
<1>3. IsFiniteSet(1 .. Len(events)) /\ Cardinality(1 .. Len(events)) = Len(events)
  <2>1. 1 \in Int /\ Len(events) \in Int
    BY <1>2
  <2>2. IsFiniteSet(1 .. Len(events))
        /\ Cardinality(1 .. Len(events)) = IF 1 > Len(events) THEN 0 ELSE Len(events) - 1 + 1
    BY <2>1, FS_Interval, Zenon
  <2> QED BY <1>2, <2>2
<1>4. CASE updater = "waiting"
  <2>1. PICK k \in 1 .. Len(events) : events[k] = "ESTATS"
    BY <1>4 DEF QueueInv, OneEstats
  <2>2. C = (1 .. Len(events)) \ {k}
    <3>1. ASSUME NEW i \in 1 .. Len(events) PROVE events[i] = "CONFIG" <=> i # k
      <4>1. CASE i = k
        BY <2>1, <4>1
      <4>2. CASE i # k
        <5>1. events[i] # "ESTATS"
          BY <2>1, <4>2 DEF QueueInv, OneEstats
        <5> QED BY <1>2, <4>2, <5>1
      <4> QED BY <4>1, <4>2
    <3> QED BY <3>1
  <2>3. Cardinality(C) = Len(events) - 1
    <3>1. Cardinality((1 .. Len(events)) \ {k}) = Cardinality(1 .. Len(events)) - 1
      BY <1>3, <2>1, FS_RemoveElement
    <3> QED BY <1>3, <2>2, <3>1
  <2> HIDE DEF C
  <2> QED BY <1>1, <1>2, <1>4, <2>3, HealthAssumption
<1>5. CASE updater # "waiting"
  <2>1. \A i \in 1 .. Len(events) : events[i] # "ESTATS"
    BY <1>5 DEF QueueInv, OneEstats
  <2>2. C = 1 .. Len(events)
    BY <1>2, <2>1
  <2>3. Cardinality(C) = Len(events)
    BY <1>3, <2>2
  <2> HIDE DEF C
  <2> QED BY <1>1, <1>2, <1>5, <2>3, HealthAssumption
<1> QED BY <1>4, <1>5

(* The events after an Append and after a Tail, position by position. *)
LEMMA Positions ==
    ASSUME ValuesOK
    PROVE  /\ Len(events) \in Nat
           /\ \A e \in {"CONFIG", "ESTATS"} :
                 /\ Len(Append(events, e)) = Len(events) + 1
                 /\ \A i \in 1 .. Len(events) : Append(events, e)[i] = events[i]
                 /\ Append(events, e)[Len(events) + 1] = e
           /\ events # <<>> =>
                 /\ Len(events) >= 1 /\ Head(events) = events[1]
                 /\ Len(Tail(events)) = Len(events) - 1
                 /\ \A i \in 1 .. Len(events) - 1 : Tail(events)[i] = events[i + 1]
  BY AppendProperties, HeadTailProperties, LenProperties DEF ValuesOK

(* Posting and taking events keeps the queue as QueueInv describes it. *)
LEMMA QueueStep == ASSUME ValuesOK, ThreadInv, QueueInv, [Next]_vars PROVE QueueInv'
<1> USE HealthAssumption
<1>0. Len(events) \in Nat
  BY Positions
<1>1. CASE PostUpdate
  <2>1. Len(events') = Len(events) + 1 /\ events'[Len(events) + 1] = "CONFIG"
        /\ (\A i \in 1 .. Len(events) : events'[i] = events[i]) /\ updater' = updater
    BY <1>1, Positions DEF PostUpdate, updaterVars
  <2>2. Len(events) + 1 <= MaxQueue + (IF updater = "waiting" THEN 1 ELSE 0)
    BY <1>1, RoomForUpdate
  <2>3. \A i \in 1 .. Len(events) + 1 : events'[i] = "ESTATS" =>
            i \in 1 .. Len(events) /\ events[i] = "ESTATS"
    <3>1. ASSUME NEW i \in 1 .. Len(events) + 1, events'[i] = "ESTATS"
          PROVE  i \in 1 .. Len(events) /\ events[i] = "ESTATS"
      <4>1. i # Len(events) + 1
        BY <2>1, <3>1
      <4>2. i \in 1 .. Len(events)
        BY <1>0, <4>1
      <4> QED BY <2>1, <3>1, <4>2
    <3> QED BY <3>1
  <2>4. \A i \in 1 .. Len(events) : i \in 1 .. Len(events) + 1
    BY <1>0
  <2>5. (updater = "waiting")' <=> \E k \in 1 .. Len(events') : events'[k] = "ESTATS"
    BY <2>1, <2>3, <2>4 DEF QueueInv, OneEstats
  <2>6. \A i, j \in 1 .. Len(events') : events'[i] = "ESTATS" /\ events'[j] = "ESTATS" => i = j
    BY <2>1, <2>3 DEF QueueInv, OneEstats
  <2> QED BY <2>1, <2>2, <2>5, <2>6 DEF QueueInv, OneEstats
<1>2. CASE PostEstats
  <2>1. Len(events') = Len(events) + 1 /\ events'[Len(events) + 1] = "ESTATS"
        /\ (\A i \in 1 .. Len(events) : events'[i] = events[i])
        /\ updater = "asleep" /\ updater' = "waiting"
    BY <1>2, Positions DEF PostEstats
  <2>2. Len(events) + 1 <= MaxQueue + 1
    BY <1>0, <2>1 DEF QueueInv, OneEstats
  <2>3. \A i \in 1 .. Len(events) + 1 : events'[i] = "ESTATS" => i = Len(events) + 1
    <3>1. ASSUME NEW i \in 1 .. Len(events) + 1, events'[i] = "ESTATS"
          PROVE  i = Len(events) + 1
      <4>1. CASE i \in 1 .. Len(events)
        BY <2>1, <3>1, <4>1 DEF QueueInv, OneEstats
      <4> QED BY <1>0, <4>1
    <3> QED BY <3>1
  <2>4. Len(events) + 1 \in 1 .. Len(events')
    BY <1>0, <2>1
  <2>5. \E k \in 1 .. Len(events') : events'[k] = "ESTATS"
    BY <2>1, <2>4
  <2>6. \A i, j \in 1 .. Len(events') : events'[i] = "ESTATS" /\ events'[j] = "ESTATS" => i = j
    BY <2>1, <2>3
  <2> QED BY <2>1, <2>2, <2>5, <2>6 DEF QueueInv, OneEstats
<1>3. CASE TakeUpdate
  <2>1. Len(events) >= 1 /\ events[1] = "CONFIG" /\ Len(events') = Len(events) - 1
        /\ (\A i \in 1 .. Len(events) - 1 : events'[i] = events[i + 1]) /\ updater' = updater
    BY <1>3, Positions DEF TakeUpdate, updaterVars
  <2>2. \A k \in 1 .. Len(events) : events[k] = "ESTATS" =>
            k - 1 \in 1 .. Len(events) - 1 /\ events'[k - 1] = "ESTATS"
    <3>1. ASSUME NEW k \in 1 .. Len(events), events[k] = "ESTATS"
          PROVE  k - 1 \in 1 .. Len(events) - 1 /\ events'[k - 1] = "ESTATS"
      <4>1. k # 1
        BY <2>1, <3>1
      <4>2. k - 1 \in 1 .. Len(events) - 1 /\ (k - 1) + 1 = k
        BY <1>0, <4>1
      <4> QED BY <2>1, <3>1, <4>2
    <3> QED BY <3>1
  <2>3. \A i \in 1 .. Len(events) - 1 : i + 1 \in 1 .. Len(events)
    BY <1>0
  <2>4. Len(events') <= MaxQueue + (IF updater = "waiting" THEN 1 ELSE 0)
    <3>1. CASE updater = "waiting"
      BY <1>0, <2>1, <3>1 DEF QueueInv, OneEstats
    <3>2. CASE updater # "waiting"
      BY <1>0, <2>1, <3>2 DEF QueueInv, OneEstats
    <3> QED BY <3>1, <3>2
  <2>5. (updater = "waiting")' <=> \E k \in 1 .. Len(events') : events'[k] = "ESTATS"
    BY <2>1, <2>2, <2>3 DEF QueueInv, OneEstats
  <2>6. \A i, j \in 1 .. Len(events') : events'[i] = "ESTATS" /\ events'[j] = "ESTATS" => i = j
    <3>1. ASSUME NEW i \in 1 .. Len(events) - 1, NEW j \in 1 .. Len(events) - 1,
                 events'[i] = "ESTATS", events'[j] = "ESTATS"
          PROVE  i = j
      <4>1. i + 1 = j + 1
        BY <2>1, <2>3, <3>1 DEF QueueInv, OneEstats
      <4> QED BY <4>1
    <3> QED BY <2>1, <3>1
  <2> QED BY <2>1, <2>4, <2>5, <2>6 DEF QueueInv, OneEstats
<1>4. CASE TakeEstats
  <2>1. Len(events) >= 1 /\ events[1] = "ESTATS" /\ Len(events') = Len(events) - 1
        /\ (\A i \in 1 .. Len(events) - 1 : events'[i] = events[i + 1]) /\ updater' = "asleep"
    BY <1>4, Positions DEF TakeEstats
  <2>2. 1 \in 1 .. Len(events) /\ updater = "waiting"
    BY <1>0, <2>1 DEF QueueInv, OneEstats
  <2>3. \A i \in 1 .. Len(events) - 1 : events'[i] # "ESTATS"
    <3>1. ASSUME NEW i \in 1 .. Len(events) - 1, events'[i] = "ESTATS" PROVE FALSE
      <4>1. i + 1 \in 1 .. Len(events) /\ i + 1 # 1
        BY <1>0
      <4> QED BY <2>1, <2>2, <3>1, <4>1 DEF QueueInv, OneEstats
    <3> QED BY <3>1
  <2>4. Len(events') <= MaxQueue
    BY <1>0, <2>1, <2>2 DEF QueueInv, OneEstats
  <2> QED BY <2>1, <2>3, <2>4 DEF QueueInv, OneEstats
<1>5. CASE EndAccepted
  <2>1. events' = events /\ (updater' = "waiting" <=> updater = "waiting")
    BY <1>5 DEF EndAccepted
  <2> QED BY <2>1 DEF QueueInv, OneEstats
<1>6. CASE EndRefused \/ LogLevels \/ Unparsable \/ EnvoyStats \/ EnvoyChanges \/ Tick
           \/ UNCHANGED vars
  <2>1. events' = events /\ updater' = updater
    BY <1>6 DEF EndRefused, LogLevels, Unparsable, EnvoyStats, EnvoyChanges, Tick, vars,
                updaterVars
  <2> QED BY <2>1 DEF QueueInv, OneEstats
<1> QED
  BY <1>1, <1>2, <1>3, <1>4, <1>5, <1>6 DEF Next

(* A validation is never longer than Work, asking Envoy takes no time, and *)
(* the updater never oversleeps.                                           *)
LEMMA ThreadStep == ASSUME ValuesOK, QueueInv, ThreadInv, [Next]_vars PROVE ThreadInv'
<1> USE HealthAssumption DEF ValuesOK
<1>0. Work \in Nat
  BY WorkNat
<1>1. CASE PostUpdate
  BY <1>1 DEF PostUpdate, updaterVars, envoyVars, ThreadInv
<1>2. CASE PostEstats
  BY <1>2 DEF PostEstats, envoyVars, ThreadInv
<1>3. CASE TakeUpdate
  <2>1. PICK timeouts \in 0 .. ValidationRetries : left' = timeouts * Timeout
    BY <1>3 DEF TakeUpdate
  <2>2. left' <= Work
    <3>1. Timeout * timeouts <= Timeout * ValidationRetries
      BY TimesMonotonic
    <3> QED BY <2>1, <3>1 DEF Work
  <2> QED BY <1>3, <2>2 DEF TakeUpdate, updaterVars, envoyVars, ThreadInv
<1>4. CASE EndRefused
  BY <1>4 DEF EndRefused, updaterVars, envoyVars, ThreadInv
<1>5. CASE EndAccepted
  BY <1>5 DEF EndAccepted, envoyVars, ThreadInv
<1>6. CASE TakeEstats
  <2>1. 1 \in 1 .. Len(events) /\ events[1] = "ESTATS"
    BY <1>6, Positions DEF TakeEstats
  <2>2. updater = "waiting"
    BY <2>1 DEF QueueInv, OneEstats
  <2> QED BY <1>6, <2>2 DEF TakeEstats, envoyVars, ThreadInv
<1>7. CASE LogLevels
  BY <1>7 DEF LogLevels, updaterVars, envoyVars, ThreadInv
<1>8. CASE Unparsable
  BY <1>8 DEF Unparsable, updaterVars, envoyVars, ThreadInv
<1>9. CASE EnvoyStats
  BY <1>9 DEF EnvoyStats, updaterVars, envoyVars, ThreadInv
<1>10. CASE EnvoyChanges
  BY <1>10 DEF EnvoyChanges, updaterVars, ThreadInv
<1>11. CASE Tick
  BY <1>0, <1>11 DEF Tick, Waiting, updaterVars, envoyVars, ThreadInv
<1>12. CASE UNCHANGED vars
  BY <1>12 DEF vars, ThreadInv
<1> QED
  BY <1>1, <1>2, <1>3, <1>4, <1>5, <1>6, <1>7, <1>8, <1>9, <1>10, <1>11, <1>12 DEF Next

(* What is ahead of an ESTATS event, anywhere in the queue, is done within *)
(* Delay.                                                                  *)
LEMMA AheadBounded ==
    ASSUME ValuesOK, QueueInv, ThreadInv, NEW k \in 1 .. MaxQueue + 1
    PROVE  left + Work * (k - 1) <= Delay /\ Work * (k - 1) \in Nat
<1>1. k - 1 \in Nat /\ k - 1 <= MaxQueue
  BY HealthAssumption
<1>2. Work * (k - 1) <= Work * MaxQueue /\ Work * (k - 1) \in Nat /\ Work * MaxQueue \in Nat
  <2>1. MaxQueue \in Nat /\ Work \in Nat
    BY HealthAssumption, WorkNat
  <2>2. Work * (k - 1) \in Nat /\ Work * MaxQueue \in Nat
    BY <1>1, <2>1
  <2> QED BY <1>1, <2>1, <2>2, TimesMonotonic
<1>3. left <= Work /\ left \in Nat
  BY DEF ThreadInv, ValuesOK
<1> QED BY <1>2, <1>3, WorkNat

(* While Envoy is good, it is asked again within Period and Delay of its   *)
(* last answer, or of its becoming good.                                   *)
LEMMA DueStep == ASSUME AskInv, [Next]_vars PROVE DueInv'
<1>0. /\ ValuesOK /\ HeardBefore /\ QueueInv /\ ThreadInv /\ DueInv
      /\ Work \in Nat /\ Delay \in Nat /\ Period \in Nat \ {0} /\ MaxQueue \in Nat
      /\ Len(events) \in Nat
  BY Positions, WorkNat, HealthAssumption DEF AskInv, HeardBefore
<1>1. /\ now \in Nat /\ since \in Nat /\ last_update \in Nat /\ wake \in Nat /\ left \in Nat
      /\ Latest \in Nat /\ since <= now /\ last_update <= now
  BY <1>0 DEF HeardBefore, ValuesOK, Latest
<1> SUFFICES ASSUME envoy' = "good"
             PROVE  /\ updater' = "asleep" /\ watcher' \notin {"levels", "stats"}
                          => wake' <= Latest' + Period
                    /\ watcher' \in {"levels", "stats"} => now' <= Latest' + Period + Delay
                    /\ \A k \in 1 .. Len(events') :
                           events'[k] = "ESTATS" =>
                               now' + left' + Work * (k - 1) <= Latest' + Period + Delay
  BY DEF DueInv, Work, Delay
<1>a. ASSUME UNCHANGED <<since, last_update>> PROVE Latest' = Latest
  BY <1>a DEF Latest
<1>b. ASSUME envoy = "good"
      PROVE  /\ updater = "asleep" /\ watcher \notin {"levels", "stats"}
                   => wake <= Latest + Period
             /\ watcher \in {"levels", "stats"} => now <= Latest + Period + Delay
             /\ \A k \in 1 .. Len(events) :
                    events[k] = "ESTATS" =>
                        now + left + Work * (k - 1) <= Latest + Period + Delay
  BY <1>0, <1>b DEF DueInv
<1>2. CASE PostUpdate
  <2>1. Len(events') = Len(events) + 1 /\ events'[Len(events) + 1] = "CONFIG"
        /\ \A i \in 1 .. Len(events) : events'[i] = events[i]
    BY <1>0, <1>2, Positions DEF PostUpdate
  <2>2. UNCHANGED <<now, since, envoy, last_update, watcher, left, updater, wake>>
    BY <1>2 DEF PostUpdate, envoyVars, statVars, updaterVars
  <2>3. \A i \in 1 .. Len(events) + 1 : events'[i] = "ESTATS" =>
            i \in 1 .. Len(events) /\ events[i] = "ESTATS"
    <3>1. ASSUME NEW i \in 1 .. Len(events) + 1, events'[i] = "ESTATS"
          PROVE  i \in 1 .. Len(events) /\ events[i] = "ESTATS"
      <4>1. i # Len(events) + 1
        BY <2>1, <3>1
      <4>2. i \in 1 .. Len(events)
        BY <1>0, <4>1
      <4> QED BY <2>1, <3>1, <4>2
    <3> QED BY <3>1
  <2> QED BY <1>a, <1>b, <2>1, <2>2, <2>3
<1>3. CASE PostEstats
  <2>1. Len(events') = Len(events) + 1 /\ events'[Len(events) + 1] = "ESTATS"
        /\ \A i \in 1 .. Len(events) : events'[i] = events[i]
    BY <1>0, <1>3, Positions DEF PostEstats
  <2>2. UNCHANGED <<now, since, envoy, last_update, watcher, left>> /\ updater = "asleep"
        /\ updater' = "waiting" /\ wake <= now
    BY <1>3 DEF PostEstats, envoyVars, statVars
  <2>3. watcher \notin {"levels", "stats"} /\ now = wake /\ wake <= Latest + Period
    <3>1. watcher \notin {"levels", "stats"}
      BY <1>0, <1>1, <2>2 DEF ThreadInv
    <3>2. now = wake
      BY <1>0, <1>1, <2>2 DEF ThreadInv
    <3> QED BY <1>b, <2>2, <3>1, <3>2
  <2>4. \A i \in 1 .. Len(events) + 1 : events'[i] = "ESTATS" => i = Len(events) + 1
    <3>1. ASSUME NEW i \in 1 .. Len(events) + 1, events'[i] = "ESTATS"
          PROVE  i = Len(events) + 1
      <4>1. CASE i \in 1 .. Len(events)
        BY <1>0, <2>1, <2>2, <3>1, <4>1 DEF QueueInv, OneEstats
      <4> QED BY <1>0, <4>1
    <3> QED BY <3>1
  <2>5. Len(events) + 1 \in 1 .. MaxQueue + 1
    BY <1>0, <2>2 DEF QueueInv, OneEstats
  <2>6. ASSUME NEW k \in 1 .. Len(events'), events'[k] = "ESTATS"
        PROVE  now' + left' + Work * (k - 1) <= Latest' + Period + Delay
    <3>1. k \in 1 .. MaxQueue + 1
      BY <2>1, <2>4, <2>5, <2>6
    <3>2. left + Work * (k - 1) <= Delay /\ Work * (k - 1) \in Nat
      BY <1>0, <3>1, AheadBounded
    <3> DEFINE w == Work * (k - 1)
    <3>3. left + w <= Delay /\ w \in Nat
      BY <3>2
    <3> HIDE DEF w
    <3>4. now + left + w <= Latest + Period + Delay
      BY <1>0, <1>1, <2>3, <3>3
    <3> QED BY <1>a, <2>2, <3>4 DEF w
  <2> QED BY <2>2, <2>3, <2>6
<1>4. CASE TakeUpdate
  <2>1. Len(events) >= 1 /\ events[1] = "CONFIG" /\ Len(events') = Len(events) - 1
        /\ \A i \in 1 .. Len(events) - 1 : events'[i] = events[i + 1]
    BY <1>0, <1>4, Positions DEF TakeUpdate
  <2>2. UNCHANGED <<now, since, envoy, last_update, updater, wake>>
        /\ watcher = "idle" /\ watcher' = "load" /\ left = 0
    BY <1>0, <1>4 DEF TakeUpdate, envoyVars, statVars, updaterVars, ThreadInv
  <2>3. left' \in Nat /\ left' <= Work
    <3>1. ThreadInv' /\ ValuesOK'
      BY <1>0, TypeStep, ThreadStep
    <3> QED BY <3>1 DEF ThreadInv, ValuesOK, Work
  <2>4. ASSUME NEW k \in 1 .. Len(events'), events'[k] = "ESTATS"
        PROVE  now' + left' + Work * (k - 1) <= Latest' + Period + Delay
    <3>1. k \in Nat /\ k - 1 \in Nat /\ k + 1 \in 1 .. Len(events) /\ events[k + 1] = "ESTATS"
      BY <1>0, <2>1, <2>4
    <3>2. now + left + Work * ((k + 1) - 1) <= Latest + Period + Delay
      BY <1>b, <2>2, <3>1
    <3>3. (k + 1) - 1 = (k - 1) + 1
      BY <3>1
    <3>4. Work * ((k - 1) + 1) = Work * (k - 1) + Work
      BY <1>0, <3>1, TimesNext
    <3> DEFINE w == Work * (k - 1)
    <3>5. now + left + (w + Work) <= Latest + Period + Delay
      BY <3>2, <3>3, <3>4
    <3>6. w \in Nat
      BY <1>0, <3>1
    <3> HIDE DEF w
    <3>7. now + left' + w <= Latest + Period + Delay
      <4>1. /\ now \in Nat /\ Latest \in Nat /\ Period \in Nat /\ Delay \in Nat /\ Work \in Nat
            /\ left = 0 /\ left' \in Nat /\ left' <= Work
        BY <1>0, <1>1, <2>2, <2>3
      <4>2. Latest + Period + Delay \in Nat
        BY <4>1
      <4>3. now + (w + Work) <= Latest + Period + Delay
        BY <3>5, <3>6, <4>1
      <4> QED BY <3>6, <4>1, <4>2, <4>3, ShorterWait
    <3> QED BY <1>a, <2>2, <3>7 DEF w
  <2> QED BY <1>a, <1>b, <2>2, <2>4
<1>5. CASE TakeEstats
  <2>1. Len(events) >= 1 /\ events[1] = "ESTATS" /\ Len(events') = Len(events) - 1
        /\ \A i \in 1 .. Len(events) - 1 : events'[i] = events[i + 1]
    BY <1>0, <1>5, Positions DEF TakeEstats
  <2>2. UNCHANGED <<now, since, envoy, last_update, left>> /\ watcher' = "levels"
    BY <1>5 DEF TakeEstats, envoyVars, statVars
  <2>3. \A i \in 1 .. Len(events) - 1 : events'[i] # "ESTATS"
    <3>1. ASSUME NEW i \in 1 .. Len(events) - 1, events'[i] = "ESTATS" PROVE FALSE
      <4>1. i + 1 \in 1 .. Len(events) /\ i + 1 # 1 /\ 1 \in 1 .. Len(events)
        BY <1>0
      <4> QED BY <1>0, <2>1, <3>1, <4>1 DEF QueueInv, OneEstats
    <3> QED BY <3>1
  <2>4. now <= Latest + Period + Delay
    <3>1. 1 \in 1 .. Len(events)
      BY <1>0, <2>1
    <3>2. now + left + Work * (1 - 1) <= Latest + Period + Delay
      BY <1>b, <2>1, <2>2, <3>1
    <3>3. Work * (1 - 1) = 0
      BY <1>0
    <3> QED BY <1>0, <1>1, <3>2, <3>3
  <2> QED BY <1>a, <2>1, <2>2, <2>3, <2>4
<1>6. CASE EnvoyChanges
  <2>1. since' = now /\ UNCHANGED <<now, last_update, events, watcher, left, updater, wake>>
    BY <1>6 DEF EnvoyChanges, statVars, updaterVars
  <2>2. Latest' = now
    BY <1>1, <2>1 DEF Latest
  <2>3. updater = "asleep" => wake <= now + Period
    BY <1>0 DEF ThreadInv
  <2>4. ASSUME NEW k \in 1 .. Len(events), events[k] = "ESTATS"
        PROVE  now + left + Work * (k - 1) <= now + Period + Delay
    <3>1. Len(events) <= MaxQueue + 1
      BY <1>0 DEF QueueInv, OneEstats
    <3>2. k \in 1 .. MaxQueue + 1
      BY <1>0, <3>1
    <3>3. left + Work * (k - 1) <= Delay /\ Work * (k - 1) \in Nat
      BY <1>0, <3>2, AheadBounded
    <3> DEFINE w == Work * (k - 1)
    <3>4. left + w <= Delay /\ w \in Nat
      BY <3>3
    <3> HIDE DEF w
    <3>5. now + left + w <= now + Period + Delay
      BY <1>0, <1>1, <3>4
    <3> QED BY <3>5 DEF w
  <2> QED BY <1>0, <1>1, <2>1, <2>2, <2>3, <2>4
<1>7. CASE EnvoyStats
  <2>1. last_update' = now /\ watcher = "stats" /\ watcher' = "idle"
        /\ UNCHANGED <<now, since, envoy, events, updater, wake>>
    BY <1>7 DEF EnvoyStats, envoyVars, updaterVars
  <2>2. Latest' = now
    BY <1>1, <2>1 DEF Latest
  <2>3. updater = "asleep" /\ wake = now + Period
    BY <1>0, <2>1 DEF ThreadInv
  <2>4. \A k \in 1 .. Len(events) : events[k] # "ESTATS"
    BY <1>0, <2>3 DEF QueueInv, OneEstats
  <2> QED BY <1>0, <1>1, <2>1, <2>2, <2>3, <2>4
<1>8. CASE LogLevels
  <2>1. watcher = "levels" /\ watcher' = "stats"
        /\ UNCHANGED <<now, since, envoy, last_update, events, left, updater, wake>>
    BY <1>8 DEF LogLevels, envoyVars, updaterVars
  <2> QED BY <1>a, <1>b, <2>1
<1>9. CASE Unparsable
  BY <1>9 DEF Unparsable, envoyVars
<1>10. CASE EndAccepted
  <2>1. watcher = "load" /\ watcher' = "idle"
        /\ UNCHANGED <<now, since, envoy, last_update, events, left>>
    BY <1>10 DEF EndAccepted, envoyVars, statVars
  <2>2. updater # "none"
    BY <1>0, <2>1 DEF ThreadInv, ValuesOK
  <2>3. UNCHANGED <<updater, wake>>
    BY <1>10, <2>2 DEF EndAccepted
  <2> QED BY <1>a, <1>b, <2>1, <2>3
<1>11. CASE EndRefused
  <2>1. watcher = "load" /\ watcher' = "idle"
        /\ UNCHANGED <<now, since, envoy, last_update, events, left, updater, wake>>
    BY <1>11 DEF EndRefused, envoyVars, statVars, updaterVars
  <2> QED BY <1>a, <1>b, <2>1
<1>12. CASE Tick
  <2>1. now' = now + 1 /\ UNCHANGED <<since, envoy, last_update, events, watcher, updater, wake>>
        /\ ((watcher = "idle" /\ events = <<>>) \/ (watcher = "load" /\ left > 0))
    BY <1>12 DEF Tick, Waiting, envoyVars, statVars, updaterVars
  <2>2. CASE watcher = "idle" /\ events = <<>>
    <3>1. Len(events) = 0
      BY <2>2
    <3> QED BY <1>a, <1>b, <2>1, <2>2, <3>1
  <2>3. CASE watcher = "load" /\ left > 0
    <3>1. left' = left - 1
      BY <1>12, <2>3 DEF Tick
    <3>2. now' + left' = now + left
      BY <1>1, <2>1, <3>1
    <3> QED BY <1>a, <1>b, <2>1, <2>3, <3>2
  <2> QED BY <2>1, <2>2, <2>3
<1>13. CASE UNCHANGED vars
  <2>1. UNCHANGED <<now, since, envoy, last_update, events, watcher, left, updater, wake>>
    BY <1>13 DEF vars
  <2> QED BY <1>a, <1>b, <2>1
<1> QED
  BY <1>2, <1>3, <1>4, <1>5, <1>6, <1>7, <1>8, <1>9, <1>10, <1>11, <1>12, <1>13 DEF Next

(* The inductive invariant is preserved by every step. *)
LEMMA AskStep == ASSUME AskInv, [Next]_vars PROVE AskInv'
<1>1. HeardBefore' /\ QueueInv' /\ ThreadInv' /\ DueInv'
  BY HeardStep, QueueStep, ThreadStep, DueStep DEF AskInv, HeardBefore
<1> QED BY <1>1 DEF AskInv

(* A good Envoy has been heard within the period and the delay.            *)
LEMMA AskedInTime == ASSUME AskInv PROVE AgeBounded
<1>0. /\ ValuesOK /\ HeardBefore /\ QueueInv /\ ThreadInv /\ DueInv
      /\ Work \in Nat /\ Delay \in Nat /\ Period \in Nat
      /\ Len(events) \in Nat
  BY Positions, WorkNat, HealthAssumption DEF AskInv, HeardBefore
<1>1. /\ now \in Nat /\ since \in Nat /\ last_update \in Nat /\ wake \in Nat /\ left \in Nat
      /\ Latest \in Nat /\ Boot <= since
  BY <1>0 DEF HeardBefore, ValuesOK, Latest
<1> SUFFICES ASSUME envoy = "good", now - since > Period + Delay
             PROVE  /\ configured = "yes" /\ last_update # 0
                    /\ now - last_update <= Period + Delay
  BY DEF AgeBounded
<1>2. configured = "yes" /\ updater \in {"asleep", "waiting"}
  BY <1>0 DEF ThreadInv, ValuesOK
<1>3. now <= Latest + Period + Delay
  <2>1. CASE updater = "asleep" /\ watcher \notin {"levels", "stats"}
    <3>1. now <= wake /\ wake <= Latest + Period
      BY <1>0, <2>1 DEF ThreadInv, DueInv
    <3> QED BY <1>0, <1>1, <3>1
  <2>2. CASE watcher \in {"levels", "stats"}
    BY <1>0, <2>2 DEF DueInv
  <2>3. CASE updater = "waiting"
    <3>1. PICK k \in 1 .. Len(events) : events[k] = "ESTATS"
      BY <1>0, <2>3 DEF QueueInv, OneEstats
    <3>2. now + left + Work * (k - 1) <= Latest + Period + Delay
      BY <1>0, <3>1 DEF DueInv
    <3>3. k - 1 \in Nat
      BY <1>0
    <3>4. Work * (k - 1) \in Nat
      BY <1>0, <3>3
    <3> DEFINE w == Work * (k - 1)
    <3>5. now + left + w <= Latest + Period + Delay /\ w \in Nat
      BY <3>2, <3>4
    <3> HIDE DEF w
    <3> QED BY <1>0, <1>1, <3>5
  <2> QED BY <1>2, <2>1, <2>2, <2>3
<1>4. Latest = last_update /\ last_update # 0
  BY <1>0, <1>1, <1>3 DEF Latest, Boot
<1> QED BY <1>0, <1>1, <1>2, <1>3, <1>4

(* The inductive invariant holds initially. *)
LEMMA AskInit == ASSUME Init PROVE AskInv
<1>1. HeardBefore
  BY DEF Init, HeardBefore, ValuesOK, Boot
<1>2. Len(events) = 0 /\ updater = "none"
  BY DEF Init
<1>3. QueueInv
  BY <1>2, HealthAssumption DEF QueueInv, OneEstats
<1>4. ThreadInv
  BY WorkNat DEF Init, ThreadInv
<1>5. DueInv
  BY DEF Init, DueInv
<1> QED BY <1>1, <1>3, <1>4, <1>5 DEF AskInv

(* The state of the checks is well typed: counters and times are natural   *)
(* numbers, each thread is at a known place, and there is never a second   *)
(* ESTATS event in the queue.                                              *)
THEOREM TypeCorrect == Spec => []TypeOK
<1>1. Init => AskInv
  BY AskInit
<1>2. AskInv => TypeOK
  BY DEF AskInv, HeardBefore, QueueInv, TypeOK
<1> QED
  BY <1>1, <1>2, AskStep, PTL DEF Spec

(* What is known about a good Envoy is never older than the updater's      *)
(* period and the updates that can be ahead of its event, with all their   *)
(* validations timing out.                                                 *)
THEOREM HeardInTime == Spec => []AgeBounded
<1>1. Init => AskInv
  BY AskInit
<1>2. AskInv => AgeBounded
  BY AskedInTime
<1> QED
  BY <1>1, <1>2, AskStep, PTL DEF Spec
=============================================================================
