-------------------------- MODULE SupervisorProofs --------------------------
(***************************************************************************)
(* Theorems about Supervisor, for any set of pids and any number of kicks, *)
(* pings and restarts.                                                     *)
(***************************************************************************)
EXTENDS Supervisor, TLAPS

(* Spawning and ending processes keep the table a table. *)
LEMMA SpawnType ==
    ASSUME table \in [Pids -> Processes], NEW name \in Processes,
           Spawn(name) \/ End(name)
    PROVE  table' \in [Pids -> Processes]
  BY DEF Spawn, End, Processes

(* Every step of the shell keeps the types. *)
LEMMA ShellType == ASSUME TypeOK, Shell PROVE TypeOK'
<1> USE SupervisorAssumption
<1>0. Workers \subseteq Processes /\ "ambex" \in Workers /\ "diagd" \in Workers /\ "watt" \in Workers
  BY DEF Workers, Processes
<1>1. CASE LaunchAmbex
  <2>1. table' \in [Pids -> Processes]
    BY <1>0, <1>1, SpawnType DEF LaunchAmbex, launch, TypeOK
  <2> QED BY <1>0, <1>1, <2>1 DEF LaunchAmbex, launch, TypeOK, kickVars
<1>2. CASE LaunchDiagd
  <2>1. table' \in [Pids -> Processes]
    BY <1>0, <1>2, SpawnType DEF LaunchDiagd, launch, TypeOK
  <2> QED BY <1>0, <1>2, <2>1 DEF LaunchDiagd, launch, TypeOK, kickVars
<1>3. CASE LaunchWatt
  <2>1. table' \in [Pids -> Processes]
    BY <1>0, <1>3, SpawnType DEF LaunchWatt, launch, TypeOK
  <2> QED BY <1>0, <1>3, <2>1 DEF LaunchWatt, launch, TypeOK, kickVars
<1>4. CASE PingFails
  <2>1. delay' \in 1 .. 10
    BY <1>4 DEF PingFails, Backoff, TypeOK
  <2>2. tries_left' \in 0 .. Tries
    BY <1>4 DEF PingFails, TypeOK
  <2> QED BY <1>4, <2>1, <2>2 DEF PingFails, TypeOK, jobVars, kickVars
<1>5. CASE PingDone \/ NoWatt \/ WaitFails
  BY <1>5 DEF PingDone, NoWatt, WaitFails, TypeOK, jobVars, kickVars
<1>6. CASE WaitReturns \/ Reap
  BY <1>6 DEF WaitReturns, Reap, Collect, TypeOK, kickVars
<1>7. CASE KillJobs
  BY <1>7 DEF KillJobs, TypeOK, kickVars
<1>8. CASE Exit
  BY <1>8 DEF Exit, TypeOK, Processes
<1> QED
  BY <1>1, <1>2, <1>3, <1>4, <1>5, <1>6, <1>7, <1>8 DEF Shell

(* ... and so does every step of kick_ads.sh ... *)
LEMMA KickType == ASSUME TypeOK, Kick PROVE TypeOK'
<1> USE SupervisorAssumption
<1>1. CASE KickCheck
  BY <1>1 DEF KickCheck, TypeOK, shellVars, jobVars
<1>2. CASE KickStart
  <2>1. PICK pid \in Pids : table' = [table EXCEPT ![pid] = "envoy"] /\ envoy_pid' = pid
    BY <1>2 DEF KickStart
  <2>2. table' \in [Pids -> Processes] /\ envoy_pid' \in Nat
    BY <2>1 DEF TypeOK, Processes
  <2> QED BY <1>2, <2>2 DEF KickStart, TypeOK, shellVars, jobVars
<1>3. CASE KickWrite
  BY <1>3 DEF KickWrite, TypeOK, shellVars, jobVars
<1>4. CASE KickHup
  BY <1>4 DEF KickHup, TypeOK, shellVars, jobVars
<1> QED
  BY <1>1, <1>2, <1>3, <1>4 DEF Kick

(* ... and of the other processes. *)
LEMMA TypeStep == ASSUME TypeOK, [Next]_vars PROVE TypeOK'
<1> USE SupervisorAssumption
<1>1. CASE Shell
  BY <1>1, ShellType
<1>2. CASE Kick
  BY <1>2, KickType
<1>3. ASSUME NEW w \in Workers, Die(w) PROVE TypeOK'
  <2>1. table' \in [Pids -> Processes]
    BY <1>3, SpawnType DEF Die, TypeOK, Workers, Processes
  <2>2. w \in jobs
    BY <1>3 DEF Die, Running
  <2>3. jobs' \subseteq Workers /\ dead' \subseteq jobs'
    BY <1>3, <2>2 DEF Die, Running, TypeOK
  <2> QED BY <1>3, <2>1, <2>3 DEF Die, TypeOK, shellVars, kickVars
<1>4. CASE DiagdListens \/ DiagdServes
  BY <1>4 DEF DiagdListens, DiagdServes, TypeOK, shellVars, kickVars
<1>5. CASE EnvoyDies \/ OtherStarts \/ OtherEnds
  <2>1. table' \in [Pids -> Processes]
    BY <1>5, SpawnType DEF EnvoyDies, OtherStarts, OtherEnds, TypeOK, Processes
  <2>2. UNCHANGED <<shellVars, jobVars, kickVars>>
    BY <1>5 DEF EnvoyDies, OtherStarts, OtherEnds
  <2> QED BY <2>1, <2>2 DEF TypeOK, shellVars, jobVars, kickVars
<1>6. CASE Restart
  BY <1>6 DEF Restart, TypeOK
<1>7. CASE UNCHANGED vars
  BY <1>7 DEF vars, TypeOK
<1> QED
  BY <1>1, <1>2, <1>3, <1>4, <1>5, <1>6, <1>7 DEF Next

(* The shell's, the jobs' and the kick's state is well typed; the delay    *)
(* between two pings stays between 1 and 10 seconds.                       *)
THEOREM TypeCorrect == Spec => []TypeOK
<1>1. Init => TypeOK
  BY SupervisorAssumption DEF Init, TypeOK, Processes
<1> QED
  BY <1>1, TypeStep, PTL DEF Spec

(* A process other than Envoy comes or goes: no Envoy is added. *)
LEMMA NoNewEnvoy ==
    ASSUME TypeOK, NEW name, name # "envoy", Spawn(name) \/ End(name)
    PROVE  EnvoyPids' \subseteq EnvoyPids
  BY DEF Spawn, End, EnvoyPids, TypeOK

LEMMA EnvoyEnds ==
    ASSUME TypeOK, NEW name, End(name)
    PROVE  EnvoyPids' \subseteq EnvoyPids
  BY DEF End, EnvoyPids, TypeOK

(* Where Envoy's pid is known to be, step by step. *)
LEMMA FileStep == ASSUME TypeOK, EnvoyInFile, [Next]_vars PROVE EnvoyInFile'
<1>1. ASSUME EnvoyPids' \subseteq EnvoyPids, UNCHANGED <<kick, envoy_pid, pidfile>>,
             entry' = "exited" => entry = "exited" /\ jobs' \subseteq jobs
      PROVE  EnvoyInFile'
  BY <1>1 DEF EnvoyInFile
<1>2. CASE LaunchAmbex \/ LaunchDiagd \/ LaunchWatt
  <2>1. EnvoyPids' \subseteq EnvoyPids
    BY <1>2, NoNewEnvoy DEF LaunchAmbex, LaunchDiagd, LaunchWatt, launch
  <2>2. UNCHANGED <<kick, envoy_pid, pidfile>> /\ entry' # "exited"
    BY <1>2 DEF LaunchAmbex, LaunchDiagd, LaunchWatt, launch, kickVars
  <2> QED BY <1>1, <2>1, <2>2
<1>3. CASE PingFails \/ PingDone \/ NoWatt \/ WaitFails \/ WaitReturns \/ Reap \/ KillJobs
  <2>1. UNCHANGED <<table, kick, envoy_pid, pidfile>> /\ entry' # "exited"
    BY <1>3 DEF PingFails, PingDone, NoWatt, WaitFails, WaitReturns, Reap, Collect,
                KillJobs, kickVars
  <2>2. EnvoyPids' = EnvoyPids
    BY <2>1 DEF EnvoyPids
  <2> QED BY <1>1, <2>1, <2>2
<1>4. CASE Exit
  <2>1. EnvoyPids' = {}
    BY <1>4 DEF Exit, EnvoyPids
  <2> QED BY <1>4, <2>1 DEF Exit, EnvoyInFile
<1>5. CASE KickCheck
  <2>1. table' = table /\ EnvoyPids' = EnvoyPids /\ UNCHANGED <<envoy_pid, pidfile, entry, jobs>>
    BY <1>5 DEF KickCheck, EnvoyPids, shellVars, jobVars
  <2>2. kick = "none" /\ jobs # {} /\ kick' # "write"
    BY <1>5 DEF KickCheck, Running
  <2>3. kick' = "start" => EnvoyPids = {}
    <3>1. SUFFICES ASSUME ~PidAlive, NEW pid \in EnvoyPids PROVE FALSE
      BY <1>5 DEF KickCheck
    <3>2. pid = pidfile /\ pid \in Pids /\ table[pid] = "envoy"
      BY <2>2, <3>1 DEF EnvoyInFile, EnvoyPids
    <3> QED BY <3>1, <3>2 DEF PidAlive
  <2> QED BY <2>1, <2>2, <2>3 DEF EnvoyInFile
<1>6. CASE KickStart
  <2>1. PICK pid \in Pids : table' = [table EXCEPT ![pid] = "envoy"] /\ envoy_pid' = pid
    BY <1>6 DEF KickStart
  <2>2. kick = "start" /\ kick' = "write" /\ entry' = entry
    BY <1>6 DEF KickStart, shellVars
  <2>3. EnvoyPids = {} /\ entry # "exited"
    BY <2>2 DEF EnvoyInFile
  <2>4. EnvoyPids' \subseteq {pid}
    BY <2>1, <2>3 DEF EnvoyPids, TypeOK
  <2> QED BY <2>1, <2>2, <2>3, <2>4 DEF EnvoyInFile
<1>7. CASE KickWrite \/ KickHup
  <2>1. EnvoyPids' = EnvoyPids /\ UNCHANGED <<entry, jobs>>
    BY <1>7 DEF KickWrite, KickHup, EnvoyPids, shellVars, jobVars
  <2>2. \/ kick = "write" /\ kick' = "hup" /\ pidfile' = envoy_pid
        \/ kick = "hup" /\ kick' = "none" /\ pidfile' = pidfile
    BY <1>7 DEF KickWrite, KickHup
  <2> QED BY <2>1, <2>2 DEF EnvoyInFile
<1>8. CASE \E w \in Workers : Die(w)
  <2>1. PICK w \in Workers : Die(w)
    BY <1>8
  <2>2. EnvoyPids' \subseteq EnvoyPids
    BY <2>1, EnvoyEnds DEF Die
  <2>3. UNCHANGED <<kick, envoy_pid, pidfile, entry>> /\ jobs' \subseteq jobs
    BY <2>1 DEF Die, shellVars, kickVars
  <2> QED BY <1>1, <2>2, <2>3
<1>9. CASE EnvoyDies \/ OtherEnds \/ OtherStarts
  <2>1. EnvoyPids' \subseteq EnvoyPids
    BY <1>9, EnvoyEnds, NoNewEnvoy DEF EnvoyDies, OtherEnds, OtherStarts
  <2>2. UNCHANGED <<kick, envoy_pid, pidfile, entry, jobs>>
    BY <1>9 DEF EnvoyDies, OtherEnds, OtherStarts, shellVars, jobVars, kickVars
  <2> QED BY <1>1, <2>1, <2>2
<1>10. CASE DiagdListens \/ DiagdServes \/ UNCHANGED vars
  <2>1. UNCHANGED <<table, kick, envoy_pid, pidfile, entry, jobs>>
    BY <1>10 DEF DiagdListens, DiagdServes, shellVars, kickVars, vars
  <2>2. EnvoyPids' = EnvoyPids
    BY <2>1 DEF EnvoyPids
  <2> QED BY <1>1, <2>1, <2>2
<1>11. CASE Restart
  <2>1. EnvoyPids' = {} /\ kick' = "none" /\ entry' = "ambex"
    BY <1>11 DEF Restart, EnvoyInFile, EnvoyPids
  <2> QED BY <2>1 DEF EnvoyInFile
<1> QED
  BY <1>2, <1>3, <1>4, <1>5, <1>6, <1>7, <1>8, <1>9, <1>10, <1>11 DEF Next, Shell, Kick

(* kick_ads.sh never starts a second Envoy beside a running one, whatever  *)
(* dies in between and whichever processes take over pids.                 *)
THEOREM OneEnvoyAlways == Spec => []OneEnvoy
<1>1. Init => TypeOK /\ EnvoyInFile
  <2>1. Init => TypeOK
    BY SupervisorAssumption DEF Init, TypeOK, Processes
  <2>2. Init => EnvoyInFile
    BY DEF Init, EnvoyInFile, EnvoyPids
  <2> QED BY <2>1, <2>2
<1>2. TypeOK /\ EnvoyInFile /\ [Next]_vars => TypeOK' /\ EnvoyInFile'
  BY TypeStep, FileStep
<1>3. EnvoyInFile => OneEnvoy
  BY DEF EnvoyInFile, OneEnvoy
<1> QED
  BY <1>1, <1>2, <1>3, PTL DEF Spec
=============================================================================
