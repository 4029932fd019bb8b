--------------------------- MODULE SnapshotFiles ---------------------------
(***************************************************************************)
(* The snapshot directory of diagd (AmbassadorEventWatcher._load_ir and    *)
(* the loaders that call it).  Every load writes "-tmp" files as it goes:  *)
(* the input (snapshot), the parsed configuration (aconf), the IR (ir) and *)
(* the Envoy configuration that was validated (econf).  A load that gets   *)
(* past the validation renames every numbered file one suffix up, the      *)
(* current file to "-1" and the "-tmp" file to the current name, one       *)
(* os.rename at a time.  A load that fails leaves its "-tmp" files behind, *)
(* and diagd can be killed between any two system calls; the directory may *)
(* outlive the process, and AMBASSADOR_SNAPSHOT_COUNT may differ in the    *)
(* next one.                                                               *)
(*                                                                         *)
(* A file is modelled by the number of the load that wrote it, 0 when it   *)
(* does not exist.  Suffix "-tmp" is Tmp = -1, "" is 0 and "-j" is j.      *)
(***************************************************************************)
EXTENDS Integers, Sequences

CONSTANTS SnapCounts,   \* possible values of AMBASSADOR_SNAPSHOT_COUNT
          MaxSuffix,    \* no value of SnapCounts is larger
          NoEnvoy,      \* diagd --no-envoy: nothing is validated
          MaxLoads,     \* bound on the number of loads
          MaxCrashes    \* bound on the number of restarts of diagd

ASSUME SnapAssumption ==
    /\ MaxSuffix \in Nat
    /\ SnapCounts \subseteq 0 .. MaxSuffix
    /\ SnapCounts # {}
    /\ NoEnvoy \in BOOLEAN
    /\ MaxLoads \in Nat
    /\ MaxCrashes \in Nat

VARIABLES file,       \* file[fmt][suffix]: the load that wrote it, or 0
          gen,        \* number of the latest load
          loader,     \* which load_config_* the latest load came from
          pc,         \* what the watcher thread is doing
          todo,       \* -tmp files the load has still to write, in order
          pair,       \* the suffix being renamed away from
          fmtpos,     \* position in Fmts of the file to rename next
          snapcount,  \* AMBASSADOR_SNAPSHOT_COUNT of this process
          booted,     \* has this process started loading anything?
          rotated,    \* history: the loads rotated in, latest first
          crashes

vars == <<file, gen, loader, pc, todo, pair, fmtpos, snapcount, booted,
          rotated, crashes>>

Tmp == -1

Suffixes == Tmp .. MaxSuffix

(* The order of the inner rotation loop. *)
Fmts == <<"aconf", "econf", "ir", "snapshot">>

FmtSet == {"aconf", "econf", "ir", "snapshot"}

Loaders == {"fs", "kubewatch", "watt"}

RotatedLoad == [gen : Nat, loader : Loaders]

(* The -tmp files a load writes, in the order it writes them: kubewatch    *)
(* and watt save their input first, load_config_fs saves none, and         *)
(* validate_envoy_config writes econf-tmp only when there is an Envoy.     *)
Writes(how) ==
    (IF how = "fs" THEN <<>> ELSE <<"snapshot">>)
        \o <<"aconf", "ir">>
        \o (IF NoEnvoy THEN <<>> ELSE <<"econf">>)

Written(how) == {Writes(how)[i] : i \in 1 .. Len(Writes(how))}
-----------------------------------------------------------------------------
Init ==
    /\ file = [f \in FmtSet |-> [x \in Suffixes |-> 0]]
    /\ gen = 0
    /\ loader = "fs"
    /\ pc = "idle"
    /\ todo = <<>>
    /\ pair = Tmp
    /\ fmtpos = 1
    /\ snapcount \in SnapCounts
    /\ booted = FALSE
    /\ rotated = <<>>
    /\ crashes = 0

(* A CONFIG or CONFIG_FS event is taken off the queue.  The filesystem is  *)
(* only ever loaded at boot, before diagd serves anything else.            *)
StartLoad(how) ==
    /\ pc = "idle"
    /\ gen < MaxLoads
    /\ how = "fs" => ~booted
    /\ booted' = TRUE
    /\ gen' = gen + 1
    /\ loader' = how
    /\ todo' = Writes(how)
    /\ pc' = "load"
    /\ UNCHANGED <<file, pair, fmtpos, snapcount, rotated, crashes>>

(* The load writes its next -tmp file. *)
WriteTmp ==
    /\ pc = "load"
    /\ todo # <<>>
    /\ file' = [file EXCEPT ![Head(todo)][Tmp] = gen]
    /\ todo' = Tail(todo)
    /\ UNCHANGED <<gen, loader, pc, pair, fmtpos, snapcount, booted, rotated,
                   crashes>>

(* An exception anywhere in the load, or (once everything is written) a    *)
(* configuration Envoy does not accept: what was written stays.            *)
Abandon ==
    /\ pc = "load"
    /\ pc' = "idle"
    /\ todo' = <<>>
    /\ UNCHANGED <<file, gen, loader, pair, fmtpos, snapcount, booted,
                   rotated, crashes>>

(* Mistakes in the bounds of the range that builds snaplist. *)
FirstPairTooFar == snapcount

FirstPairTooNear == IF snapcount > 1 THEN snapcount - 2 ELSE snapcount - 1

(* The first suffix that snaplist renames away from: -(snapcount-1) when   *)
(* anything is rotated, -tmp when snapcount is 0.                          *)
FirstPair == snapcount - 1

(* Validation succeeded: the rename loop starts. *)
StartRotate ==
    /\ pc = "load"
    /\ todo = <<>>
    /\ pc' = "rotate"
    /\ pair' = FirstPair
    /\ fmtpos' = 1
    /\ UNCHANGED <<file, gen, loader, todo, snapcount, booted, rotated,
                   crashes>>

(* snaplist pairs every suffix with the next older one. *)
Target(from) == from + 1

(* A mistake: the file is copied, and the source stays. *)
CopyFile(f, from) ==
    IF file[f][from] = 0
    THEN file
    ELSE [file EXCEPT ![f][Target(from)] = file[f][from]]

(* os.rename replaces the target; a missing source only logs "skip". *)
RenameFile(f, from) ==
    IF file[f][from] = 0
    THEN file
    ELSE [file EXCEPT ![f][Target(from)] = file[f][from], ![f][from] = 0]

(* One os.rename of the nested rotation loop; the last one of the -tmp     *)
(* pair ends the rotation.                                                 *)
Rename ==
    /\ pc = "rotate"
    /\ file' = RenameFile(Fmts[fmtpos], pair)
    /\ IF fmtpos < Len(Fmts)
       THEN /\ fmtpos' = fmtpos + 1
            /\ UNCHANGED <<pair, pc, rotated>>
       ELSE /\ fmtpos' = 1
            /\ IF pair = Tmp
               THEN /\ pc' = "idle"
                    /\ rotated' = <<[gen |-> gen, loader |-> loader]>> \o rotated
                    /\ UNCHANGED pair
               ELSE /\ pair' = pair - 1
                    /\ UNCHANGED <<pc, rotated>>
    /\ UNCHANGED <<gen, loader, todo, snapcount, booted, crashes>>

(* diagd is killed and started again over the same directory. *)
Crash ==
    /\ crashes < MaxCrashes
    /\ crashes' = crashes + 1
    /\ pc' = "idle"
    /\ todo' = <<>>
    /\ booted' = FALSE
    /\ snapcount' \in SnapCounts
    /\ UNCHANGED <<file, gen, loader, pair, fmtpos, rotated>>

Next ==
    \/ \E how \in Loaders : StartLoad(how)
    \/ WriteTmp
    \/ Abandon
    \/ StartRotate
    \/ Rename
    \/ Crash

Spec == Init /\ [][Next]_vars
-----------------------------------------------------------------------------
TypeOK ==
    /\ file \in [FmtSet -> [Suffixes -> Nat]]
    /\ gen \in Nat
    /\ loader \in Loaders
    /\ pc \in {"idle", "load", "rotate"}
    /\ todo \in Seq(FmtSet)
    /\ pair \in Tmp .. MaxSuffix - 1
    /\ fmtpos \in 1 .. 4
    /\ snapcount \in SnapCounts
    /\ booted \in BOOLEAN
    /\ rotated \in Seq(RotatedLoad)
    /\ crashes \in Nat

(* An older suffix never holds a newer file: for every kind of file, of    *)
(* two that exist the one with the higher number was written by an earlier *)
(* load, whatever failed loads, restarts in the middle of the rename loop  *)
(* and changes of AMBASSADOR_SNAPSHOT_COUNT came before.                   *)
NewestFirst ==
    \A f \in FmtSet : \A x, y \in Suffixes :
        x < y /\ file[f][x] # 0 /\ file[f][y] # 0 => file[f][x] > file[f][y]

(* No file comes from a load that has not started, and while a load is     *)
(* writing, only -tmp files are its own.                                   *)
NoneFromTheFuture ==
    \A f \in FmtSet, x \in Suffixes :
        /\ file[f][x] <= gen
        /\ pc = "load" /\ x # Tmp => file[f][x] < gen

(* The inductive form of NewestFirst. *)
IInv == TypeOK /\ NoneFromTheFuture /\ NewestFirst

(* What CHANGELOG.md says of the directory, for a process that was not     *)
(* restarted: between two loads the file without a suffix is that of the   *)
(* latest configuration accepted and "-j" that of the one j updates        *)
(* before, up to snapcount, and a load that did not write a kind of file   *)
(* leaves none of that kind instead of someone else's.                     *)
Retention ==
    (pc = "idle" /\ crashes = 0) =>
        \A f \in FmtSet, j \in 0 .. snapcount :
            file[f][j] = IF j < Len(rotated) /\ f \in Written(rotated[j + 1].loader)
                         THEN rotated[j + 1].gen
                         ELSE 0
=============================================================================
