------------------------ MODULE SnapshotFilesProofs ------------------------
(***************************************************************************)
(* Proofs about the snapshot directory, for every bound and every set of   *)
(* values of AMBASSADOR_SNAPSHOT_COUNT.                                    *)
(***************************************************************************)
EXTENDS SnapshotFiles, SequenceTheorems, TLAPS

(* The -tmp files of a load are files the rotation knows. *)
LEMMA WritesType ==
    ASSUME NEW how \in Loaders
    PROVE  Writes(how) \in Seq(FmtSet)
<1>1. <<>> \in Seq(FmtSet) /\ <<"snapshot">> \in Seq(FmtSet)
          /\ <<"aconf", "ir">> \in Seq(FmtSet) /\ <<"econf">> \in Seq(FmtSet)
  BY DEF FmtSet
<1>2. \A s, t \in Seq(FmtSet) : s \o t \in Seq(FmtSet)
  OBVIOUS
<1>3. QED
  BY <1>1, <1>2 DEF Writes

(* Renaming one file keeps the directory well formed. *)
LEMMA RenameType ==
    ASSUME TypeOK, NEW f \in FmtSet, NEW from \in Tmp .. MaxSuffix - 1
    PROVE  RenameFile(f, from) \in [FmtSet -> [Suffixes -> Nat]]
<1>1. from \in Suffixes /\ Target(from) \in Suffixes
  BY SnapAssumption DEF Suffixes, Tmp, Target
<1>2. QED
  BY <1>1 DEF RenameFile, TypeOK

(* diagd starts over a well-formed directory. *)
LEMMA InitType == Init => TypeOK
<1> SUFFICES ASSUME Init PROVE TypeOK
  OBVIOUS
<1>1. booted \in BOOLEAN
  BY Zenon DEF Init
<1>2. file \in [FmtSet -> [Suffixes -> Nat]] /\ pair \in Tmp .. MaxSuffix - 1
  BY SnapAssumption DEF Init, Tmp
<1>3. todo \in Seq(FmtSet) /\ rotated \in Seq(RotatedLoad)
  BY DEF Init
<1>4. QED
  BY <1>1, <1>2, <1>3 DEF Init, TypeOK, Loaders

(* A step from a well-formed directory leads to a well-formed one. *)
LEMMA TypeStep == TypeOK /\ [Next]_vars => TypeOK'
<1> SUFFICES ASSUME TypeOK, [Next]_vars
             PROVE  TypeOK'
  OBVIOUS
<1> USE SnapAssumption DEF TypeOK
<1>1. ASSUME NEW how \in Loaders, StartLoad(how) PROVE TypeOK'
  BY <1>1, WritesType DEF StartLoad
<1>2. CASE WriteTmp
  <2>1. Head(todo) \in FmtSet /\ Tail(todo) \in Seq(FmtSet)
    BY <1>2 DEF WriteTmp
  <2>2. file' \in [FmtSet -> [Suffixes -> Nat]]
    BY <1>2, <2>1 DEF WriteTmp
  <2>3. QED
    BY <1>2, <2>1, <2>2 DEF WriteTmp
<1>3. CASE Abandon
  BY <1>3 DEF Abandon
<1>4. CASE StartRotate
  BY <1>4 DEF StartRotate, FirstPair, Tmp
<1>5. CASE Rename
  <2>1. Fmts[fmtpos] \in FmtSet
    BY DEF Fmts, FmtSet
  <2>2. file' \in [FmtSet -> [Suffixes -> Nat]]
    BY <1>5, <2>1, RenameType DEF Rename
  <2>3. fmtpos' \in 1 .. 4 /\ pair' \in Tmp .. MaxSuffix - 1
          /\ pc' \in {"idle", "load", "rotate"}
    BY <1>5 DEF Rename, Fmts, Tmp
  <2>4. rotated' \in Seq(RotatedLoad)
    <3>1. <<[gen |-> gen, loader |-> loader]>> \in Seq(RotatedLoad)
      BY DEF RotatedLoad
    <3>2. <<[gen |-> gen, loader |-> loader]>> \o rotated \in Seq(RotatedLoad)
      BY <3>1
    <3>3. rotated' = rotated
            \/ rotated' = <<[gen |-> gen, loader |-> loader]>> \o rotated
      BY <1>5 DEF Rename
    <3>4. QED
      BY <3>2, <3>3
  <2>5. QED
    BY <1>5, <2>2, <2>3, <2>4 DEF Rename
<1>6. CASE Crash
  <2>1. snapcount' \in SnapCounts
    BY <1>6 DEF Crash
  <2>2. crashes' \in Nat
    BY <1>6 DEF Crash
  <2>b. booted' \in BOOLEAN
    BY <1>6, Zenon DEF Crash
  <2>3. todo' \in Seq(FmtSet)
    BY <1>6 DEF Crash
  <2>4. UNCHANGED <<file, gen, loader, pair, fmtpos, rotated>>
    BY <1>6 DEF Crash
  <2>5. pc' \in {"idle", "load", "rotate"}
    BY <1>6 DEF Crash
  <2>6. QED
    BY <2>1, <2>2, <2>b, <2>3, <2>4, <2>5
<1>7. CASE UNCHANGED vars
  BY <1>7 DEF vars
<1>8. QED
  BY <1>1, <1>2, <1>3, <1>4, <1>5, <1>6, <1>7 DEF Next

(* Every reachable state of the snapshot directory is well formed: the     *)
(* rotation never renames to a suffix outside the ones it keeps.           *)
THEOREM TypeCorrect == Spec => []TypeOK
<1>1. Init => TypeOK
  BY InitType
<1>2. QED
  BY <1>1, TypeStep, PTL DEF Spec

(* One os.rename moves a file past no other one of its kind. *)
LEMMA RenameOrder ==
    ASSUME IInv, Rename
    PROVE  NewestFirst' /\ NoneFromTheFuture'
<1> DEFINE g == Fmts[fmtpos]
<1>1. g \in FmtSet
  BY DEF IInv, TypeOK, Fmts, FmtSet
<1>2. pair \in Suffixes /\ pair + 1 \in Suffixes /\ pair \in Int
  BY SnapAssumption DEF IInv, TypeOK, Suffixes, Tmp
<1>3. file \in [FmtSet -> [Suffixes -> Nat]] /\ gen \in Nat
  BY DEF IInv, TypeOK
<1>4. pc' # "load" /\ gen' = gen
  BY DEF Rename
<1>5. CASE file[g][pair] = 0
  <2>1. file' = file
    BY <1>5 DEF Rename, RenameFile
  <2>2. QED
    BY <2>1, <1>4 DEF IInv, NewestFirst, NoneFromTheFuture
<1>6. CASE file[g][pair] # 0
  <2>1. file' = [file EXCEPT ![g][pair + 1] = file[g][pair], ![g][pair] = 0]
    BY <1>6 DEF Rename, RenameFile, Target
  <2>2. \A f \in FmtSet, x \in Suffixes :
          file'[f][x] = IF f = g /\ x = pair THEN 0
                        ELSE IF f = g /\ x = pair + 1 THEN file[g][pair]
                        ELSE file[f][x]
    BY <2>1, <1>1, <1>2, <1>3
  <2>3. NoneFromTheFuture'
    BY <2>2, <1>1, <1>2, <1>3, <1>4 DEF IInv, NoneFromTheFuture
  <2>4. ASSUME NEW f \in FmtSet, NEW x \in Suffixes, NEW y \in Suffixes,
               x < y, file'[f][x] # 0, file'[f][y] # 0
        PROVE  file'[f][x] > file'[f][y]
    <3>1. x \in Int /\ y \in Int
      BY DEF Suffixes, Tmp
    <3>2. QED
      BY <2>2, <2>4, <3>1, <1>1, <1>2, <1>3, <1>6 DEF IInv, NewestFirst
  <2>5. QED
    BY <2>3, <2>4 DEF NewestFirst
<1>7. QED
  BY <1>5, <1>6

(* Every step keeps the inductive invariant. *)
LEMMA IInvStep == IInv /\ [Next]_vars => IInv'
<1> SUFFICES ASSUME IInv, [Next]_vars
             PROVE  IInv'
  OBVIOUS
<1>t. TypeOK'
  BY TypeStep DEF IInv
<1>u. file \in [FmtSet -> [Suffixes -> Nat]] /\ gen \in Nat
  BY DEF IInv, TypeOK
<1>s. \A x \in Suffixes : x \in Int
  BY DEF Suffixes, Tmp
<1>1. ASSUME NEW how \in Loaders, StartLoad(how)
      PROVE  NewestFirst' /\ NoneFromTheFuture'
  BY <1>1, <1>u DEF StartLoad, IInv, NewestFirst, NoneFromTheFuture
<1>2. ASSUME WriteTmp PROVE NewestFirst' /\ NoneFromTheFuture'
  <2>1. Head(todo) \in FmtSet
    BY <1>2 DEF WriteTmp, IInv, TypeOK
  <2>2. Tmp \in Suffixes /\ \A x \in Suffixes : Tmp <= x
    BY SnapAssumption DEF Suffixes, Tmp
  <2>3. \A f \in FmtSet, x \in Suffixes :
          file'[f][x] = IF f = Head(todo) /\ x = Tmp THEN gen ELSE file[f][x]
    BY <1>2, <2>1, <2>2, <1>u DEF WriteTmp
  <2>4. pc' = pc /\ gen' = gen /\ pc = "load"
    BY <1>2 DEF WriteTmp
  <2>5. NoneFromTheFuture'
    BY <2>3, <2>4, <1>u DEF IInv, NoneFromTheFuture
  <2>6. ASSUME NEW f \in FmtSet, NEW x \in Suffixes, NEW y \in Suffixes,
               x < y, file'[f][x] # 0, file'[f][y] # 0
        PROVE  file'[f][x] > file'[f][y]
    <3>1. y # Tmp
      BY <2>2, <2>6, <1>s DEF Tmp
    <3>2. file'[f][y] = file[f][y] /\ file[f][y] < gen
      BY <2>3, <2>4, <3>1 DEF IInv, NoneFromTheFuture
    <3>3. QED
      BY <2>3, <2>6, <3>1, <3>2, <1>u DEF IInv, NewestFirst
  <2>7. QED
    BY <2>5, <2>6 DEF NewestFirst
<1>3. ASSUME Abandon PROVE NewestFirst' /\ NoneFromTheFuture'
  BY <1>3 DEF Abandon, IInv, NewestFirst, NoneFromTheFuture
<1>4. ASSUME StartRotate PROVE NewestFirst' /\ NoneFromTheFuture'
  BY <1>4 DEF StartRotate, IInv, NewestFirst, NoneFromTheFuture
<1>5. ASSUME Rename PROVE NewestFirst' /\ NoneFromTheFuture'
  BY <1>5, RenameOrder
<1>6. ASSUME Crash PROVE NewestFirst' /\ NoneFromTheFuture'
  BY <1>6 DEF Crash, IInv, NewestFirst, NoneFromTheFuture
<1>7. ASSUME UNCHANGED vars PROVE NewestFirst' /\ NoneFromTheFuture'
  BY <1>7 DEF vars, IInv, NewestFirst, NoneFromTheFuture
<1>8. QED
  BY <1>t, <1>1, <1>2, <1>3, <1>4, <1>5, <1>6, <1>7 DEF Next, IInv

(* In every reachable state, of two files of one kind the one with the     *)
(* older suffix was written by an earlier load: the rename loop of         *)
(* _load_ir, interrupted anywhere, never puts an old snapshot in the place *)
(* of a new one.                                                           *)
THEOREM NewestFirstAlways == Spec => []NewestFirst
<1>1. Init => IInv
  <2>1. Init => TypeOK
    BY InitType
  <2>2. Init => NoneFromTheFuture /\ NewestFirst
    BY DEF Init, NoneFromTheFuture, NewestFirst
  <2>3. QED
    BY <2>1, <2>2 DEF IInv
<1>2. IInv => NewestFirst
  BY DEF IInv
<1>3. QED
  BY <1>1, <1>2, IInvStep, PTL DEF Spec
-----------------------------------------------------------------------------
(* What the directory should have under a suffix: the files of the load    *)
(* that was rotated in so many loads ago, and under -tmp those of the load *)
(* that is being rotated in.                                               *)
Want(f, j) == IF j < Len(rotated) /\ f \in Written(rotated[j + 1].loader)
              THEN rotated[j + 1].gen ELSE 0

Full(f, x) == IF x = Tmp THEN IF f \in Written(loader) THEN gen ELSE 0 ELSE Want(f, x)

(* Has the rotation renamed f away from suffix x? *)
Done(f) == \E i \in 1 .. fmtpos - 1 : Fmts[i] = f

Moved(f, x) == x < snapcount /\ (x > pair \/ (x = pair /\ Done(f)))

(* Only the first load of a process may be one from the file system, which *)
(* writes no snapshot: so kinds of file that are missing are missing from  *)
(* all older loads as well, and a rename that is skipped leaves nothing    *)
(* behind.                                                                 *)
Loads ==
    /\ \A i \in 1 .. Len(rotated) : /\ rotated[i].gen # 0
                                    /\ rotated[i].loader = "fs" => i = Len(rotated)
    /\ loader = "fs" => Len(rotated) = 0 \/ pc = "idle"
    /\ ~booted => pc = "idle" /\ Len(rotated) = 0 /\ \A f \in FmtSet : file[f][Tmp] = 0
    /\ NoEnvoy => file["econf"][Tmp] = 0
    /\ loader = "fs" => file["snapshot"][Tmp] = 0

Elems(s) == {s[i] : i \in 1 .. Len(s)}

Loading ==
    pc = "load" => /\ gen # 0 /\ Elems(todo) \subseteq Written(loader)
                   /\ \A f \in Written(loader) : f \in Elems(todo) \/ file[f][Tmp] = gen

Rotating ==
    pc = "rotate" =>
        /\ gen # 0 /\ pair < snapcount
        /\ \A f \in FmtSet, x \in Tmp .. snapcount :
               file[f][x] = IF x > Tmp /\ Moved(f, x - 1) THEN Full(f, x - 1)
                            ELSE IF Moved(f, x) THEN 0 ELSE Full(f, x)

Resting == pc # "rotate" => \A f \in FmtSet, j \in 0 .. snapcount : file[f][j] = Want(f, j)

KeepInv == crashes = 0 => Loads /\ Loading /\ Rotating /\ Resting
-----------------------------------------------------------------------------
(* What is in two sequences one after the other. *)
LEMMA ElemsConcat ==
    ASSUME NEW S, NEW s \in Seq(S), NEW t \in Seq(S)
    PROVE  Elems(s \o t) = Elems(s) \cup Elems(t)
<1> DEFINE r == s \o t
<1>1. /\ Len(s) \in Nat /\ Len(t) \in Nat /\ Len(r) = Len(s) + Len(t)
      /\ \A i \in 1 .. Len(r) : r[i] = IF i <= Len(s) THEN s[i] ELSE t[i - Len(s)]
  BY ConcatProperties, LenProperties
<1> HIDE DEF r
<1>2. ASSUME NEW i \in 1 .. Len(r) PROVE r[i] \in Elems(s) \cup Elems(t)
  <2>1. CASE i <= Len(s)
    BY <1>1, <2>1 DEF Elems
  <2>2. CASE ~(i <= Len(s))
    <3>1. i - Len(s) \in 1 .. Len(t)
      BY <1>1, <2>2
    <3> QED BY <1>1, <2>2, <3>1 DEF Elems
  <2> QED BY <2>1, <2>2
<1>3. ASSUME NEW i \in 1 .. Len(s) PROVE s[i] \in Elems(r)
  <2>1. i \in 1 .. Len(r) /\ r[i] = s[i]
    BY <1>1
  <2> QED BY <2>1 DEF Elems
<1>4. ASSUME NEW i \in 1 .. Len(t) PROVE t[i] \in Elems(r)
  <2>1. i + Len(s) \in 1 .. Len(r) /\ ~(i + Len(s) <= Len(s)) /\ (i + Len(s)) - Len(s) = i
    BY <1>1
  <2>2. r[i + Len(s)] = t[i]
    BY <1>1, <2>1
  <2> QED BY <2>1, <2>2 DEF Elems
<1>5. Elems(r) = Elems(s) \cup Elems(t)
  BY <1>2, <1>3, <1>4 DEF Elems
<1> QED BY <1>5 DEF r

(* The kinds of file that a load writes. *)
LEMMA WrittenFacts ==
    /\ Written("fs") = {"aconf", "ir"} \cup (IF NoEnvoy THEN {} ELSE {"econf"})
    /\ \A how \in Loaders \ {"fs"} :
           Written(how) = {"snapshot", "aconf", "ir"} \cup (IF NoEnvoy THEN {} ELSE {"econf"})
    /\ \A how \in Loaders : Written(how) = Elems(Writes(how))
<1> DEFINE e == IF NoEnvoy THEN <<>> ELSE <<"econf">>
           m == <<"aconf", "ir">>
<1>1. /\ <<>> \in Seq(FmtSet) /\ <<"snapshot">> \in Seq(FmtSet)
      /\ m \in Seq(FmtSet) /\ e \in Seq(FmtSet)
  <2>1. /\ <<>> \in Seq(FmtSet) /\ <<"snapshot">> \in Seq(FmtSet)
        /\ m \in Seq(FmtSet) /\ <<"econf">> \in Seq(FmtSet)
    BY DEF FmtSet
  <2> QED BY <2>1
<1>2. /\ Elems(<<>>) = {} /\ Elems(<<"snapshot">>) = {"snapshot"} /\ Elems(m) = {"aconf", "ir"}
  BY DEF Elems
<1>3. Elems(e) = IF NoEnvoy THEN {} ELSE {"econf"}
  <2>1. Elems(<<"econf">>) = {"econf"}
    BY DEF Elems
  <2> QED BY <1>2, <2>1
<1> HIDE DEF e, m
<1>4. \A a \in Seq(FmtSet) : Elems(a \o m \o e) = Elems(a) \cup Elems(m) \cup Elems(e)
  <2> SUFFICES ASSUME NEW a \in Seq(FmtSet)
               PROVE  Elems(a \o m \o e) = Elems(a) \cup Elems(m) \cup Elems(e)
    OBVIOUS
  <2>1. PICK am \in Seq(FmtSet) : am = a \o m
    BY <1>1, ConcatProperties
  <2>2. Elems(am) = Elems(a) \cup Elems(m)
    BY <1>1, <2>1, ElemsConcat
  <2>3. Elems(am \o e) = Elems(am) \cup Elems(e)
    BY <1>1, ElemsConcat
  <2> QED BY <2>1, <2>2, <2>3
<1>5. Writes("fs") = <<>> \o m \o e /\ \A how \in Loaders \ {"fs"} : Writes(how) = <<"snapshot">> \o m \o e
  BY DEF Writes, e, m
<1>6. \A how : Written(how) = Elems(Writes(how))
  BY DEF Written, Elems
<1>7. Elems(<<>> \o m \o e) = {} \cup {"aconf", "ir"} \cup (IF NoEnvoy THEN {} ELSE {"econf"})
  BY <1>1, <1>2, <1>3, <1>4
<1>8. Elems(<<"snapshot">> \o m \o e)
          = {"snapshot"} \cup {"aconf", "ir"} \cup (IF NoEnvoy THEN {} ELSE {"econf"})
  BY <1>1, <1>2, <1>3, <1>4
<1>9. Written("fs") = {"aconf", "ir"} \cup (IF NoEnvoy THEN {} ELSE {"econf"})
  BY <1>5, <1>6, <1>7
<1>10. ASSUME NEW how \in Loaders \ {"fs"}
       PROVE  Written(how) = {"snapshot", "aconf", "ir"} \cup (IF NoEnvoy THEN {} ELSE {"econf"})
  <2>1. Written(how) = {"snapshot"} \cup {"aconf", "ir"} \cup (IF NoEnvoy THEN {} ELSE {"econf"})
    BY <1>5, <1>6, <1>8
  <2> QED BY <2>1
<1> QED BY <1>6, <1>9, <1>10

(* The rotation goes through the kinds of file in turn. *)
LEMMA DoneFacts ==
    ASSUME TypeOK
    PROVE  /\ Fmts[fmtpos] \in FmtSet
           /\ ~Done(Fmts[fmtpos])
           /\ fmtpos = 4 => \A f \in FmtSet : Done(f) \/ f = Fmts[fmtpos]
           /\ fmtpos' = fmtpos + 1 => \A f \in FmtSet : Done(f)' <=> Done(f) \/ f = Fmts[fmtpos]
           /\ fmtpos' = 1 => \A f \in FmtSet : ~Done(f)'
<1>1. fmtpos \in {1, 2, 3, 4}
  BY DEF TypeOK
<1>2. /\ Fmts[1] = "aconf" /\ Fmts[2] = "econf" /\ Fmts[3] = "ir" /\ Fmts[4] = "snapshot"
  BY DEF Fmts
<1>3. Fmts[fmtpos] \in FmtSet /\ ~Done(Fmts[fmtpos])
  BY <1>1, <1>2 DEF Done, FmtSet
<1>4. fmtpos = 4 => \A f \in FmtSet : Done(f) \/ f = Fmts[fmtpos]
  BY <1>2 DEF Done, FmtSet
<1>5. fmtpos' = fmtpos + 1 => \A f \in FmtSet : Done(f)' <=> Done(f) \/ f = Fmts[fmtpos]
  BY <1>1 DEF Done
<1>6. fmtpos' = 1 => \A f \in FmtSet : ~Done(f)'
  BY DEF Done
<1> QED BY <1>3, <1>4, <1>5, <1>6

(* A kind of file that a load did not write is not there from any older    *)
(* load either.                                                            *)
LEMMA MissingBelow ==
    ASSUME TypeOK, Loads, pc = "rotate", gen # 0, NEW f \in FmtSet, NEW x \in Int, Tmp <= x,
           Full(f, x) = 0
    PROVE  Full(f, x + 1) = 0
<1> SUFFICES ASSUME Full(f, x + 1) # 0 PROVE FALSE
  OBVIOUS
<1>1. /\ Len(rotated) \in Nat
      /\ \A i \in 1 .. Len(rotated) : rotated[i].loader \in Loaders
  <2>1. rotated \in Seq(RotatedLoad)
    BY DEF TypeOK
  <2>2. \A i \in 1 .. Len(rotated) : rotated[i] \in RotatedLoad
    BY <2>1, ElementOfSeq
  <2> QED BY <2>1, <2>2, LenProperties DEF RotatedLoad
<1>2. x + 1 < Len(rotated) /\ f \in Written(rotated[x + 2].loader) /\ x + 1 \in Nat
  BY DEF Full, Want, Tmp
<1>3. \A how, other \in Loaders : f \in Written(how) /\ other # "fs" => f \in Written(other)
  BY WrittenFacts
<1>4. CASE x = Tmp
  <2>1. loader # "fs" /\ loader \in Loaders
    BY <1>1, <1>2 DEF Loads, TypeOK
  <2>2. f \in Written(loader)
    BY <1>1, <1>2, <1>3, <2>1
  <2> QED BY <1>4, <2>2 DEF Full
<1>5. CASE x # Tmp
  <2>1. x + 1 \in 1 .. Len(rotated) /\ x + 1 # Len(rotated) /\ x + 2 \in 1 .. Len(rotated)
    BY <1>1, <1>2, <1>5 DEF Tmp
  <2>2. rotated[x + 1].loader # "fs" /\ rotated[x + 1].gen # 0
    BY <2>1 DEF Loads
  <2>3. f \in Written(rotated[x + 1].loader)
    BY <1>1, <1>2, <1>3, <2>1, <2>2
  <2> QED BY <1>1, <1>2, <1>5, <2>2, <2>3 DEF Full, Want, Tmp
<1> QED BY <1>4, <1>5
-----------------------------------------------------------------------------
(* One os.rename does for one kind of file what the rotation is for. *)
LEMMA RenameMoves ==
    ASSUME TypeOK, Loads, Rotating, Rename
    PROVE  LET g == Fmts[fmtpos]
               Then(f, x) == Moved(f, x) \/ (f = g /\ x = pair)
           IN  \A f \in FmtSet, x \in Tmp .. snapcount :
                   file'[f][x] = IF x > Tmp /\ Then(f, x - 1) THEN Full(f, x - 1)
                                 ELSE IF Then(f, x) THEN 0 ELSE Full(f, x)
<1> DEFINE g == Fmts[fmtpos]
           Then(f, x) == Moved(f, x) \/ (f = g /\ x = pair)
<1>1. g \in FmtSet /\ ~Done(g)
  BY DoneFacts
<1>2. /\ pc = "rotate" /\ gen # 0 /\ pair < snapcount /\ pair \in Int /\ Tmp <= pair
      /\ snapcount \in Nat /\ snapcount <= MaxSuffix /\ MaxSuffix \in Nat
  BY SnapAssumption DEF Rename, Rotating, TypeOK, Tmp
<1>3. file \in [FmtSet -> [Suffixes -> Nat]] /\ pair \in Suffixes /\ pair + 1 \in Suffixes
      /\ Tmp .. snapcount \subseteq Suffixes
  BY <1>2 DEF TypeOK, Suffixes, Tmp
<1>4. \A f \in FmtSet, x \in Tmp .. snapcount :
          file[f][x] = IF x > Tmp /\ Moved(f, x - 1) THEN Full(f, x - 1)
                       ELSE IF Moved(f, x) THEN 0 ELSE Full(f, x)
  BY <1>2 DEF Rotating
<1>5. file[g][pair] = Full(g, pair)
  <2>1. ~Moved(g, pair - 1) /\ ~Moved(g, pair) /\ pair \in Tmp .. snapcount
    BY <1>1, <1>2 DEF Moved, Tmp
  <2> QED BY <1>1, <1>4, <2>1
<1>6. Full(g, pair) = 0 => file[g][pair + 1] = 0
  <2>1. ~Moved(g, pair) /\ pair + 1 \in Tmp .. snapcount /\ (pair + 1) - 1 = pair
    BY <1>1, <1>2 DEF Moved, Tmp
  <2>2. file[g][pair + 1] = IF Moved(g, pair + 1) THEN 0 ELSE Full(g, pair + 1)
    BY <1>1, <1>4, <2>1
  <2>3. Full(g, pair) = 0 => Full(g, pair + 1) = 0
    BY <1>1, <1>2, MissingBelow
  <2> QED BY <2>2, <2>3
<1>7. \A f \in FmtSet, x \in Suffixes :
          file'[f][x] = IF f = g /\ x = pair THEN 0
                        ELSE IF f = g /\ x = pair + 1 THEN Full(g, pair)
                        ELSE file[f][x]
  <2>1. CASE file[g][pair] = 0
    <3>1. file' = file
      BY <2>1 DEF Rename, RenameFile
    <3> QED BY <1>5, <1>6, <2>1, <3>1
  <2>2. CASE file[g][pair] # 0
    <3>1. file' = [file EXCEPT ![g][pair + 1] = file[g][pair], ![g][pair] = 0]
      BY <2>2 DEF Rename, RenameFile, Target
    <3> QED BY <1>1, <1>2, <1>3, <1>5, <3>1
  <2> QED BY <2>1, <2>2
<1> HIDE DEF g
<1>8. ASSUME NEW f \in FmtSet, NEW x \in Tmp .. snapcount
      PROVE  file'[f][x] = IF x > Tmp /\ Then(f, x - 1) THEN Full(f, x - 1)
                           ELSE IF Then(f, x) THEN 0 ELSE Full(f, x)
  <2>1. x \in Int /\ x \in Suffixes
    BY <1>3 DEF Tmp
  <2>2. CASE f # g \/ (x # pair /\ x # pair + 1)
    <3>1. file'[f][x] = file[f][x]
      BY <1>7, <2>1, <2>2
    <3>2. (Then(f, x) <=> Moved(f, x)) /\ (Then(f, x - 1) <=> Moved(f, x - 1))
      BY <1>2, <2>1, <2>2
    <3> QED BY <1>4, <3>1, <3>2
  <2>3. CASE f = g /\ x = pair
    <3>1. file'[f][x] = 0
      BY <1>7, <2>1, <2>3
    <3>2. Then(f, x) /\ ~Then(f, x - 1)
      BY <1>2, <2>3 DEF Moved
    <3> QED BY <3>1, <3>2
  <2>4. CASE f = g /\ x = pair + 1
    <3>1. file'[f][x] = Full(g, pair)
      BY <1>2, <1>7, <2>1, <2>4
    <3>2. Then(f, x - 1) /\ x > Tmp /\ x - 1 = pair
      BY <1>2, <2>4 DEF Tmp
    <3> QED BY <2>4, <3>1, <3>2
  <2> QED BY <2>2, <2>3, <2>4
<1> QED BY <1>8 DEF g

(* A load that is put in front is the first, and the others come after it. *)
LEMMA RotatedIn ==
    ASSUME TypeOK, rotated' = <<[gen |-> gen, loader |-> loader]>> \o rotated
    PROVE  /\ Len(rotated) \in Nat /\ Len(rotated') = Len(rotated) + 1
           /\ rotated'[1] = [gen |-> gen, loader |-> loader]
           /\ \A i \in 1 .. Len(rotated) : rotated'[i + 1] = rotated[i]
<1> DEFINE n == [gen |-> gen, loader |-> loader]
<1>1. n \in RotatedLoad /\ rotated \in Seq(RotatedLoad)
  BY DEF TypeOK, RotatedLoad
<1> HIDE DEF n
<1>2. rotated' = <<n>> \o rotated
  BY DEF n
<1>3. <<n>> \in Seq(RotatedLoad) /\ Len(<<n>>) = 1 /\ <<n>>[1] = n /\ Len(rotated) \in Nat
  BY <1>1, LenProperties
<1>4. Len(rotated') = 1 + Len(rotated)
  BY <1>1, <1>2, <1>3, ConcatProperties
<1>5. \A i \in 1 .. Len(rotated') : rotated'[i] = IF i <= 1 THEN <<n>>[i] ELSE rotated[i - 1]
  BY <1>1, <1>2, <1>3, ConcatProperties
<1>6. rotated'[1] = n
  BY <1>3, <1>4, <1>5
<1>7. ASSUME NEW i \in 1 .. Len(rotated) PROVE rotated'[i + 1] = rotated[i]
  <2>1. i + 1 \in 1 .. Len(rotated') /\ ~(i + 1 <= 1) /\ (i + 1) - 1 = i
    BY <1>3, <1>4
  <2> QED BY <1>5, <2>1
<1> QED BY <1>3, <1>4, <1>6, <1>7 DEF n

(* The rotation, step by step. *)
LEMMA RotationStep ==
    ASSUME TypeOK, Loads, Loading, Rotating, Resting, Rename
    PROVE  Loads' /\ Loading' /\ Rotating' /\ Resting'
<1> DEFINE g == Fmts[fmtpos]
           Then(f, x) == Moved(f, x) \/ (f = g /\ x = pair)
<1>1. \A f \in FmtSet, x \in Tmp .. snapcount :
          file'[f][x] = IF x > Tmp /\ Then(f, x - 1) THEN Full(f, x - 1)
                        ELSE IF Then(f, x) THEN 0 ELSE Full(f, x)
  BY RenameMoves
<1>2. /\ pc = "rotate" /\ gen # 0 /\ pair < snapcount /\ pair \in Int /\ Tmp <= pair
      /\ snapcount \in Nat /\ fmtpos \in 1 .. 4 /\ Len(Fmts) = 4
      /\ UNCHANGED <<gen, loader, todo, snapcount, booted, crashes>>
  BY SnapAssumption DEF Rename, Rotating, TypeOK, Tmp, Fmts
<1>3. ASSUME NEW f \in FmtSet, file[f][Tmp] = 0 PROVE file'[f][Tmp] = 0
  <2>1. file \in [FmtSet -> [Suffixes -> Nat]] /\ Tmp \in Suffixes /\ pair + 1 # Tmp
    BY <1>2, SnapAssumption DEF TypeOK, Suffixes, Tmp
  <2>2. \/ file' = file
        \/ file' = [file EXCEPT ![g][pair + 1] = file[g][pair], ![g][pair] = 0]
    BY DEF Rename, RenameFile, Target
  <2>3. pair \in Suffixes /\ pair + 1 \in Suffixes /\ g \in FmtSet
    BY SnapAssumption, DoneFacts DEF TypeOK, Suffixes, Tmp
  <2> HIDE DEF g
  <2> QED BY <1>3, <2>1, <2>2, <2>3
<1>4. "econf" \in FmtSet /\ "snapshot" \in FmtSet
  BY DEF FmtSet
<1>5. CASE fmtpos < 4 \/ pair # Tmp
  <2>1. pc' = "rotate" /\ UNCHANGED rotated
    BY <1>2, <1>5 DEF Rename
  <2>2. pair' < snapcount'
    BY <1>2 DEF Rename
  <2>3. \A f \in FmtSet, x \in Int : Moved(f, x)' <=> Then(f, x) /\ x < snapcount
    <3>1. CASE fmtpos < 4
      <4>1. fmtpos' = fmtpos + 1 /\ pair' = pair
        BY <1>2, <3>1 DEF Rename
      <4>2. \A f \in FmtSet : Done(f)' <=> Done(f) \/ f = g
        BY <4>1, DoneFacts
      <4> HIDE DEF g
      <4> QED BY <1>2, <4>1, <4>2 DEF Moved
    <3>2. CASE ~(fmtpos < 4)
      <4>1. fmtpos = 4 /\ fmtpos' = 1 /\ pair' = pair - 1
        BY <1>2, <1>5, <3>2 DEF Rename
      <4>2. /\ \A f \in FmtSet : Done(f) \/ f = g
            /\ \A f \in FmtSet : ~Done(f)'
        BY <4>1, DoneFacts
      <4> HIDE DEF g
      <4> QED BY <1>2, <4>1, <4>2 DEF Moved
    <3> QED BY <3>1, <3>2
  <2>4. \A f, x : Full(f, x)' = Full(f, x)
    BY <1>2, <2>1 DEF Full, Want
  <2>5. \A f \in FmtSet, x \in Tmp .. snapcount :
            x \in Int /\ x - 1 \in Int /\ x - 1 < snapcount /\ (Then(f, x) => x < snapcount)
    BY <1>2 DEF Tmp, Moved
  <2> HIDE DEF Then
  <2>6. \A f \in FmtSet, x \in Tmp .. snapcount :
            file'[f][x] = IF x > Tmp /\ Moved(f, x - 1)' THEN Full(f, x - 1)'
                          ELSE IF Moved(f, x)' THEN 0 ELSE Full(f, x)'
    BY <1>1, <2>3, <2>4, <2>5
  <2>7. Rotating'
    BY <1>2, <2>2, <2>6 DEF Rotating
  <2>8. Loading' /\ Resting'
    BY <2>1 DEF Loading, Resting
  <2>9. Loads'
    BY <1>2, <1>3, <1>4, <2>1 DEF Loads
  <2> QED BY <2>7, <2>8, <2>9
<1>6. CASE ~(fmtpos < 4 \/ pair # Tmp)
  <2>1. fmtpos = 4 /\ pair = Tmp /\ pc' = "idle"
        /\ rotated' = <<[gen |-> gen, loader |-> loader]>> \o rotated
    BY <1>2, <1>6 DEF Rename
  <2>2. /\ Len(rotated) \in Nat /\ Len(rotated') = Len(rotated) + 1
        /\ rotated'[1] = [gen |-> gen, loader |-> loader]
        /\ \A i \in 1 .. Len(rotated) : rotated'[i + 1] = rotated[i]
    BY <2>1, RotatedIn
  <2>3. rotated'[1].gen = gen /\ rotated'[1].loader = loader
    BY <2>2
  <2>4. Loading' /\ Rotating'
    BY <2>1 DEF Loading, Rotating
  <2>5. Loads'
    <3>1. loader = "fs" => Len(rotated) = 0
      BY <1>2 DEF Loads
    <3>2. ASSUME NEW i \in 1 .. Len(rotated')
          PROVE  rotated'[i].gen # 0 /\ (rotated'[i].loader = "fs" => i = Len(rotated'))
      <4>1. CASE i = 1
        BY <1>2, <2>2, <2>3, <3>1, <4>1
      <4>2. CASE i # 1
        <5>1. i - 1 \in 1 .. Len(rotated) /\ (i - 1) + 1 = i
          BY <2>2, <4>2
        <5>2. rotated'[i] = rotated[i - 1]
          BY <2>2, <5>1
        <5> QED BY <2>2, <5>1, <5>2 DEF Loads
      <4> QED BY <4>1, <4>2
    <3>3. booted
      BY <1>2 DEF Loads
    <3> QED BY <1>2, <1>3, <1>4, <2>1, <3>2, <3>3 DEF Loads
  <2>6. \A f \in FmtSet, x \in Tmp .. snapcount - 1 : Then(f, x)
    <3>1. \A f \in FmtSet : Done(f) \/ f = g
      BY <2>1, DoneFacts
    <3> QED BY <1>2, <2>1, <3>1 DEF Moved, Tmp
  <2>7. \A f \in FmtSet, j \in 0 .. snapcount : file'[f][j] = Full(f, j - 1)
    <3>1. \A j \in 0 .. snapcount : j \in Tmp .. snapcount /\ j > Tmp /\ j - 1 \in Tmp .. snapcount - 1
      BY <1>2 DEF Tmp
    <3> HIDE DEF Then
    <3> QED BY <1>1, <2>6, <3>1
  <2>8. ASSUME NEW f \in FmtSet, NEW j \in 0 .. snapcount PROVE Full(f, j - 1) = Want(f, j)'
    <3>1. CASE j = 0
      <4>1. j - 1 = Tmp /\ j < Len(rotated') /\ j + 1 = 1
        BY <2>2, <3>1 DEF Tmp
      <4>2. Want(f, j)' = IF f \in Written(rotated'[1].loader) THEN rotated'[1].gen ELSE 0
        BY <4>1 DEF Want
      <4> QED BY <2>3, <4>1, <4>2 DEF Full
    <3>2. CASE j # 0
      <4>1. j - 1 # Tmp /\ (j < Len(rotated') <=> j - 1 < Len(rotated)) /\ j \in Nat \ {0}
        BY <1>2, <2>2, <3>2 DEF Tmp
      <4>2. CASE j < Len(rotated')
        <5>1. j \in 1 .. Len(rotated) /\ rotated'[j + 1] = rotated[j] /\ (j - 1) + 1 = j
          BY <2>2, <4>1, <4>2
        <5>2. Want(f, j)' = IF f \in Written(rotated'[j + 1].loader) THEN rotated'[j + 1].gen ELSE 0
          BY <4>2 DEF Want
        <5>3. Full(f, j - 1) = IF f \in Written(rotated[(j - 1) + 1].loader)
                               THEN rotated[(j - 1) + 1].gen ELSE 0
          BY <4>1, <4>2 DEF Full, Want
        <5> QED BY <5>1, <5>2, <5>3
      <4>3. CASE ~(j < Len(rotated'))
        BY <4>1, <4>3 DEF Full, Want
      <4> QED BY <4>2, <4>3
    <3> QED BY <3>1, <3>2
  <2>9. Resting'
    BY <1>2, <2>7, <2>8 DEF Resting
  <2> QED BY <2>4, <2>5, <2>9
<1> QED BY <1>5, <1>6

(* A load begins, writes and is given up or rotated in. *)
LEMMA LoadStep ==
    ASSUME TypeOK, Loads, Loading, Rotating, Resting,
           (\E how \in Loaders : StartLoad(how)) \/ WriteTmp \/ Abandon \/ StartRotate
    PROVE  Loads' /\ Loading' /\ Rotating' /\ Resting'
<1>1. /\ UNCHANGED <<snapcount, rotated>> /\ pc \in {"idle", "load"}
      /\ file \in [FmtSet -> [Suffixes -> Nat]] /\ gen \in Nat /\ snapcount \in Nat
      /\ snapcount <= MaxSuffix /\ MaxSuffix \in Nat /\ loader \in Loaders
  BY SnapAssumption DEF StartLoad, WriteTmp, Abandon, StartRotate, TypeOK
<1>2. Tmp \in Suffixes /\ "econf" \in FmtSet /\ "snapshot" \in FmtSet
      /\ 0 .. snapcount \subseteq Suffixes /\ Tmp \notin 0 .. snapcount
  BY <1>1 DEF Suffixes, Tmp, FmtSet
<1>3. \A f, j : Want(f, j)' = Want(f, j)
  BY <1>1 DEF Want
<1>4. ASSUME NEW how \in Loaders, StartLoad(how)
      PROVE  Loads' /\ Loading' /\ Rotating' /\ Resting'
  <2>1. /\ pc = "idle" /\ pc' = "load" /\ gen' = gen + 1 /\ loader' = how /\ todo' = Writes(how)
        /\ booted' = TRUE /\ file' = file /\ (how = "fs" => ~booted)
    BY <1>4 DEF StartLoad
  <2>2. Loads'
    BY <1>1, <1>2, <2>1 DEF Loads
  <2>3. Loading'
    BY <1>1, <2>1, WrittenFacts DEF Loading, Elems
  <2>4. Rotating' /\ Resting'
    BY <1>1, <1>3, <2>1 DEF Rotating, Resting
  <2> QED BY <2>2, <2>3, <2>4
<1>5. CASE WriteTmp
  <2> DEFINE h == Head(todo)
  <2>1. /\ pc = "load" /\ todo # <<>> /\ todo' = Tail(todo)
        /\ file' = [file EXCEPT ![h][Tmp] = gen]
        /\ UNCHANGED <<gen, loader, pc, booted>>
    BY <1>5 DEF WriteTmp
  <2>2. h \in Elems(todo) /\ h \in FmtSet /\ Elems(todo) \subseteq Elems(todo') \cup {h}
        /\ Elems(todo') \subseteq Elems(todo)
    <3>1. todo \in Seq(FmtSet)
      BY DEF TypeOK
    <3>2. /\ Len(todo) \in Nat \ {0} /\ h = todo[1] /\ h \in FmtSet
          /\ Len(todo') = Len(todo) - 1
          /\ \A i \in 1 .. Len(todo') : todo'[i] = todo[i + 1]
      BY <2>1, <3>1, HeadTailProperties, LenProperties, EmptySeq
    <3>3. ASSUME NEW i \in 1 .. Len(todo) PROVE todo[i] \in Elems(todo') \cup {h}
      <4>1. CASE i = 1
        BY <3>2, <4>1
      <4>2. CASE i # 1
        <5>1. i - 1 \in 1 .. Len(todo') /\ (i - 1) + 1 = i
          BY <3>2, <4>2
        <5>2. todo'[i - 1] = todo[i]
          BY <3>2, <5>1
        <5> QED BY <5>1, <5>2 DEF Elems
      <4> QED BY <4>1, <4>2
    <3>4. \A i \in 1 .. Len(todo') : i + 1 \in 1 .. Len(todo)
      BY <3>2
    <3>5. Elems(todo') \subseteq Elems(todo)
      BY <3>2, <3>4 DEF Elems
    <3>6. h \in Elems(todo)
      BY <3>2 DEF Elems
    <3> QED BY <3>2, <3>3, <3>5, <3>6 DEF Elems
  <2> HIDE DEF h
  <2>3. \A f \in FmtSet, x \in Suffixes :
            file'[f][x] = IF f = h /\ x = Tmp THEN gen ELSE file[f][x]
    BY <1>1, <1>2, <2>1, <2>2
  <2>4. h \in Written(loader)
    BY <2>1, <2>2 DEF Loading
  <2>5. (NoEnvoy => h # "econf") /\ (loader = "fs" => h # "snapshot")
    BY <1>1, <2>4, WrittenFacts DEF Loaders
  <2>6. Loads'
    <3>1. booted
      BY <2>1 DEF Loads
    <3> QED BY <1>1, <1>2, <2>1, <2>3, <2>5, <3>1 DEF Loads
  <2>7. Loading'
    <3>1. Written(loader) \subseteq FmtSet
      BY <1>1, WrittenFacts DEF FmtSet, Loaders
    <3>2. ASSUME NEW f \in Written(loader) PROVE f \in Elems(todo') \/ file'[f][Tmp] = gen
      BY <1>2, <2>1, <2>2, <2>3, <3>1 DEF Loading
    <3>3. Elems(todo)' = Elems(todo')
      BY DEF Elems
    <3> QED BY <2>1, <2>2, <3>2, <3>3 DEF Loading
  <2>8. Rotating' /\ Resting'
    BY <1>1, <1>2, <1>3, <2>1, <2>3 DEF Rotating, Resting
  <2> QED BY <2>6, <2>7, <2>8
<1>6. CASE Abandon
  <2>1. pc' = "idle" /\ UNCHANGED <<file, gen, loader, booted>> /\ pc = "load"
    BY <1>6 DEF Abandon
  <2> QED BY <1>1, <1>3, <2>1 DEF Loads, Loading, Rotating, Resting
<1>7. CASE StartRotate
  <2>1. /\ pc = "load" /\ todo = <<>> /\ pc' = "rotate" /\ pair' = snapcount - 1 /\ fmtpos' = 1
        /\ UNCHANGED <<file, gen, loader, booted>>
    BY <1>7 DEF StartRotate, FirstPair
  <2>2. Loads' /\ Loading' /\ Resting'
    BY <1>1, <2>1 DEF Loads, Loading, Resting
  <2>3. gen # 0 /\ \A f \in Written(loader) : file[f][Tmp] = gen
    BY <2>1 DEF Loading, Elems
  <2>4. ASSUME NEW f \in FmtSet, f \notin Written(loader) PROVE file[f][Tmp] = 0
    <3>1. (f = "econf" /\ NoEnvoy) \/ (f = "snapshot" /\ loader = "fs")
      BY <1>1, <2>4, WrittenFacts DEF FmtSet, Loaders
    <3> QED BY <3>1 DEF Loads
  <2>5. \A f \in FmtSet, x \in Tmp .. snapcount : file[f][x] = Full(f, x)'
    <3>1. \A x \in Tmp .. snapcount : x = Tmp \/ x \in 0 .. snapcount
      BY <1>1 DEF Tmp
    <3>2. \A f \in FmtSet, j \in 0 .. snapcount : file[f][j] = Want(f, j)
      BY <2>1 DEF Resting
    <3> QED BY <1>2, <1>3, <2>1, <2>3, <2>4, <3>1, <3>2 DEF Full
  <2>6. \A f \in FmtSet, x \in Tmp .. snapcount : ~Moved(f, x)' /\ ~Moved(f, x - 1)'
    BY <1>1, <2>1 DEF Moved, Done, Tmp
  <2>7. Rotating'
    BY <1>1, <2>1, <2>3, <2>5, <2>6 DEF Rotating
  <2> QED BY <2>2, <2>7
<1> QED BY <1>4, <1>5, <1>6, <1>7

(* Between two loads the directory has the files of the latest loads       *)
(* accepted, each under its own suffix, and no others.                     *)
THEOREM RetentionAlways == Spec => []Retention
<1>1. Init => KeepInv
  <2> SUFFICES ASSUME Init PROVE KeepInv
    OBVIOUS
  <2>1. /\ \A f \in FmtSet, x \in Suffixes : file[f][x] = 0
        /\ rotated = <<>> /\ Len(rotated) = 0 /\ pc = "idle" /\ snapcount \in Nat
        /\ 0 .. snapcount \subseteq Suffixes /\ Tmp \in Suffixes
    BY SnapAssumption DEF Init, Suffixes, Tmp
  <2>2. "econf" \in FmtSet /\ "snapshot" \in FmtSet
    BY DEF FmtSet
  <2> QED BY <2>1, <2>2 DEF KeepInv, Loads, Loading, Rotating, Resting, Want
<1>2. TypeOK /\ KeepInv /\ [Next]_vars => KeepInv'
  <2> SUFFICES ASSUME TypeOK, KeepInv, [Next]_vars, crashes' = 0
               PROVE  Loads' /\ Loading' /\ Rotating' /\ Resting'
    BY DEF KeepInv
  <2>1. ~Crash
    BY DEF Crash, TypeOK
  <2>2. crashes = 0
    BY <2>1 DEF Next, StartLoad, WriteTmp, Abandon, StartRotate, Rename, vars
  <2>3. Loads /\ Loading /\ Rotating /\ Resting
    BY <2>2 DEF KeepInv
  <2>4. CASE UNCHANGED vars
    <3>1. Loads' /\ Loading'
      BY <2>3, <2>4 DEF vars, Loads, Loading, Elems
    <3>2. /\ \A f, x : (Moved(f, x)' <=> Moved(f, x)) /\ Full(f, x)' = Full(f, x)
          /\ \A f, x : Want(f, x)' = Want(f, x)
      BY <2>4 DEF vars, Moved, Done, Full, Want
    <3>3. Rotating' /\ Resting'
      BY <2>3, <2>4, <3>2 DEF vars, Rotating, Resting
    <3> QED BY <3>1, <3>3
  <2> QED BY <2>1, <2>3, <2>4, LoadStep, RotationStep DEF Next
<1>3. KeepInv => Retention
  BY DEF KeepInv, Resting, Want, Retention
<1> QED BY <1>1, <1>2, <1>3, TypeCorrect, PTL DEF Spec
=============================================================================
