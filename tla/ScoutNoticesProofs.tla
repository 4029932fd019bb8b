------------------------ MODULE ScoutNoticesProofs ------------------------
(***************************************************************************)
(* Proofs that the local notices are always shown, once, and that the list *)
(* of notices stays short, whatever the reporters and the pages do to it.  *)
(***************************************************************************)
EXTENDS ScoutNotices, FiniteSetTheorems, SequenceTheorems, TLAPS

NoticeType == [by : Pages \cup {"local", "scout"}, what : {"file", "loglevel", "diag", "report"}]

Tags == {"idle", "reset", "report", "contact", "store_time", "store_result", "post", "dead"}

TypeInv ==
    /\ notices \in Seq(NoticeType)
    /\ events \in Seq(Pages)
    /\ page \in [Pages -> {"idle", "waiting", "collect", "post", "render"}]
    /\ job \in [Reporters -> Tags]

(* How many notices of a list come from somebody in B. *)
Posts(list, B) == {i \in 1 .. Len(list) : list[i].by \in B}

Count(list, B) == Cardinality(Posts(list, B))

(* A reporter that has reset the list and has not posted to it since. *)
Working(r) == IF job[r] \in {"report", "contact", "store_time", "store_result", "post"} THEN 1 ELSE 0

At(s) == {p \in Pages : page[p] = s}

(* What pages may yet post. *)
Pending == 2 * Cardinality(At("collect")) + Cardinality(At("post"))

(* What a page that the watcher answers may post before the reset. *)
Credit == IF job["watcher"] = "reset" THEN 2 ELSE 0

(* Two resets are never further apart than the watcher's way from one page *)
(* to the next: what pages have posted, and may yet post, was there before *)
(* the last reset or comes from each page at most twice, except for a page *)
(* that the watcher has answered and not yet reset the list for.           *)
Balance ==
    /\ Count(notices, {"local"}) = 1
    /\ Count(notices, {"scout"}) + Working("watcher") + Working("checker") <= 2
    /\ Count(notices, Pages) + Pending <= 2 * Cardinality(Pages) + Credit
-----------------------------------------------------------------------------
(* The notices from B are finitely many. *)
LEMMA CountType ==
    ASSUME NEW S, NEW list \in Seq(S), NEW B
    PROVE  /\ IsFiniteSet(Posts(list, B))
           /\ Count(list, B) \in Nat
           /\ Len(list) \in Nat
<1>1. Len(list) \in Nat
  BY LenProperties
<1>2. IsFiniteSet(1 .. Len(list))
  BY <1>1, FS_Interval
<1>3. IsFiniteSet(Posts(list, B))
  BY <1>2, FS_Subset DEF Posts
<1> QED BY <1>1, <1>3, FS_CardinalityType DEF Count

(* A notice that is appended counts for one. *)
LEMMA CountAppend ==
    ASSUME NEW list \in Seq(NoticeType), NEW n \in NoticeType, NEW B
    PROVE  Count(Append(list, n), B) = Count(list, B) + (IF n.by \in B THEN 1 ELSE 0)
<1> DEFINE new == Append(list, n)
           k == Len(list) + 1
<1>1. /\ Len(list) \in Nat /\ Len(new) = k
      /\ \A i \in 1 .. Len(list) : new[i] = list[i]
      /\ new[k] = n
  BY AppendProperties, LenProperties
<1> HIDE DEF new
<1>2. IsFiniteSet(Posts(list, B)) /\ Count(list, B) \in Nat
  BY CountType
<1>3. k \notin Posts(list, B)
  BY <1>1 DEF Posts
<1>4. CASE n.by \in B
  <2>1. Posts(new, B) = Posts(list, B) \cup {k}
    BY <1>1, <1>4 DEF Posts
  <2>2. Cardinality(Posts(list, B) \cup {k}) = Cardinality(Posts(list, B)) + 1
    BY <1>2, <1>3, FS_AddElement
  <2> QED BY <1>4, <2>1, <2>2 DEF Count, new
<1>5. CASE n.by \notin B
  <2>1. Posts(new, B) = Posts(list, B)
    BY <1>1, <1>5 DEF Posts
  <2> QED BY <1>2, <1>5, <2>1 DEF Count, new
<1> QED BY <1>4, <1>5

(* So does one that is put in front. *)
LEMMA CountPrepend ==
    ASSUME NEW list \in Seq(NoticeType), NEW n \in NoticeType, NEW B
    PROVE  /\ <<n>> \o list \in Seq(NoticeType)
           /\ Count(<<n>> \o list, B) = Count(list, B) + (IF n.by \in B THEN 1 ELSE 0)
<1> DEFINE new == <<n>> \o list
           P == Posts(list, B)
           shift == [i \in P |-> i + 1]
           Q == {i + 1 : i \in P}
<1>1. <<n>> \in Seq(NoticeType) /\ Len(<<n>>) = 1 /\ <<n>>[1] = n /\ Len(list) \in Nat
  BY LenProperties
<1>2. /\ new \in Seq(NoticeType) /\ Len(new) = Len(list) + 1
      /\ new[1] = n
      /\ \A i \in 1 .. Len(list) : new[i + 1] = list[i]
  <2>1. new \in Seq(NoticeType) /\ Len(new) = 1 + Len(list)
    BY <1>1, ConcatProperties
  <2>2. \A i \in 1 .. Len(new) : new[i] = IF i <= 1 THEN <<n>>[i] ELSE list[i - 1]
    BY <1>1, <2>1, ConcatProperties
  <2>3. new[1] = n
    BY <1>1, <2>1, <2>2
  <2>4. ASSUME NEW i \in 1 .. Len(list) PROVE new[i + 1] = list[i]
    <3>1. i + 1 \in 1 .. Len(new) /\ ~(i + 1 <= 1) /\ (i + 1) - 1 = i
      BY <1>1, <2>1
    <3> QED BY <2>2, <3>1
  <2> QED BY <1>1, <2>1, <2>3, <2>4
<1> HIDE DEF new
<1>3. IsFiniteSet(P) /\ Cardinality(P) \in Nat /\ P \subseteq 1 .. Len(list)
  BY CountType DEF Count, Posts
<1>4. Cardinality(Q) = Cardinality(P) /\ IsFiniteSet(Q)
  <2>1. shift \in Bijection(P, Q)
    <3>1. shift \in Surjection(P, Q)
      BY DEF Surjection
    <3>2. shift \in Injection(P, Q)
      <4>1. \A i, j \in P : shift[i] = shift[j] => i = j
        BY <1>1, <1>3
      <4> QED BY <4>1 DEF Injection, IsInjective
    <3> QED BY <3>1, <3>2 DEF Bijection
  <2> HIDE DEF shift, P, Q
  <2> QED BY <1>3, <2>1, FS_Bijection DEF ExistsBijection
<1>5. 1 \notin Q
  BY <1>1, <1>3
<1>6. ASSUME NEW j \in 1 .. Len(new), j # 1
      PROVE  new[j].by \in B <=> j \in Q
  <2>1. j - 1 \in 1 .. Len(list) /\ (j - 1) + 1 = j
    BY <1>1, <1>2, <1>6
  <2>2. new[j] = list[j - 1]
    BY <1>2, <2>1
  <2>3. j \in Q <=> j - 1 \in P
    BY <1>1, <1>3, <2>1
  <2> QED BY <2>1, <2>2, <2>3 DEF Posts
<1>7. CASE n.by \in B
  <2>1. Posts(new, B) = Q \cup {1}
    BY <1>1, <1>2, <1>3, <1>6, <1>7 DEF Posts
  <2>2. Cardinality(Q \cup {1}) = Cardinality(Q) + 1
    BY <1>4, <1>5, FS_AddElement
  <2> QED BY <1>2, <1>4, <1>7, <2>1, <2>2 DEF Count, new
<1>8. CASE n.by \notin B
  <2>1. Posts(new, B) = Q
    BY <1>1, <1>2, <1>3, <1>6, <1>8 DEF Posts
  <2> QED BY <1>2, <1>3, <1>4, <1>8, <2>1 DEF Count, new
<1> QED BY <1>7, <1>8

(* The notices from the start. *)
LEMMA CountLocal ==
    /\ LocalNotices \in Seq(NoticeType)
    /\ Count(LocalNotices, {"local"}) = 1
    /\ Count(LocalNotices, {"scout"}) = 0
    /\ Count(LocalNotices, Pages) = 0
<1> DEFINE n == Notice("local", "file")
<1>1. n \in NoticeType /\ n.by = "local"
  BY DEF Notice, NoticeType
<1>2. LocalNotices = Append(<<>>, n) /\ <<>> \in Seq(NoticeType)
  BY DEF LocalNotices
<1> HIDE DEF n
<1>3. \A B : Count(<<>>, B) = 0
  BY FS_EmptySet DEF Count, Posts
<1>4. ASSUME NEW B PROVE Count(LocalNotices, B) = IF n.by \in B THEN 1 ELSE 0
  <2>1. Count(Append(<<>>, n), B) = Count(<<>>, B) + (IF n.by \in B THEN 1 ELSE 0)
    BY <1>1, <1>2, CountAppend
  <2> QED BY <1>2, <1>3, <2>1
<1>5. "local" \notin Pages
  BY ScoutAssumption
<1> QED BY <1>1, <1>2, <1>4, <1>5, AppendProperties

(* The pages that are somewhere are finitely many. *)
LEMMA AtFacts ==
    ASSUME NEW s
    PROVE  /\ IsFiniteSet(At(s)) /\ Cardinality(At(s)) \in Nat
           /\ Cardinality(Pages) \in Nat
<1>1. IsFiniteSet(Pages)
  BY ScoutAssumption
<1>2. IsFiniteSet(At(s))
  BY <1>1, FS_Subset DEF At
<1> QED BY <1>1, <1>2, FS_CardinalityType

(* It is at most two notices for each page. *)
LEMMA PendingBound == Pending \in Nat /\ Pending <= 2 * Cardinality(Pages)
<1> DEFINE C == At("collect")
           P == At("post")
<1>1. /\ IsFiniteSet(C) /\ IsFiniteSet(P) /\ IsFiniteSet(Pages)
      /\ Cardinality(C) \in Nat /\ Cardinality(P) \in Nat /\ Cardinality(Pages) \in Nat
  BY AtFacts, ScoutAssumption
<1>2. C \cap P = {} /\ C \cup P \subseteq Pages
  BY DEF At
<1> HIDE DEF C, P
<1>3. Cardinality(C \cup P) = Cardinality(C) + Cardinality(P) - Cardinality(C \cap P)
  BY <1>1, FS_Union
<1>4. Cardinality(C \cap P) = 0
  BY <1>2, FS_EmptySet
<1>5. Cardinality(C \cup P) <= Cardinality(Pages)
  BY <1>1, <1>2, FS_Subset
<1>6. Cardinality(C) + Cardinality(P) <= Cardinality(Pages)
  BY <1>1, <1>3, <1>4, <1>5
<1> QED BY <1>1, <1>6 DEF Pending, C, P

(* A page that goes on leaves one set of pages for another. *)
LEMMA PageMoves ==
    ASSUME TypeInv, NEW p \in Pages, NEW t, page' = [page EXCEPT ![p] = t]
    PROVE  /\ t = "collect" => Pending' <= Pending + 2
           /\ t = "post" /\ page[p] = "collect" => Pending' = Pending - 1
           /\ t \notin {"collect", "post"} => Pending' <= Pending
           /\ t \notin {"collect", "post"} /\ page[p] = "post" => Pending' = Pending - 1
           /\ Pending \in Nat /\ Pending' \in Nat
<1>1. \A s : At(s)' = IF s = t THEN At(s) \cup {p} ELSE At(s) \ {p}
  BY DEF At, TypeInv
<1>2. /\ \A s : IsFiniteSet(At(s)) /\ Cardinality(At(s)) \in Nat
      /\ \A s : IsFiniteSet(At(s) \ {p}) /\ Cardinality(At(s) \ {p}) \in Nat
  BY AtFacts, FS_RemoveElement, FS_CardinalityType
<1>3. \A s : p \in At(s) <=> page[p] = s
  BY DEF At
<1>4. \A s : Cardinality(At(s) \cup {p}) = Cardinality(At(s)) + (IF page[p] = s THEN 0 ELSE 1)
  BY <1>2, <1>3, FS_AddElement
<1>5. ASSUME NEW s
      PROVE  Cardinality(At(s) \ {p}) = Cardinality(At(s)) - (IF page[p] = s THEN 1 ELSE 0)
  <2>1. Cardinality(At(s) \ {p}) = IF p \in At(s) THEN Cardinality(At(s)) - 1 ELSE Cardinality(At(s))
    BY <1>2, FS_RemoveElement
  <2> QED BY <1>2, <1>3, <2>1
<1>6. \A s : Cardinality(At(s))' = IF s = t THEN Cardinality(At(s)) + (IF page[p] = s THEN 0 ELSE 1)
                                  ELSE Cardinality(At(s)) - (IF page[p] = s THEN 1 ELSE 0)
  BY <1>1, <1>4, <1>5
<1> DEFINE c == Cardinality(At("collect"))
           d == Cardinality(At("post"))
<1>7. c \in Nat /\ d \in Nat /\ Pending = 2 * c + d /\ Pending' = 2 * c' + d'
  BY <1>2 DEF Pending
<1>8. /\ c' = IF "collect" = t THEN c + (IF page[p] = "collect" THEN 0 ELSE 1)
                               ELSE c - (IF page[p] = "collect" THEN 1 ELSE 0)
      /\ d' = IF "post" = t THEN d + (IF page[p] = "post" THEN 0 ELSE 1)
                            ELSE d - (IF page[p] = "post" THEN 1 ELSE 0)
  BY <1>6
<1>9. page[p] = "collect" => c # 0
  BY <1>2, <1>3, FS_EmptySet
<1>10. page[p] = "post" => d # 0
  BY <1>2, <1>3, FS_EmptySet
<1> HIDE DEF c, d
<1> QED BY <1>7, <1>8, <1>9, <1>10
-----------------------------------------------------------------------------
(* All that is counted is a number. *)
LEMMA Numbers ==
    ASSUME TypeInv
    PROVE  /\ \A B : Count(notices, B) \in Nat
           /\ Pending \in Nat /\ Pending <= 2 * Cardinality(Pages) /\ Cardinality(Pages) \in Nat
           /\ Credit \in {0, 2}
           /\ \A r \in Reporters : Working(r) \in {0, 1}
BY CountType, PendingBound, AtFacts DEF TypeInv, Credit, Working

(* What a reporter's step does to what is counted. *)
LEMMA JobMoves ==
    ASSUME TypeInv, NEW r \in Reporters, NEW t \in Tags, Goto(r, t)
    PROVE  /\ job' \in [Reporters -> Tags]
           /\ Working(r)' = IF t \in {"report", "contact", "store_time", "store_result", "post"}
                            THEN 1 ELSE 0
           /\ \A q \in Reporters \ {r} : Working(q)' = Working(q)
           /\ Credit' = IF r = "watcher" THEN IF t = "reset" THEN 2 ELSE 0 ELSE Credit
<1>1. job' = [job EXCEPT ![r] = t] /\ job' \in [Reporters -> Tags] /\ job'[r] = t
      /\ \A q \in Reporters \ {r} : job'[q] = job[q]
  BY DEF Goto, TypeInv
<1>2. Working(r)' = IF t \in {"report", "contact", "store_time", "store_result", "post"}
                    THEN 1 ELSE 0
  BY <1>1 DEF Working
<1>3. \A q \in Reporters \ {r} : Working(q)' = Working(q)
  BY <1>1 DEF Working
<1>4. Credit' = IF r = "watcher" THEN IF t = "reset" THEN 2 ELSE 0 ELSE Credit
  BY <1>1 DEF Credit, Reporters
<1> QED BY <1>1, <1>2, <1>3, <1>4

(* A page's own notices are neither local nor from Scout. *)
LEMMA PageNotice ==
    ASSUME NEW p \in Pages, NEW what \in {"loglevel", "diag"}
    PROVE  /\ Notice(p, what) \in NoticeType /\ Notice(p, what).by = p
           /\ p \notin {"local"} /\ p \notin {"scout"}
BY ScoutAssumption DEF Notice, NoticeType

(* The notices of a result are neither local nor a page's. *)
LEMMA ScoutNotice ==
    /\ Notice("scout", "report") \in NoticeType /\ Notice("scout", "report").by = "scout"
    /\ "scout" \notin Pages /\ "scout" \notin {"local"}
BY ScoutAssumption DEF Notice, NoticeType

(* Pages. *)
LEMMA PageStep ==
    ASSUME TypeInv, Balance, NEW p \in Pages, Show(p) \/ Prepend(p) \/ PostOwn(p) \/ Render(p)
    PROVE  TypeInv' /\ Balance'
<1> DEFINE Places == {"idle", "waiting", "collect", "post", "render"}
<1>1. job' = job /\ Credit' = Credit
      /\ Working("watcher")' = Working("watcher") /\ Working("checker")' = Working("checker")
  BY DEF Show, Prepend, PostOwn, Render, Credit, Working
<1>2. /\ \A B : Count(notices, B) \in Nat
      /\ Pending \in Nat /\ Cardinality(Pages) \in Nat /\ Credit \in {0, 2}
  BY Numbers
<1>3. CASE Show(p) \/ Render(p)
  <2>1. PICK t \in {"idle", "waiting"} : page' = [page EXCEPT ![p] = t]
    BY <1>3 DEF Show, Render
  <2>2. notices' = notices /\ events' \in Seq(Pages)
    <3>1. notices' = notices /\ (events' = events \/ events' = Append(events, p))
      BY <1>3 DEF Show, Render
    <3>2. events \in Seq(Pages)
      BY DEF TypeInv
    <3> QED BY <3>1, <3>2, AppendProperties
  <2>3. Pending' <= Pending /\ Pending' \in Nat
    BY <2>1, PageMoves
  <2>4. TypeInv'
    BY <1>1, <2>1, <2>2 DEF TypeInv
  <2>5. \A B : Count(notices, B)' = Count(notices, B)
    BY <2>2 DEF Count, Posts
  <2> QED BY <1>1, <1>2, <2>3, <2>4, <2>5 DEF Balance
<1>4. ASSUME NEW t \in Places, NEW n \in NoticeType,
             page' = [page EXCEPT ![p] = t], events' = events,
             Pending' = Pending - 1, Pending' \in Nat,
             n.by = p, p \notin {"local"}, p \notin {"scout"},
             notices' \in Seq(NoticeType),
             \/ \A B : Count(notices, B)' = Count(notices, B)
             \/ \A B : Count(notices, B)' = Count(notices, B) + (IF n.by \in B THEN 1 ELSE 0)
      PROVE  TypeInv' /\ Balance'
  <2>1. TypeInv'
    BY <1>1, <1>4 DEF TypeInv
  <2>2. /\ Count(notices, {"local"})' = Count(notices, {"local"})
        /\ Count(notices, {"scout"})' = Count(notices, {"scout"})
        /\ Count(notices, Pages)' <= Count(notices, Pages) + 1
        /\ Count(notices, Pages)' \in Nat
    BY <1>2, <1>4
  <2> QED BY <1>1, <1>2, <1>4, <2>1, <2>2 DEF Balance
<1>5. notices \in Seq(NoticeType)
  BY DEF TypeInv
<1>6. CASE Prepend(p)
  <2> DEFINE n == Notice(p, "loglevel")
  <2>1. n \in NoticeType /\ n.by = p /\ p \notin {"local"} /\ p \notin {"scout"}
    BY PageNotice
  <2>2. /\ page[p] = "collect" /\ page' = [page EXCEPT ![p] = "post"] /\ events' = events
        /\ notices' = notices \/ notices' = <<n>> \o notices
    BY <1>6 DEF Prepend
  <2> HIDE DEF n
  <2>3. Pending' = Pending - 1 /\ Pending' \in Nat
    BY <2>2, PageMoves
  <2>4. /\ notices' \in Seq(NoticeType)
        /\ \/ \A B : Count(notices, B)' = Count(notices, B)
           \/ \A B : Count(notices, B)' = Count(notices, B) + (IF n.by \in B THEN 1 ELSE 0)
    <3>1. CASE notices' = notices
      BY <1>5, <3>1 DEF Count, Posts
    <3>2. CASE notices' = <<n>> \o notices
      <4>1. \A B : Count(notices, B)' = Count(<<n>> \o notices, B)
        BY <3>2 DEF Count, Posts
      <4> QED BY <1>5, <2>1, <3>2, <4>1, CountPrepend
    <3> QED BY <2>2, <3>1, <3>2
  <2> QED BY <1>4, <2>1, <2>2, <2>3, <2>4
<1>7. CASE PostOwn(p)
  <2> DEFINE n == Notice(p, "diag")
  <2>1. n \in NoticeType /\ n.by = p /\ p \notin {"local"} /\ p \notin {"scout"}
    BY PageNotice
  <2>2. /\ page[p] = "post" /\ page' = [page EXCEPT ![p] = "render"] /\ events' = events
        /\ notices' = notices \/ notices' = Append(notices, n)
    BY <1>7 DEF PostOwn
  <2> HIDE DEF n
  <2>3. Pending' = Pending - 1 /\ Pending' \in Nat
    <3>1. "render" \notin {"collect", "post"}
      OBVIOUS
    <3> QED BY <2>2, <3>1, PageMoves
  <2>4. /\ notices' \in Seq(NoticeType)
        /\ \/ \A B : Count(notices, B)' = Count(notices, B)
           \/ \A B : Count(notices, B)' = Count(notices, B) + (IF n.by \in B THEN 1 ELSE 0)
    <3>1. CASE notices' = notices
      BY <1>5, <3>1 DEF Count, Posts
    <3>2. CASE notices' = Append(notices, n)
      <4>1. \A B : Count(notices, B)' = Count(Append(notices, n), B)
        BY <3>2 DEF Count, Posts
      <4> QED BY <1>5, <2>1, <3>2, <4>1, CountAppend, AppendProperties
    <3> QED BY <2>2, <3>1, <3>2
  <2> QED BY <1>4, <2>1, <2>2, <2>3, <2>4
<1> QED BY <1>3, <1>6, <1>7

(* Reporters. *)
LEMMA ReporterStep ==
    ASSUME TypeInv, Balance, NEW r \in Reporters,
           \/ Reset(r) \/ Report(r) \/ Contact(r) \/ Unavailable(r)
           \/ StoreTime(r) \/ StoreResult(r) \/ PostNotices(r) \/ Raise(r)
    PROVE  TypeInv' /\ Balance'
<1>1. page' = page /\ events' = events /\ Pending' = Pending
  BY DEF Reset, Report, Contact, Unavailable, StoreTime, StoreResult, PostNotices, Raise, pageVars,
      Pending, At
<1>2. /\ \A B : Count(notices, B) \in Nat
      /\ Pending \in Nat /\ Pending <= 2 * Cardinality(Pages) /\ Cardinality(Pages) \in Nat
      /\ Credit \in {0, 2}
      /\ Working("watcher") \in {0, 1} /\ Working("checker") \in {0, 1}
  BY Numbers DEF Reporters
<1>3. notices \in Seq(NoticeType)
  BY DEF TypeInv
<1>4. CASE Reset(r)
  <2>1. Goto(r, "report") /\ notices' = LocalNotices /\ "report" \in Tags
    BY <1>4 DEF Reset, Tags
  <2>2. /\ job' \in [Reporters -> Tags] /\ Credit' \in {0, 2}
        /\ Working("watcher")' \in {0, 1} /\ Working("checker")' \in {0, 1}
    BY <1>2, <2>1, JobMoves DEF Reporters
  <2>3. TypeInv'
    BY <1>1, <2>1, <2>2, CountLocal DEF TypeInv
  <2>4. \A B : Count(notices, B)' = Count(LocalNotices, B)
    BY <2>1 DEF Count, Posts
  <2> QED BY <1>1, <1>2, <2>2, <2>3, <2>4, CountLocal DEF Balance
<1>5. CASE Report(r) \/ Contact(r) \/ Unavailable(r) \/ StoreTime(r) \/ StoreResult(r) \/ Raise(r)
  <2>1. /\ notices' = notices
        /\ job[r] \in {"report", "contact", "store_time", "store_result", "post"}
        /\ \E t \in Tags \ {"reset"} : Goto(r, t)
    BY <1>5 DEF Report, Contact, Unavailable, StoreTime, StoreResult, Raise, Tags
  <2>2. Working(r) = 1 /\ (r = "watcher" => Credit = 0)
    BY <2>1 DEF Working, Credit
  <2>3. /\ job' \in [Reporters -> Tags]
        /\ Working(r)' \in {0, 1}
        /\ \A q \in Reporters \ {r} : Working(q)' = Working(q)
        /\ Credit' = Credit
    BY <2>1, <2>2, JobMoves
  <2>4. TypeInv'
    BY <1>1, <2>1, <2>3 DEF TypeInv
  <2>5. \A B : Count(notices, B)' = Count(notices, B)
    BY <2>1 DEF Count, Posts
  <2>6. Working("watcher")' + Working("checker")' <= Working("watcher") + Working("checker")
        /\ Working("watcher")' \in {0, 1} /\ Working("checker")' \in {0, 1}
    BY <1>2, <2>2, <2>3 DEF Reporters
  <2> QED BY <1>1, <1>2, <2>3, <2>4, <2>5, <2>6 DEF Balance
<1>6. CASE PostNotices(r)
  <2> DEFINE n == Notice("scout", "report")
  <2>1. /\ job[r] = "post" /\ Goto(r, "idle") /\ "idle" \in Tags
        /\ notices' = notices \/ notices' = Append(notices, n)
    BY <1>6 DEF PostNotices, Tags
  <2>2. Working(r) = 1 /\ (r = "watcher" => Credit = 0)
    BY <2>1 DEF Working, Credit
  <2>3. /\ job' \in [Reporters -> Tags] /\ Working(r)' = 0
        /\ \A q \in Reporters \ {r} : Working(q)' = Working(q)
        /\ Credit' = Credit
    BY <2>1, <2>2, JobMoves
  <2>4. n \in NoticeType /\ n.by = "scout" /\ "scout" \notin Pages /\ "scout" \notin {"local"}
    BY ScoutNotice
  <2> HIDE DEF n
  <2>5. /\ notices' \in Seq(NoticeType)
        /\ \/ \A B : Count(notices, B)' = Count(notices, B)
           \/ \A B : Count(notices, B)' = Count(notices, B) + (IF n.by \in B THEN 1 ELSE 0)
    <3>1. CASE notices' = notices
      BY <1>3, <3>1 DEF Count, Posts
    <3>2. CASE notices' = Append(notices, n)
      <4>1. \A B : Count(notices, B)' = Count(Append(notices, n), B)
        BY <3>2 DEF Count, Posts
      <4> QED BY <1>3, <2>4, <3>2, <4>1, CountAppend, AppendProperties
    <3> QED BY <2>1, <3>1, <3>2
  <2>6. /\ Count(notices, {"local"})' = Count(notices, {"local"})
        /\ Count(notices, Pages)' = Count(notices, Pages)
        /\ Count(notices, {"scout"})' <= Count(notices, {"scout"}) + 1
        /\ Count(notices, {"scout"})' \in Nat
    BY <1>2, <2>4, <2>5
  <2>7. TypeInv'
    BY <1>1, <2>3, <2>5 DEF TypeInv
  <2>8. Working("watcher")' + Working("checker")' = Working("watcher") + Working("checker") - 1
        /\ Working("watcher")' \in {0, 1} /\ Working("checker")' \in {0, 1}
    BY <1>2, <2>2, <2>3 DEF Reporters
  <2> QED BY <1>1, <1>2, <2>3, <2>6, <2>7, <2>8 DEF Balance
<1> QED BY <1>4, <1>5, <1>6

(* A reporter begins. *)
LEMMA BeginStep ==
    ASSUME TypeInv, Balance, TakeScout \/ AfterUpdate \/ AfterBadUpdate \/ Checkin
    PROVE  TypeInv' /\ Balance'
<1>1. /\ \A B : Count(notices, B) \in Nat
      /\ Pending \in Nat /\ Cardinality(Pages) \in Nat /\ Credit \in {0, 2}
      /\ Working("watcher") \in {0, 1} /\ Working("checker") \in {0, 1}
  BY Numbers DEF Reporters
<1>2. notices' = notices /\ \A B : Count(notices, B)' = Count(notices, B)
  BY DEF TakeScout, AfterUpdate, AfterBadUpdate, Checkin, Count, Posts
<1>3. PICK r \in Reporters : /\ Goto(r, "reset") /\ job[r] = "idle" /\ "reset" \in Tags
                             /\ r = "checker" => Checkin
                             /\ r = "watcher" => TakeScout \/ AfterUpdate \/ AfterBadUpdate
  BY DEF TakeScout, AfterUpdate, AfterBadUpdate, Checkin, Call, Tags, Reporters
<1>4. /\ job' \in [Reporters -> Tags] /\ Working(r)' = 0
      /\ \A q \in Reporters \ {r} : Working(q)' = Working(q)
      /\ Credit' = IF r = "watcher" THEN 2 ELSE Credit
  BY <1>3, JobMoves
<1>5. Working("watcher")' + Working("checker")' <= Working("watcher") + Working("checker")
      /\ Working("watcher")' \in {0, 1} /\ Working("checker")' \in {0, 1}
  BY <1>1, <1>4 DEF Reporters
<1>6. r = "watcher" => Credit = 0
  BY <1>3 DEF Credit
<1>7. CASE TakeScout
  <2>1. Head(events) \in Pages /\ events' \in Seq(Pages)
    BY <1>7, HeadTailProperties DEF TakeScout, TypeInv
  <2>2. page' = [page EXCEPT ![Head(events)] = "collect"] /\ r = "watcher"
    BY <1>3, <1>7 DEF TakeScout, Call, Goto, TypeInv, Reporters, Tags
  <2>3. Pending' <= Pending + 2 /\ Pending' \in Nat
    BY <2>1, <2>2, PageMoves
  <2>4. TypeInv'
    BY <1>2, <1>4, <2>1, <2>2 DEF TypeInv
  <2> QED BY <1>1, <1>2, <1>4, <1>5, <1>6, <2>2, <2>3, <2>4 DEF Balance
<1>8. CASE AfterUpdate \/ AfterBadUpdate \/ Checkin
  <2>1. page' = page /\ events' = events /\ Pending' = Pending
    BY <1>8 DEF AfterUpdate, AfterBadUpdate, Checkin, pageVars, Pending, At
  <2>2. TypeInv'
    BY <1>2, <1>4, <2>1 DEF TypeInv
  <2> QED BY <1>1, <1>2, <1>4, <1>5, <1>6, <2>1, <2>2 DEF Balance
<1> QED BY <1>7, <1>8

(* The balance holds at the start and every step preserves it. *)
THEOREM Invariance == Spec => [](TypeInv /\ Balance)
<1>1. Init => TypeInv /\ Balance
  <2> SUFFICES ASSUME Init PROVE TypeInv /\ Balance
    OBVIOUS
  <2>1. TypeInv
    BY CountLocal DEF Init, TypeInv, Tags
  <2>2. Working("watcher") = 0 /\ Working("checker") = 0 /\ Credit = 0
    BY DEF Init, Working, Credit, Reporters
  <2>3. Pending \in Nat /\ Pending <= 2 * Cardinality(Pages) /\ Cardinality(Pages) \in Nat
    BY PendingBound, AtFacts
  <2>4. notices = LocalNotices
    BY DEF Init
  <2> QED BY <2>1, <2>2, <2>3, <2>4, CountLocal DEF Balance
<1>2. ASSUME TypeInv /\ Balance, [Next]_vars PROVE (TypeInv /\ Balance)'
  <2>1. CASE Tick \/ UNCHANGED vars
    <3>1. UNCHANGED <<notices, events, page, job>>
      BY <2>1 DEF Tick, vars, pageVars
    <3> QED BY <1>2, <3>1 DEF TypeInv, Balance, Count, Posts, Working, Pending, Credit, At
  <2> QED BY <1>2, <2>1, PageStep, ReporterStep, BeginStep DEF Next
<1> QED BY <1>1, <1>2, PTL DEF Spec

(* Whoever reads the notices finds the local ones, once. *)
THEOREM LocalShown == Spec => []LocalAlwaysShown
<1>1. Balance => LocalAlwaysShown
  BY DEF Balance, Count, Posts, LocalAlwaysShown
<1> QED BY <1>1, Invariance, PTL

(* However many pages are shown, the list stays short. *)
THEOREM ShortList == Spec => []NoticesBounded
<1>1. TypeInv /\ Balance => NoticesBounded
  <2> SUFFICES ASSUME TypeInv, Balance PROVE NoticesBounded
    OBVIOUS
  <2>1. /\ \A B : Count(notices, B) \in Nat
        /\ Pending \in Nat /\ Cardinality(Pages) \in Nat /\ Credit \in {0, 2}
        /\ Working("watcher") \in {0, 1} /\ Working("checker") \in {0, 1}
    BY Numbers DEF Reporters
  <2>2. Count(notices, {"scout"}) <= 2
    BY <2>1 DEF Balance
  <2>3. Count(notices, Pages) <= 2 * (Cardinality(Pages) + 1)
    BY <2>1 DEF Balance
  <2>4. Count(notices, {"scout"}) = Cardinality({i \in 1 .. Len(notices) : notices[i].by = "scout"})
    BY DEF Count, Posts
  <2> QED BY <2>2, <2>3, <2>4 DEF NoticesBounded, Count, Posts
<1> QED BY <1>1, Invariance, PTL
=============================================================================
