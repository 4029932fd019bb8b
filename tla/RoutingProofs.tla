--------------------------- MODULE RoutingProofs ---------------------------
(***************************************************************************)
(* Theorems about the path of a Mapping: about Routing, for all Mappings,  *)
(* resolvers and bounds, and about MappingGroup, for all weights and sizes *)
(* of the group.                                                           *)
(***************************************************************************)
EXTENDS Routing, MappingGroup, FiniteSetTheorems, SequenceTheorems, WellFoundedInduction,
        TLAPS

Markers == {"", "shadow"}   \* what add_cluster_for_mapping is called with

GroupType ==
    [group_id : Seq(STRING), core : Mappings, mappings : Seq(Nat), shadow : Nat,
     host_redirect : Nat]

(* What the other invariants need to know of types. *)
GroupsOK ==
    /\ offered \in Seq(Mappings)
    /\ groups \in Seq(GroupType)

(* The Mappings that a group holds. *)
Members(group) == Range(group.mappings) \cup ({group.shadow, group.host_redirect} \ {0})

(* A group has the group_id of its core, it is alone in that, and its      *)
(* Mappings have been offered and are for its requests.                    *)
GroupInv ==
    /\ \A g \in DOMAIN groups :
           /\ groups[g].group_id = group_id(groups[g].core)
           /\ \A n \in Members(groups[g]) :
                  /\ n \in DOMAIN offered
                  /\ offered[n].prefix = groups[g].core.prefix
                  /\ offered[n].headers = groups[g].core.headers
    /\ \A g, h \in DOMAIN groups : groups[g].group_id = groups[h].group_id => g = h

(* A Mapping that joins a group leaves its group_id and its core, and is   *)
(* its only new member.                                                    *)
LEMMA JoinedType ==
    ASSUME NEW m \in Mappings, NEW n \in Nat, NEW group \in GroupType
    PROVE  /\ Joined(m, n, group) \in GroupType
           /\ Joined(m, n, group).group_id = group.group_id
           /\ Joined(m, n, group).core = group.core
           /\ Members(Joined(m, n, group)) \subseteq Members(group) \cup {n}
           /\ Taken(m, group) /\ n # 0 => n \in Members(Joined(m, n, group))
           /\ Members(group) \subseteq Members(Joined(m, n, group))
           /\ ~Taken(m, group) => Joined(m, n, group) = group
<1>1. m.role \in {"route", "shadow", "redirect"}
  BY RoutingAssumption DEF MappingType
<1>2. CASE ~Taken(m, group)
  BY <1>2 DEF Joined
<1>3. CASE Taken(m, group) /\ m.role = "route"
  <2>1. Joined(m, n, group) = [group EXCEPT !.mappings = Append(group.mappings, n)]
    BY <1>3 DEF Joined
  <2>2. /\ Append(group.mappings, n) \in Seq(Nat)
        /\ Len(Append(group.mappings, n)) = Len(group.mappings) + 1
        /\ \A i \in 1 .. Len(group.mappings) : Append(group.mappings, n)[i] = group.mappings[i]
        /\ Append(group.mappings, n)[Len(group.mappings) + 1] = n
    BY AppendProperties DEF GroupType
  <2>3. Range(Append(group.mappings, n)) = Range(group.mappings) \cup {n}
    <3>1. /\ DOMAIN group.mappings = 1 .. Len(group.mappings)
          /\ DOMAIN Append(group.mappings, n) = 1 .. Len(group.mappings) + 1
          /\ Len(group.mappings) \in Nat
      BY <2>2, LenProperties DEF GroupType
    <3> QED BY <2>2, <3>1 DEF Range
  <2> QED BY <2>1, <2>2, <2>3, <1>3 DEF GroupType, Members
<1>4. CASE Taken(m, group) /\ m.role = "shadow"
  <2>1. Joined(m, n, group) = [group EXCEPT !.shadow = n]
    BY <1>4 DEF Joined
  <2>2. group.shadow = 0
    BY <1>4 DEF Taken
  <2> QED BY <2>1, <2>2, <1>4 DEF GroupType, Members
<1>5. CASE Taken(m, group) /\ m.role = "redirect"
  <2>1. Joined(m, n, group) = [group EXCEPT !.host_redirect = n]
    BY <1>5 DEF Joined
  <2>2. group.host_redirect = 0
    BY <1>5 DEF Taken
  <2> QED BY <2>1, <2>2, <1>5 DEF GroupType, Members
<1> QED BY <1>1, <1>2, <1>3, <1>4, <1>5

(* Only AddMapping changes what is offered or a group. *)
LEMMA OtherSteps ==
    ASSUME LoadResolvers \/ EndMappings \/ AddCluster \/ EndGroup \/ Mangle \/ UNCHANGED vars
    PROVE  UNCHANGED <<offered, groups>>
  BY DEF LoadResolvers, EndMappings, AddCluster, EndGroup, Mangle, vars

(* What AddMapping does with the Mapping m, case by case. *)
AddedAs(m) ==
    LET n == Len(offered) + 1
    IN  /\ n \in Nat \ {0}
        /\ DOMAIN offered = 1 .. Len(offered) /\ DOMAIN offered' = 1 .. n
        /\ \A i \in DOMAIN offered : offered'[i] = offered[i]
        /\ offered'[n] = m
        /\ offered' \in Seq(Mappings)
        /\ \/ UNCHANGED groups /\ errors' = errors \cup {n}
           \/ /\ GroupOf(m) = {}
              /\ groups' = Append(groups, Joined(m, n, EmptyGroup(m)))
              /\ UNCHANGED errors
           \/ \E g \in GroupOf(m) :
                 /\ groups' = [h \in DOMAIN groups |->
                                 IF h \in GroupOf(m) THEN Joined(m, n, groups[h]) ELSE groups[h]]
                 /\ errors \subseteq errors'
                 /\ ~Taken(m, groups[g]) => n \in errors'

(* AddMapping is one of the cases, for some Mapping. *)
LEMMA AddMappingFacts ==
    ASSUME GroupsOK, AddMapping
    PROVE  \E m \in Mappings : AddedAs(m)
<1>1. PICK m \in Mappings :
        LET n == Len(offered) + 1
            told == \/ ~Active(m)
                    \/ \E g \in GroupOf(m) : ~Taken(m, groups[g])
        IN  /\ offered' = Append(offered, m)
            /\ groups' = IF ~Active(m) THEN groups
                         ELSE IF GroupOf(m) = {} THEN Append(groups, Joined(m, n, EmptyGroup(m)))
                         ELSE [g \in DOMAIN groups |->
                                  IF g \in GroupOf(m) THEN Joined(m, n, groups[g]) ELSE groups[g]]
            /\ errors' = IF told THEN errors \cup {n} ELSE errors
  BY DEF AddMapping
<1> DEFINE n == Len(offered) + 1
<1>2. /\ n \in Nat \ {0}
      /\ DOMAIN offered = 1 .. Len(offered) /\ DOMAIN offered' = 1 .. n
      /\ \A i \in DOMAIN offered : offered'[i] = offered[i]
      /\ offered'[n] = m
      /\ offered' \in Seq(Mappings)
  BY <1>1, AppendProperties, LenProperties DEF GroupsOK
<1>3. CASE ~Active(m)
  <2>1. UNCHANGED groups /\ errors' = errors \cup {n}
    BY <1>1, <1>3
  <2> QED BY <1>2, <2>1 DEF AddedAs
<1>4. CASE Active(m) /\ GroupOf(m) = {}
  <2>1. groups' = Append(groups, Joined(m, n, EmptyGroup(m))) /\ UNCHANGED errors
    BY <1>1, <1>4
  <2> QED BY <1>2, <1>4, <2>1 DEF AddedAs
<1>5. CASE Active(m) /\ GroupOf(m) # {}
  <2>1. PICK g \in GroupOf(m) : TRUE
    BY <1>5
  <2>2. /\ groups' = [h \in DOMAIN groups |->
                         IF h \in GroupOf(m) THEN Joined(m, n, groups[h]) ELSE groups[h]]
        /\ errors \subseteq errors'
        /\ ~Taken(m, groups[g]) => n \in errors'
    BY <1>1, <1>5
  <2> QED BY <1>2, <2>2 DEF AddedAs
<1> QED BY <1>3, <1>4, <1>5

(* Mappings join only groups of their group_id, and only when prefix and   *)
(* headers agree; a new group has a new group_id.                          *)
LEMMA GroupStep ==
    ASSUME GroupsOK, GroupInv, [Next]_vars
    PROVE  GroupsOK' /\ GroupInv'
<1>1. CASE AddMapping
  <2>0. PICK m \in Mappings : AddedAs(m)
    BY <1>1, AddMappingFacts
  <2> DEFINE n == Len(offered) + 1
  <2>1. /\ n \in Nat \ {0}
        /\ DOMAIN offered = 1 .. Len(offered) /\ DOMAIN offered' = 1 .. n
        /\ \A i \in DOMAIN offered : offered'[i] = offered[i]
        /\ offered'[n] = m
        /\ offered' \in Seq(Mappings)
    BY <2>0 DEF AddedAs
  <2>2. /\ DOMAIN groups = 1 .. Len(groups) /\ Len(groups) \in Nat
        /\ \A g \in DOMAIN groups : groups[g] \in GroupType
    BY LenProperties, ElementOfSeq DEF GroupsOK
  <2>3. CASE UNCHANGED groups
    <3>1. GroupsOK'
      BY <2>1, <2>3 DEF GroupsOK
    <3>2. ASSUME NEW g \in DOMAIN groups
          PROVE  /\ groups[g].group_id = group_id(groups[g].core)
                 /\ \A x \in Members(groups[g]) :
                        /\ x \in DOMAIN offered'
                        /\ offered'[x].prefix = groups[g].core.prefix
                        /\ offered'[x].headers = groups[g].core.headers
      BY <2>1 DEF GroupInv
    <3>3. GroupInv'
      BY <2>3, <3>2 DEF GroupInv, group_id, Members
    <3> QED BY <3>1, <3>3
  <2>4. CASE /\ GroupOf(m) = {}
             /\ groups' = Append(groups, Joined(m, n, EmptyGroup(m)))
    <3> DEFINE e == EmptyGroup(m)
               j == Joined(m, n, e)
               k == Len(groups) + 1
    <3>1. /\ e \in GroupType /\ e.group_id = group_id(m) /\ e.core = m
          /\ Members(e) = {}
      <4>1. m.prefix \in Seq(STRING) /\ m.headers \in Seq(STRING)
        BY RoutingAssumption DEF MappingType
      <4>2. group_id(m) \in Seq(STRING)
        BY <4>1, ConcatProperties DEF group_id
      <4>3. <<>> \in Seq(Nat) /\ Range(<<>>) = {}
        BY EmptySeq DEF Range
      <4> QED BY <4>2, <4>3 DEF EmptyGroup, GroupType, Members
    <3>2. /\ j \in GroupType /\ j.group_id = group_id(m) /\ j.core = m
          /\ Members(j) \subseteq {n}
      BY <2>1, <3>1, JoinedType
    <3> HIDE DEF j
    <3>3. /\ groups' \in Seq(GroupType) /\ DOMAIN groups' = 1 .. k
          /\ \A g \in DOMAIN groups : groups'[g] = groups[g]
          /\ groups'[k] = j
      BY <2>4, <3>2, <2>2, AppendProperties, LenProperties DEF GroupsOK, j
    <3>4. \A g \in DOMAIN groups : groups[g].group_id # group_id(m)
      BY <2>4 DEF GroupOf
    <3>5. \A g \in DOMAIN groups' : g \in DOMAIN groups \/ g = k
      BY <2>2, <3>3
    <3>6. GroupsOK'
      BY <2>1, <3>3 DEF GroupsOK
    <3>7. \A g, h \in DOMAIN groups' : groups'[g].group_id = groups'[h].group_id => g = h
      BY <3>2, <3>3, <3>4, <3>5 DEF GroupInv
    <3>8. ASSUME NEW g \in DOMAIN groups'
          PROVE  /\ groups'[g].group_id = group_id(groups'[g].core)
                 /\ \A x \in Members(groups'[g]) :
                        /\ x \in DOMAIN offered'
                        /\ offered'[x].prefix = groups'[g].core.prefix
                        /\ offered'[x].headers = groups'[g].core.headers
      <4>1. CASE g = k
        BY <4>1, <3>2, <3>3, <2>1
      <4>2. CASE g \in DOMAIN groups
        BY <4>2, <3>3, <2>1 DEF GroupInv
      <4> QED BY <4>1, <4>2, <3>5
    <3>9. GroupInv'
      BY <3>7, <3>8 DEF GroupInv, group_id, Members
    <3> QED BY <3>6, <3>9
  <2>5. CASE groups' = [h \in DOMAIN groups |->
                          IF h \in GroupOf(m) THEN Joined(m, n, groups[h]) ELSE groups[h]]
    <3>1. \A g \in DOMAIN groups :
             /\ groups'[g] \in GroupType
             /\ groups'[g].group_id = groups[g].group_id
             /\ groups'[g].core = groups[g].core
             /\ groups'[g] # groups[g] => ~Mismatched(m, groups[g].core)
             /\ Members(groups'[g]) \subseteq Members(groups[g]) \cup {n}
      <4> TAKE g \in DOMAIN groups
      <4>1. CASE g \in GroupOf(m)
        <5>1. groups'[g] = Joined(m, n, groups[g]) /\ groups[g] \in GroupType
          BY <4>1, <2>2, <2>5
        <5>2. Joined(m, n, groups[g]) # groups[g] => ~Mismatched(m, groups[g].core)
          BY <2>1, <5>1, JoinedType DEF Taken
        <5> QED BY <5>1, <5>2, <2>1, JoinedType
      <4>2. CASE g \notin GroupOf(m)
        BY <4>2, <2>1, <2>2, <2>5
      <4> QED BY <4>1, <4>2
    <3>2. groups' \in Seq(GroupType) /\ DOMAIN groups' = DOMAIN groups
      BY <2>2, <2>5, <3>1
    <3>3. GroupsOK'
      BY <2>1, <3>2 DEF GroupsOK
    <3>4. \A g, h \in DOMAIN groups' : groups'[g].group_id = groups'[h].group_id => g = h
      BY <3>1, <3>2 DEF GroupInv
    <3>5. ASSUME NEW g \in DOMAIN groups'
          PROVE  /\ groups'[g].group_id = group_id(groups'[g].core)
                 /\ \A x \in Members(groups'[g]) :
                        /\ x \in DOMAIN offered'
                        /\ offered'[x].prefix = groups'[g].core.prefix
                        /\ offered'[x].headers = groups'[g].core.headers
      <4>1. CASE groups'[g] = groups[g]
        BY <4>1, <3>2, <2>1 DEF GroupInv
      <4>2. CASE groups'[g] # groups[g]
        <5>1. m.prefix = groups[g].core.prefix /\ m.headers = groups[g].core.headers
          BY <4>2, <3>1, <3>2 DEF Mismatched
        <5> QED BY <5>1, <3>1, <3>2, <2>1 DEF GroupInv
      <4> QED BY <4>1, <4>2
    <3>6. GroupInv'
      BY <3>4, <3>5 DEF GroupInv, group_id, Members
    <3> QED BY <3>3, <3>6
  <2> QED BY <2>0, <2>3, <2>4, <2>5 DEF AddedAs
<1>2. CASE LoadResolvers \/ EndMappings \/ AddCluster \/ EndGroup \/ Mangle \/ UNCHANGED vars
  <2>1. UNCHANGED <<offered, groups>>
    BY <1>2, OtherSteps
  <2> QED BY <2>1 DEF GroupsOK, GroupInv, Members, group_id
<1> QED BY <1>1, <1>2 DEF Next

(* Hashes that collide never mix two routes, and no request has two groups. *)
THEOREM GroupsApart == Spec => []GroupsKeptApart
<1>1. Init => GroupsOK /\ GroupInv
  <2>1. DOMAIN <<>> = {}
    OBVIOUS
  <2> QED BY <2>1, EmptySeq DEF Init, GroupsOK, GroupInv
<1>2. GroupInv => GroupsKeptApart
  <2> SUFFICES ASSUME GroupInv PROVE GroupsKeptApart
    OBVIOUS
  <2>1. \A g \in DOMAIN groups : groups[g].group_id = groups[g].core.prefix \o groups[g].core.headers
    BY DEF GroupInv, group_id
  <2> QED BY <2>1 DEF GroupInv, GroupsKeptApart, Members
<1> QED
  BY <1>1, <1>2, GroupStep, PTL DEF Spec
-----------------------------------------------------------------------------
IsSeq(s) == \E S : s \in Seq(S)

(* What is known of a sequence of whatever elements. *)
LEMMA SeqFacts ==
    ASSUME NEW s, IsSeq(s), NEW e
    PROVE  /\ Len(s) \in Nat /\ DOMAIN s = 1 .. Len(s)
           /\ IsSeq(Append(s, e))
           /\ DOMAIN Append(s, e) = 1 .. Len(s) + 1
           /\ \A i \in 1 .. Len(s) : Append(s, e)[i] = s[i]
           /\ Append(s, e)[Len(s) + 1] = e
<1>1. PICK S : s \in Seq(S)
  BY DEF IsSeq
<1> DEFINE T == S \cup {e}
<1>2. s \in Seq(T) /\ e \in T
  BY <1>1, SeqMonotonic
<1> HIDE DEF T
<1>3. Append(s, e) \in Seq(T)
  BY <1>2, AppendProperties
<1> QED BY <1>2, <1>3, AppendProperties, LenProperties DEF IsSeq

(* A function on 1 .. n is a sequence. *)
LEMMA FunctionIsSeq ==
    ASSUME NEW T, NEW f, NEW n \in Nat, f = [i \in 1 .. n |-> f[i]], \A i \in 1 .. n : f[i] \in T
    PROVE  f \in Seq(T) /\ Len(f) = n
  OBVIOUS

(* A cluster is added unless there is one of its name, and then there is   *)
(* exactly one of that name.                                               *)
LEMMA AddClusterFacts ==
    ASSUME NEW cs, IsSeq(cs), NEW c
    PROVE  /\ IsSeq(add_cluster(c, cs))
           /\ DOMAIN cs \subseteq DOMAIN add_cluster(c, cs)
           /\ DOMAIN add_cluster(c, cs) \subseteq Nat \ {0}
           /\ \A i \in DOMAIN cs : add_cluster(c, cs)[i] = cs[i]
           /\ \E i \in DOMAIN add_cluster(c, cs) : add_cluster(c, cs)[i].key = c.key
           /\ \A i \in DOMAIN add_cluster(c, cs) \ DOMAIN cs :
                  /\ add_cluster(c, cs)[i] = c
                  /\ i = Len(cs) + 1
                  /\ \A j \in DOMAIN cs : cs[j].key # c.key
<1>1. Len(cs) \in Nat /\ DOMAIN cs = 1 .. Len(cs)
  BY SeqFacts
<1>2. CASE \E i \in DOMAIN cs : cs[i].key = c.key
  BY <1>1, <1>2 DEF add_cluster
<1>3. CASE ~\E i \in DOMAIN cs : cs[i].key = c.key
  <2>1. add_cluster(c, cs) = Append(cs, c)
    BY <1>3 DEF add_cluster
  <2>2. /\ IsSeq(Append(cs, c))
        /\ DOMAIN Append(cs, c) = 1 .. Len(cs) + 1
        /\ \A i \in 1 .. Len(cs) : Append(cs, c)[i] = cs[i]
        /\ Append(cs, c)[Len(cs) + 1] = c
    BY SeqFacts
  <2>3. Len(cs) + 1 \in DOMAIN Append(cs, c)
    BY <1>1, <2>2
  <2> QED BY <1>1, <1>3, <2>1, <2>2, <2>3
<1> QED BY <1>2, <1>3

(* A group's Mappings that get clusters are members of it: its shadow, and *)
(* the others when it does not redirect.                                   *)
LEMMA ServedFacts ==
    ASSUME NEW group \in GroupType
    PROVE  /\ Len(Served(group)) \in Nat /\ DOMAIN Served(group) = 1 .. Len(Served(group))
           /\ \A i \in DOMAIN Served(group) :
                  /\ Served(group)[i].n \in Members(group)
                  /\ Served(group)[i].marker \in Markers
           /\ group.shadow # 0 => \E i \in DOMAIN Served(group) : Served(group)[i].n = group.shadow
           /\ group.host_redirect = 0 =>
                  \A n \in Range(group.mappings) :
                      \E i \in DOMAIN Served(group) : Served(group)[i].n = n
<1> DEFINE T == [n : Nat, marker : Markers]
           first == IF group.shadow # 0 THEN <<[n |-> group.shadow, marker |-> "shadow"]>> ELSE <<>>
           rest == IF group.host_redirect # 0 THEN <<>>
                   ELSE [i \in DOMAIN group.mappings |-> [n |-> group.mappings[i], marker |-> ""]]
<1>1. /\ group.mappings \in Seq(Nat) /\ group.shadow \in Nat
      /\ Len(group.mappings) \in Nat /\ DOMAIN group.mappings = 1 .. Len(group.mappings)
      /\ \A i \in DOMAIN group.mappings : group.mappings[i] \in Nat
  BY LenProperties, ElementOfSeq DEF GroupType
<1>2. /\ first \in Seq(T)
      /\ \A i \in 1 .. Len(first) : first[i].n \in Members(group) /\ first[i].marker \in Markers
      /\ group.shadow # 0 => Len(first) = 1 /\ first[1].n = group.shadow
  <2>1. CASE group.shadow = 0
    BY <2>1, EmptySeq
  <2>2. CASE group.shadow # 0
    <3>1. first = <<[n |-> group.shadow, marker |-> "shadow"]>>
      BY <2>2
    <3>2. [n |-> group.shadow, marker |-> "shadow"] \in T
      BY <1>1 DEF Markers
    <3> HIDE DEF first, T
    <3>3. first \in Seq(T) /\ Len(first) = 1 /\ first[1] = [n |-> group.shadow, marker |-> "shadow"]
      BY <3>1, <3>2
    <3>4. first[1].n = group.shadow /\ first[1].marker \in Markers
      BY <3>3 DEF Markers
    <3>5. \A i \in 1 .. Len(first) : i = 1
      BY <3>3
    <3>6. group.shadow \in Members(group)
      BY <2>2 DEF Members
    <3> QED BY <3>3, <3>4, <3>5, <3>6
  <2> QED BY <2>1, <2>2
<1>3. /\ rest \in Seq(T)
      /\ \A i \in 1 .. Len(rest) : rest[i].n \in Members(group) /\ rest[i].marker \in Markers
      /\ group.host_redirect = 0 =>
             \A n \in Range(group.mappings) : \E i \in 1 .. Len(rest) : rest[i].n = n
  <2>1. CASE group.host_redirect # 0
    BY <2>1, EmptySeq
  <2>2. CASE group.host_redirect = 0
    <3>1. rest = [i \in 1 .. Len(group.mappings) |-> [n |-> group.mappings[i], marker |-> ""]]
      BY <2>2, <1>1
    <3>2. \A i \in 1 .. Len(group.mappings) : [n |-> group.mappings[i], marker |-> ""] \in T
      BY <1>1 DEF Markers
    <3> HIDE DEF rest, T
    <3>3. /\ rest = [i \in 1 .. Len(group.mappings) |-> rest[i]]
          /\ \A i \in 1 .. Len(group.mappings) : rest[i] \in T
      BY <3>1, <3>2
    <3>4. rest \in Seq(T) /\ Len(rest) = Len(group.mappings)
      <4>1. Len(group.mappings) \in Nat
        BY <1>1
      <4> QED BY ONLY <3>3, <4>1, FunctionIsSeq
    <3>5. \A i \in 1 .. Len(group.mappings) : rest[i].n = group.mappings[i] /\ rest[i].marker \in Markers
      BY <3>1 DEF Markers
    <3>6. \A n \in Range(group.mappings) :
             n \in Members(group) /\ \E i \in 1 .. Len(group.mappings) : group.mappings[i] = n
      BY <1>1 DEF Members, Range
    <3>7. \A i \in 1 .. Len(group.mappings) : group.mappings[i] \in Range(group.mappings)
      BY <1>1 DEF Range
    <3> QED BY <3>4, <3>5, <3>6, <3>7
  <2> QED BY <2>1, <2>2
<1>4. Served(group) = first \o rest
  BY DEF Served
<1> HIDE DEF first, rest, T
<1>5. /\ Served(group) \in Seq(T)
      /\ Len(Served(group)) = Len(first) + Len(rest)
      /\ \A i \in 1 .. Len(first) + Len(rest) :
             Served(group)[i] = IF i <= Len(first) THEN first[i] ELSE rest[i - Len(first)]
  <2>1. first \in Seq(T) /\ rest \in Seq(T)
    BY <1>2, <1>3
  <2> QED BY ONLY <2>1, <1>4, ConcatProperties
<1>6. Len(first) \in Nat /\ Len(rest) \in Nat /\ Len(Served(group)) \in Nat
      /\ DOMAIN Served(group) = 1 .. Len(Served(group))
  BY <1>2, <1>3, <1>5, LenProperties
<1>7. ASSUME NEW i \in DOMAIN Served(group)
      PROVE  Served(group)[i].n \in Members(group) /\ Served(group)[i].marker \in Markers
  <2>1. CASE i <= Len(first)
    <3>1. i \in 1 .. Len(first) /\ Served(group)[i] = first[i]
      BY <2>1, <1>5, <1>6
    <3> QED BY <3>1, <1>2
  <2>2. CASE i > Len(first)
    <3>1. i - Len(first) \in 1 .. Len(rest) /\ Served(group)[i] = rest[i - Len(first)]
      BY <2>2, <1>5, <1>6
    <3> QED BY <3>1, <1>3
  <2>3. i <= Len(first) \/ i > Len(first)
    BY <1>6
  <2> QED BY <2>1, <2>2, <2>3
<1>8. group.shadow # 0 => \E i \in DOMAIN Served(group) : Served(group)[i].n = group.shadow
  <2> SUFFICES ASSUME group.shadow # 0
               PROVE  1 \in DOMAIN Served(group) /\ Served(group)[1].n = group.shadow
    OBVIOUS
  <2>1. Len(first) = 1 /\ first[1].n = group.shadow
    BY <1>2
  <2>2. 1 \in 1 .. Len(first) + Len(rest) /\ 1 <= Len(first)
    BY <1>6, <2>1
  <2>3. Served(group)[1] = first[1]
    BY <1>5, <2>2
  <2> QED BY <1>5, <1>6, <2>1, <2>2, <2>3
<1>9. ASSUME group.host_redirect = 0, NEW n \in Range(group.mappings)
      PROVE  \E i \in DOMAIN Served(group) : Served(group)[i].n = n
  <2>1. PICK i \in 1 .. Len(rest) : rest[i].n = n
    BY <1>3, <1>9
  <2>2. /\ Len(first) + i \in DOMAIN Served(group)
        /\ Served(group)[Len(first) + i] = rest[i]
    BY <1>5, <1>6, <2>1
  <2> QED BY <2>1, <2>2
<1> QED BY <1>6, <1>7, <1>8, <1>9
-----------------------------------------------------------------------------
ClustersOK ==
    /\ IsSeq(clusters)
    /\ cluster \in Seq(Nat) /\ Len(cluster) = Len(offered)
    /\ at \in Nat \ {0} /\ given \in Nat

HasFields(c) == DOMAIN c = {"key", "name", "mapping", "tls", "words", "policy", "active"}

(* The cluster c was made for the Mapping that it names, and there is an   *)
(* error about that Mapping unless the cluster is in use.                  *)
MadeFor(c) ==
    /\ HasFields(c)
    /\ c.mapping \in DOMAIN offered
    /\ \E marker \in Markers : c.key = cluster_name(offered[c.mapping], marker)
    /\ c.words = ServiceWords(offered[c.mapping])
    /\ c.tls = OriginateTLS(offered[c.mapping])
    /\ c.policy = IF EndpointsOn(offered[c.mapping]) THEN Policy(offered[c.mapping]) ELSE ""
    /\ ~c.active => c.mapping \in errors

(* Names of clusters are distinct, and a Mapping's cluster has the name    *)
(* that the Mapping gives it.                                              *)
ClusterInv ==
    /\ \A i \in DOMAIN clusters : MadeFor(clusters[i])
    /\ phase # "done" =>
          \A i \in DOMAIN clusters : clusters[i].name = [base |-> clusters[i].key, number |-> -1]
    /\ \A i, j \in DOMAIN clusters : clusters[i].key = clusters[j].key => i = j
    /\ \A n \in DOMAIN cluster :
           cluster[n] # 0 =>
               /\ cluster[n] \in DOMAIN clusters
               /\ \E marker \in Markers :
                      clusters[cluster[n]].key = cluster_name(offered[n], marker)

(* What a Mapping's cluster is called depends on nothing that changes. *)
LEMMA NamesStable ==
    ASSUME UNCHANGED <<enable_endpoints, load_balancer>>
    PROVE  /\ \A m, marker : cluster_name(m, marker)' = cluster_name(m, marker)
           /\ \A m : Policy(m)' = Policy(m) /\ (EndpointsOn(m)' <=> EndpointsOn(m))
<1>1. \A m : Policy(m)' = Policy(m) /\ (EndpointsOn(m)' <=> EndpointsOn(m))
  BY DEF EndpointsOn, Policy
<1>2. \A m : Suffix(m)' = Suffix(m)
  BY <1>1 DEF Suffix
<1> QED BY <1>1, <1>2 DEF cluster_name

(* A cluster remains made for its Mapping when more is offered or there    *)
(* are more errors.                                                        *)
LEMMA MadeForStable ==
    ASSUME UNCHANGED <<enable_endpoints, load_balancer>>,
           DOMAIN offered \subseteq DOMAIN offered',
           \A n \in DOMAIN offered : offered'[n] = offered[n],
           errors \subseteq errors'
    PROVE  \A c : MadeFor(c) => MadeFor(c)'
  BY NamesStable DEF MadeFor

(* The cluster that is made for a Mapping, and the errors that are posted  *)
(* for it.                                                                 *)
LEMMA IRClusterFacts ==
    ASSUME NEW n \in DOMAIN offered, NEW marker \in Markers,
           ClusterErrs(offered[n]) => n \in errors'
    PROVE  LET c == IRCluster(n, marker)
           IN  /\ c.key = cluster_name(offered[n], marker)
               /\ c.name = [base |-> c.key, number |-> -1]
               /\ c.mapping = n
               /\ c.words = ServiceWords(offered[n])
               /\ c.tls = OriginateTLS(offered[n])
               /\ c.policy = IF EndpointsOn(offered[n]) THEN Policy(offered[n]) ELSE ""
               /\ ~c.active => n \in errors'
               /\ HasFields(c)
  BY DEF IRCluster, ClusterErrs, HasFields

(* One step of the finalization of a group. *)
LEMMA ClusterStepAdd ==
    ASSUME GroupsOK, GroupInv, ClustersOK, ClusterInv, AddCluster
    PROVE  /\ ClustersOK' /\ ClusterInv'
           /\ \A n \in DOMAIN cluster :
                  cluster[n] # 0 \/ n = Served(groups[at])[given + 1].n => cluster'[n] # 0
<1> DEFINE group == groups[at]
           s == Served(group)[given + 1]
           c == IRCluster(s.n, s.marker)
           stored == add_cluster(c, clusters)
           mine == CHOOSE i \in DOMAIN stored : stored[i].key = cluster_name(offered[s.n], s.marker)
<1>1. /\ clusters' = stored
      /\ cluster' = [cluster EXCEPT ![s.n] = mine]
      /\ errors' = IF ClusterErrs(offered[s.n]) THEN errors \cup {s.n} ELSE errors
      /\ given' = given + 1
      /\ UNCHANGED <<enable_endpoints, load_balancer, offered, at, phase>>
      /\ phase = "finalize" /\ at <= Len(groups) /\ given < Len(Served(group))
  BY DEF AddCluster
<1>2. /\ at \in DOMAIN groups /\ group \in GroupType
  BY <1>1, LenProperties, ElementOfSeq DEF GroupsOK, ClustersOK
<1>3. s.n \in DOMAIN offered /\ s.marker \in Markers
  <2>1. given + 1 \in DOMAIN Served(group)
    <3> HIDE DEF group
    <3>1. Len(Served(group)) \in Nat /\ DOMAIN Served(group) = 1 .. Len(Served(group))
      BY <1>2, ServedFacts
    <3>2. given \in Nat /\ given < Len(Served(group))
      BY <1>1 DEF ClustersOK
    <3> QED BY <3>1, <3>2
  <2> HIDE DEF group
  <2>2. s.n \in Members(group) /\ s.marker \in Markers
    BY <1>2, <2>1, ServedFacts
  <2> QED BY <1>2, <2>2 DEF GroupInv, group
<1> HIDE DEF s, group
<1>4. /\ c.key = cluster_name(offered[s.n], s.marker)
      /\ c.name = [base |-> c.key, number |-> -1]
      /\ c.mapping = s.n
      /\ c.words = ServiceWords(offered[s.n])
      /\ c.tls = OriginateTLS(offered[s.n])
      /\ c.policy = IF EndpointsOn(offered[s.n]) THEN Policy(offered[s.n]) ELSE ""
      /\ ~c.active => s.n \in errors'
      /\ HasFields(c)
  BY <1>1, <1>3, IRClusterFacts
<1> HIDE DEF c
<1>5. /\ IsSeq(stored)
      /\ DOMAIN clusters \subseteq DOMAIN stored
      /\ DOMAIN stored \subseteq Nat \ {0}
      /\ \A i \in DOMAIN clusters : stored[i] = clusters[i]
      /\ \E i \in DOMAIN stored : stored[i].key = c.key
      /\ \A i \in DOMAIN stored \ DOMAIN clusters :
             /\ stored[i] = c
             /\ i = Len(clusters) + 1
             /\ \A j \in DOMAIN clusters : clusters[j].key # c.key
  BY AddClusterFacts DEF ClustersOK
<1> HIDE DEF stored
<1>6. mine \in DOMAIN stored /\ stored[mine].key = cluster_name(offered[s.n], s.marker)
  BY <1>4, <1>5
<1> HIDE DEF mine
<1>7. /\ DOMAIN cluster = DOMAIN offered
      /\ cluster' \in Seq(Nat) /\ Len(cluster') = Len(cluster)
      /\ DOMAIN cluster' = DOMAIN cluster
      /\ \A n \in DOMAIN cluster : cluster'[n] = IF n = s.n THEN mine ELSE cluster[n]
  <2>1. DOMAIN cluster = DOMAIN offered
    BY LenProperties DEF ClustersOK, GroupsOK
  <2>2. s.n \in 1 .. Len(cluster) /\ mine \in Nat
    BY <1>3, <1>5, <1>6, <2>1, LenProperties DEF ClustersOK
  <2> QED BY <1>1, <2>1, <2>2, ExceptSeq, LenProperties DEF ClustersOK
<1>8. ClustersOK'
  BY <1>1, <1>5, <1>7 DEF ClustersOK
<1>9. \A x : x = c => MadeFor(x)'
  BY <1>1, <1>3, <1>4, NamesStable DEF MadeFor
<1>10. ASSUME NEW i \in DOMAIN stored, NEW x, x = stored[i]
       PROVE  MadeFor(x)'
  <2>1. CASE i \in DOMAIN clusters
    <3>1. MadeFor(x)
      BY <2>1, <1>5, <1>10 DEF ClusterInv
    <3> QED BY <3>1, <1>1, MadeForStable
  <2>2. CASE i \notin DOMAIN clusters
    BY <2>2, <1>5, <1>9, <1>10
  <2> QED BY <2>1, <2>2
<1>11. \A i \in DOMAIN stored : stored[i].name = [base |-> stored[i].key, number |-> -1]
  BY <1>1, <1>4, <1>5 DEF ClusterInv
<1>12. ASSUME NEW i \in DOMAIN stored, NEW j \in DOMAIN stored, stored[i].key = stored[j].key
       PROVE  i = j
  <2>1. CASE i \in DOMAIN clusters /\ j \in DOMAIN clusters
    BY <2>1, <1>5, <1>12 DEF ClusterInv
  <2>2. CASE i \notin DOMAIN clusters \/ j \notin DOMAIN clusters
    BY <2>2, <1>5, <1>12
  <2> QED BY <2>1, <2>2
<1>13. ASSUME NEW n \in DOMAIN cluster, cluster'[n] # 0
       PROVE  /\ cluster'[n] \in DOMAIN stored
              /\ \E marker \in Markers :
                     stored[cluster'[n]].key = cluster_name(offered[n], marker)
  <2>1. CASE n = s.n
    BY <2>1, <1>3, <1>6, <1>7
  <2>2. CASE n # s.n
    <3>1. cluster'[n] = cluster[n]
      BY <2>2, <1>7
    <3>2. /\ cluster[n] \in DOMAIN clusters
          /\ \E marker \in Markers :
                 clusters[cluster[n]].key = cluster_name(offered[n], marker)
      BY <3>1, <1>13 DEF ClusterInv
    <3> QED BY <1>5, <3>1, <3>2
  <2> QED BY <2>1, <2>2
<1>14. ClusterInv'
  <2>1. ASSUME NEW n \in DOMAIN cluster', cluster'[n] # 0
        PROVE  /\ cluster'[n] \in DOMAIN clusters'
               /\ \E marker \in Markers :
                      clusters'[cluster'[n]].key = cluster_name(offered'[n], marker)
    BY <1>1, <1>7, <1>13, <2>1
  <2>2. \A m, marker : cluster_name(m, marker)' = cluster_name(m, marker)
    BY <1>1, NamesStable
  <2>3. \A i \in DOMAIN clusters' : MadeFor(clusters[i])'
    BY <1>1, <1>10
  <2> QED BY <1>1, <1>11, <1>12, <2>1, <2>2, <2>3 DEF ClusterInv
<1>15. \A n \in DOMAIN cluster :
           cluster[n] # 0 \/ n = Served(groups[at])[given + 1].n => cluster'[n] # 0
  BY <1>5, <1>6, <1>7 DEF s, group
<1> QED BY <1>8, <1>14, <1>15

(* What Mangle may put in place of a name. *)
LEMMA MangleFacts ==
    ASSUME ClustersOK, ClusterInv, Mangle
    PROVE  \E f \in Numbers :
             /\ IsSeq(clusters') /\ DOMAIN clusters' = DOMAIN clusters
             /\ \A i \in DOMAIN clusters :
                    /\ \A x, y : x = clusters[i] /\ y = clusters'[i] /\ MadeFor(x) => MadeFor(y)
                    /\ clusters'[i].key = clusters[i].key
                    /\ clusters'[i].name = IF i \in Long THEN [base |-> Short(i), number |-> f[i]]
                                           ELSE clusters[i].name
<1>1. PICK f \in Numbers :
        clusters' = [i \in DOMAIN clusters |->
                        IF i \in Long
                        THEN [clusters[i] EXCEPT !.name = [base |-> Short(i), number |-> f[i]]]
                        ELSE clusters[i]]
  BY DEF Mangle
<1>2. IsSeq(clusters') /\ DOMAIN clusters' = DOMAIN clusters
  <2>1. Len(clusters) \in Nat /\ DOMAIN clusters = 1 .. Len(clusters)
    BY SeqFacts DEF ClustersOK
  <2>2. /\ clusters' = [i \in 1 .. Len(clusters) |-> clusters'[i]]
        /\ \A i \in 1 .. Len(clusters) : clusters'[i] \in {clusters'[j] : j \in 1 .. Len(clusters)}
    BY <1>1, <2>1
  <2> DEFINE S == {clusters'[j] : j \in 1 .. Len(clusters)}
  <2> HIDE DEF S
  <2>3. clusters' \in Seq(S)
    BY <2>1, <2>2, FunctionIsSeq DEF S
  <2>4. DOMAIN clusters' = DOMAIN clusters
    BY <1>1
  <2> QED BY <2>3, <2>4 DEF IsSeq
<1>3. ASSUME NEW i \in DOMAIN clusters, NEW x, NEW y, x = clusters[i], y = clusters'[i], MadeFor(x)
      PROVE  /\ MadeFor(y) /\ y.key = x.key
             /\ y.name = IF i \in Long THEN [base |-> Short(i), number |-> f[i]] ELSE x.name
  <2>1. CASE i \notin Long
    BY <2>1, <1>1, <1>3
  <2>2. CASE i \in Long
    <3>1. y = [x EXCEPT !.name = [base |-> Short(i), number |-> f[i]]]
      BY <2>2, <1>1, <1>3
    <3>2. DOMAIN x = {"key", "name", "mapping", "tls", "words", "policy", "active"}
      BY <1>3 DEF MadeFor, HasFields
    <3>3. /\ DOMAIN y = DOMAIN x /\ y.name = [base |-> Short(i), number |-> f[i]]
          /\ y.key = x.key /\ y.mapping = x.mapping /\ y.tls = x.tls /\ y.words = x.words
          /\ y.policy = x.policy /\ y.active = x.active
      BY <3>1, <3>2
    <3>4. HasFields(y)
      BY <3>2, <3>3 DEF HasFields
    <3> QED BY <2>2, <3>3, <3>4, <1>3 DEF MadeFor
  <2> QED BY <2>1, <2>2
<1>4. ASSUME NEW i \in DOMAIN clusters
      PROVE  /\ \A x, y : x = clusters[i] /\ y = clusters'[i] /\ MadeFor(x) => MadeFor(y)
             /\ clusters'[i].key = clusters[i].key
             /\ clusters'[i].name = IF i \in Long THEN [base |-> Short(i), number |-> f[i]]
                                    ELSE clusters[i].name
  <2>1. MadeFor(clusters[i])
    BY DEF ClusterInv
  <2> QED BY <1>3, <2>1
<1> QED BY <1>2, <1>4

(* Clusters are only ever added, with new names and as their Mappings ask, *)
(* until Mangle renames them.                                              *)
LEMMA ClusterStep ==
    ASSUME GroupsOK, GroupInv, ClustersOK, ClusterInv, [Next]_vars
    PROVE  ClustersOK' /\ ClusterInv'
<1>1. CASE AddMapping
  <2>1. PICK m \in Mappings : AddedAs(m)
    BY <1>1, AddMappingFacts
  <2>2. /\ cluster' = Append(cluster, 0)
        /\ UNCHANGED <<enable_endpoints, load_balancer, clusters, at, given, phase>>
    BY <1>1 DEF AddMapping
  <2>3. /\ Len(offered) \in Nat
        /\ DOMAIN offered = 1 .. Len(offered) /\ DOMAIN offered' = 1 .. Len(offered) + 1
        /\ \A i \in DOMAIN offered : offered'[i] = offered[i]
        /\ errors \subseteq errors'
        /\ Len(offered') = Len(offered) + 1
    BY <2>1, LenProperties DEF AddedAs, GroupsOK
  <2>4. /\ cluster' \in Seq(Nat) /\ Len(cluster') = Len(cluster) + 1
        /\ DOMAIN cluster = 1 .. Len(offered) /\ DOMAIN cluster' = 1 .. Len(offered) + 1
        /\ \A n \in DOMAIN cluster : cluster'[n] = cluster[n]
        /\ cluster'[Len(offered) + 1] = 0
    BY <2>2, AppendProperties, LenProperties DEF ClustersOK
  <2>5. ClustersOK'
    BY <2>2, <2>3, <2>4 DEF ClustersOK
  <2>6. \A i \in DOMAIN clusters' : MadeFor(clusters[i])'
    <3> SUFFICES ASSUME NEW i \in DOMAIN clusters', NEW x, x = clusters'[i]
                 PROVE  MadeFor(x)'
      OBVIOUS
    <3>1. MadeFor(x)
      BY <2>2 DEF ClusterInv
    <3> QED BY <3>1, <2>2, <2>3, MadeForStable
  <2>7. ASSUME NEW n \in DOMAIN cluster', cluster'[n] # 0
        PROVE  /\ cluster'[n] \in DOMAIN clusters'
               /\ \E marker \in Markers :
                      clusters'[cluster'[n]].key = cluster_name(offered'[n], marker)
    <3>1. n \in DOMAIN cluster /\ cluster'[n] = cluster[n] /\ offered'[n] = offered[n]
      BY <2>3, <2>4, <2>7
    <3> QED BY <3>1, <2>2, <2>7 DEF ClusterInv
  <2>8. \A m1, marker : cluster_name(m1, marker)' = cluster_name(m1, marker)
    BY <2>2, NamesStable
  <2>9. ClusterInv'
    BY <2>2, <2>6, <2>7, <2>8 DEF ClusterInv
  <2> QED BY <2>5, <2>9
<1>2. CASE AddCluster
  BY <1>2, ClusterStepAdd
<1>3. CASE Mangle
  <2>1. PICK f \in Numbers :
             /\ IsSeq(clusters') /\ DOMAIN clusters' = DOMAIN clusters
             /\ \A i \in DOMAIN clusters :
                    /\ \A x, y : x = clusters[i] /\ y = clusters'[i] /\ MadeFor(x) => MadeFor(y)
                    /\ clusters'[i].key = clusters[i].key
                    /\ clusters'[i].name = IF i \in Long THEN [base |-> Short(i), number |-> f[i]]
                                           ELSE clusters[i].name
    BY <1>3, MangleFacts
  <2>2. /\ phase' = "done"
        /\ UNCHANGED <<enable_endpoints, load_balancer, offered, cluster, errors, at, given>>
    BY <1>3 DEF Mangle
  <2>3. ClustersOK'
    BY <2>1, <2>2 DEF ClustersOK
  <2>4. ASSUME NEW i \in DOMAIN clusters', NEW y, y = clusters'[i]
        PROVE  MadeFor(y)'
    <3>1. MadeFor(y)
      BY <2>1, <2>4 DEF ClusterInv
    <3> QED BY <3>1, <2>2, MadeForStable
  <2>5. \A i \in DOMAIN clusters' : MadeFor(clusters[i])'
    BY <2>4
  <2>6. \A m, marker : cluster_name(m, marker)' = cluster_name(m, marker)
    BY <2>2, NamesStable
  <2>7. ASSUME NEW n \in DOMAIN cluster', cluster'[n] # 0
        PROVE  /\ cluster'[n] \in DOMAIN clusters'
               /\ \E marker \in Markers :
                      clusters'[cluster'[n]].key = cluster_name(offered'[n], marker)
    <3>1. n \in DOMAIN cluster /\ cluster'[n] = cluster[n] /\ offered'[n] = offered[n]
      BY <2>2, <2>7
    <3>2. /\ cluster[n] \in DOMAIN clusters
          /\ \E marker \in Markers : clusters[cluster[n]].key = cluster_name(offered[n], marker)
      BY <3>1, <2>7 DEF ClusterInv
    <3> QED BY <3>1, <3>2, <2>1
  <2>8. \A i, j \in DOMAIN clusters' : clusters'[i].key = clusters'[j].key => i = j
    BY <2>1 DEF ClusterInv
  <2>9. ClusterInv'
    BY <2>2, <2>5, <2>6, <2>7, <2>8 DEF ClusterInv
  <2> QED BY <2>3, <2>9
<1>4. CASE LoadResolvers \/ EndMappings \/ EndGroup \/ UNCHANGED vars
  <2>1. /\ UNCHANGED <<enable_endpoints, load_balancer, offered, clusters, cluster, errors>>
        /\ phase = "done" => phase' = "done"
        /\ phase' = "done" => phase = "done"
    BY <1>4 DEF LoadResolvers, EndMappings, EndGroup, vars
  <2>2. ClustersOK'
    <3>1. at' \in Nat \ {0} /\ given' \in Nat
      <4>1. CASE EndGroup
        BY <4>1 DEF ClustersOK, EndGroup
      <4>2. CASE LoadResolvers \/ EndMappings \/ UNCHANGED vars
        BY <4>2 DEF ClustersOK, LoadResolvers, EndMappings, vars
      <4> QED BY <1>4, <4>1, <4>2
    <3> QED BY <2>1, <3>1 DEF ClustersOK
  <2>3. \A i \in DOMAIN clusters' : MadeFor(clusters[i])'
    BY <2>1, MadeForStable DEF ClusterInv
  <2>4. \A m, marker : cluster_name(m, marker)' = cluster_name(m, marker)
    BY <2>1, NamesStable
  <2>5. ASSUME NEW n \in DOMAIN cluster', cluster'[n] # 0
        PROVE  /\ cluster'[n] \in DOMAIN clusters'
               /\ \E marker \in Markers :
                      clusters'[cluster'[n]].key = cluster_name(offered'[n], marker)
    BY <2>1, <2>5 DEF ClusterInv
  <2>6. ClusterInv'
    BY <2>1, <2>3, <2>4, <2>5 DEF ClusterInv
  <2> QED BY <2>2, <2>6
<1> QED BY <1>1, <1>2, <1>3, <1>4 DEF Next
-----------------------------------------------------------------------------
(* A Mapping that there is no error about is in a group, and the groups    *)
(* that have been finalized have clusters for all the Mappings they serve. *)
AccountedInv ==
    /\ \A n \in DOMAIN offered : n \in errors \/ \E g \in DOMAIN groups : n \in Members(groups[g])
    /\ \A g \in DOMAIN groups :
           \A i \in DOMAIN Served(groups[g]) :
               g < at \/ (g = at /\ i <= given) => cluster[Served(groups[g])[i].n] # 0
    /\ phase \in {"resolvers", "mappings"} => at = 1 /\ given = 0
    /\ phase = "done" => at > Len(groups)

(* A Mapping is never at odds with the group that is made for it. *)
LEMMA FirstIsTaken ==
    ASSUME NEW m \in Mappings
    PROVE  Taken(m, EmptyGroup(m)) /\ EmptyGroup(m) \in GroupType
<1>1. m.prefix \in Seq(STRING) /\ m.headers \in Seq(STRING)
  BY RoutingAssumption DEF MappingType
<1>2. group_id(m) \in Seq(STRING)
  BY <1>1, ConcatProperties DEF group_id
<1>3. EmptyGroup(m) \in GroupType
  BY <1>2, EmptySeq DEF EmptyGroup, GroupType
<1> QED BY <1>3 DEF Taken, EmptyGroup, Mismatched, OptionalMismatch

(* Every step keeps account of the Mappings. *)
LEMMA AccountedStep ==
    ASSUME GroupsOK, GroupInv, ClustersOK, ClusterInv, AccountedInv, [Next]_vars
    PROVE  AccountedInv'
<1>1. GroupsOK' /\ GroupInv' /\ ClustersOK'
  BY GroupStep, ClusterStep
<1>2. \A g \in DOMAIN groups : groups[g] \in GroupType
  BY LenProperties, ElementOfSeq DEF GroupsOK
<1>3. CASE AddMapping
  <2>1. PICK m \in Mappings : AddedAs(m)
    BY <1>3, AddMappingFacts
  <2> DEFINE n == Len(offered) + 1
  <2>2. /\ n \in Nat \ {0}
        /\ \A k \in DOMAIN offered' : k \in DOMAIN offered \/ k = n
        /\ errors \subseteq errors'
    BY <2>1 DEF AddedAs
  <2>3. /\ phase = "mappings" /\ UNCHANGED <<at, given, phase>>
        /\ at = 1 /\ given = 0
    BY <1>3 DEF AddMapping, AccountedInv
  <2>4. /\ \A g \in DOMAIN groups : g \in DOMAIN groups' /\ Members(groups[g]) \subseteq Members(groups'[g])
        /\ n \in errors' \/ \E g \in DOMAIN groups' : n \in Members(groups'[g])
    <3>1. CASE UNCHANGED groups /\ errors' = errors \cup {n}
      BY <3>1
    <3>2. CASE groups' = Append(groups, Joined(m, n, EmptyGroup(m)))
      <4> DEFINE j == Joined(m, n, EmptyGroup(m))
      <4>1. n \in Members(j) /\ j \in GroupType
        BY <2>2, FirstIsTaken, JoinedType
      <4> HIDE DEF j
      <4>2. /\ DOMAIN groups = 1 .. Len(groups) /\ Len(groups) \in Nat
            /\ DOMAIN groups' = 1 .. Len(groups) + 1
            /\ \A g \in DOMAIN groups : groups'[g] = groups[g]
            /\ groups'[Len(groups) + 1] = j
        BY <3>2, <4>1, AppendProperties, LenProperties DEF GroupsOK, j
      <4> QED BY <4>1, <4>2
    <3>3. ASSUME NEW g \in GroupOf(m),
                 groups' = [h \in DOMAIN groups |->
                              IF h \in GroupOf(m) THEN Joined(m, n, groups[h]) ELSE groups[h]],
                 ~Taken(m, groups[g]) => n \in errors'
          PROVE  /\ \A h \in DOMAIN groups :
                        h \in DOMAIN groups' /\ Members(groups[h]) \subseteq Members(groups'[h])
                 /\ n \in errors' \/ \E h \in DOMAIN groups' : n \in Members(groups'[h])
      <4>1. g \in DOMAIN groups
        BY DEF GroupOf
      <4>2. ASSUME NEW h \in DOMAIN groups
            PROVE  h \in DOMAIN groups' /\ Members(groups[h]) \subseteq Members(groups'[h])
        <5>1. CASE h \in GroupOf(m)
          <6>1. groups'[h] = Joined(m, n, groups[h]) /\ h \in DOMAIN groups'
            BY <5>1, <3>3
          <6> QED BY <6>1, <2>2, <1>2, JoinedType
        <5>2. CASE h \notin GroupOf(m)
          BY <5>2, <3>3
        <5> QED BY <5>1, <5>2
      <4>3. CASE Taken(m, groups[g])
        <5>1. groups'[g] = Joined(m, n, groups[g]) /\ g \in DOMAIN groups'
          BY <4>1, <3>3
        <5>2. n \in Members(Joined(m, n, groups[g]))
          BY <4>3, <4>1, <2>2, <1>2, JoinedType
        <5> QED BY <5>1, <5>2, <4>2
      <4>4. CASE ~Taken(m, groups[g])
        BY <4>4, <4>2, <3>3
      <4> QED BY <4>3, <4>4
    <3> QED BY <2>1, <3>1, <3>2, <3>3 DEF AddedAs
  <2>5. \A k \in DOMAIN offered' :
           k \in errors' \/ \E g \in DOMAIN groups' : k \in Members(groups'[g])
    BY <2>2, <2>4 DEF AccountedInv
  <2>6. ASSUME NEW g \in DOMAIN groups', NEW i \in DOMAIN Served(groups'[g])
        PROVE  ~(g < at') /\ ~(g = at' /\ i <= given')
    <3>1. g \in Nat \ {0} /\ groups'[g] \in GroupType
      BY <1>1, LenProperties, ElementOfSeq DEF GroupsOK
    <3>2. i \in Nat \ {0}
      <4>1. DOMAIN Served(groups'[g]) = 1 .. Len(Served(groups'[g])) /\ Len(Served(groups'[g])) \in Nat
        BY <3>1, ServedFacts
      <4> QED BY <4>1
    <3> QED BY <2>3, <3>1, <3>2
  <2> QED BY <2>3, <2>5, <2>6 DEF AccountedInv
<1>4. CASE AddCluster
  <2>1. /\ UNCHANGED <<offered, groups, at, phase>> /\ errors \subseteq errors'
        /\ given' = given + 1 /\ phase = "finalize"
    BY <1>4 DEF AddCluster
  <2>2. \A n \in DOMAIN cluster :
           cluster[n] # 0 \/ n = Served(groups[at])[given + 1].n => cluster'[n] # 0
    BY <1>4, ClusterStepAdd
  <2>3. ASSUME NEW g \in DOMAIN groups, NEW i \in DOMAIN Served(groups[g]),
               g < at \/ (g = at /\ i <= given + 1)
        PROVE  cluster'[Served(groups[g])[i].n] # 0
    <3>1. i \in Nat
      <4>1. DOMAIN Served(groups[g]) = 1 .. Len(Served(groups[g])) /\ Len(Served(groups[g])) \in Nat
        BY <1>2, ServedFacts
      <4> QED BY <4>1
    <3>2. Served(groups[g])[i].n \in DOMAIN cluster
      <4>1. Served(groups[g])[i].n \in Members(groups[g])
        BY <1>2, ServedFacts
      <4>2. DOMAIN cluster = DOMAIN offered
        BY LenProperties DEF ClustersOK, GroupsOK
      <4> QED BY <4>1, <4>2 DEF GroupInv
    <3>3. CASE g < at \/ (g = at /\ i <= given)
      BY <3>2, <3>3, <2>2 DEF AccountedInv
    <3>4. CASE g = at /\ i = given + 1
      BY <3>2, <3>4, <2>2
    <3>5. given \in Nat
      BY DEF ClustersOK
    <3> QED BY <2>3, <3>1, <3>3, <3>4, <3>5
  <2> QED BY <2>1, <2>3 DEF AccountedInv
<1>5. CASE EndGroup
  <2>1. /\ UNCHANGED <<offered, groups, cluster, errors, phase>>
        /\ at' = at + 1 /\ given' = 0 /\ phase = "finalize"
        /\ given = Len(Served(groups[at]))
    BY <1>5 DEF EndGroup
  <2>2. ASSUME NEW g \in DOMAIN groups, NEW i \in DOMAIN Served(groups[g]),
               g < at + 1 \/ (g = at + 1 /\ i <= 0)
        PROVE  cluster[Served(groups[g])[i].n] # 0
    <3>1. DOMAIN Served(groups[g]) = 1 .. Len(Served(groups[g])) /\ Len(Served(groups[g])) \in Nat
      BY <1>2, ServedFacts
    <3>2. g \in Nat /\ at \in Nat
      BY LenProperties DEF GroupsOK, ClustersOK
    <3>3. g < at \/ (g = at /\ i <= given)
      BY <2>1, <2>2, <3>1, <3>2
    <3> QED BY <3>3 DEF AccountedInv
  <2> QED BY <2>1, <2>2 DEF AccountedInv
<1>6. CASE LoadResolvers \/ EndMappings \/ Mangle \/ UNCHANGED vars
  <2>1. /\ UNCHANGED <<offered, groups, cluster, errors, at, given>>
        /\ phase' \in {"resolvers", "mappings"} => phase \in {"resolvers", "mappings"}
        /\ phase' = "done" => phase = "done" \/ at > Len(groups)
    BY <1>6 DEF LoadResolvers, EndMappings, Mangle, vars
  <2> QED BY <2>1 DEF AccountedInv
<1> QED BY <1>3, <1>4, <1>5, <1>6 DEF Next

(* The invariants together. *)
IInv == GroupsOK /\ GroupInv /\ ClustersOK /\ ClusterInv /\ AccountedInv

(* They hold at the start and each step preserves them. *)
THEOREM Invariance == Spec => []IInv
<1>1. Init => IInv
  <2> SUFFICES ASSUME Init PROVE IInv
    OBVIOUS
  <2>1. DOMAIN <<>> = {} /\ IsSeq(<<>>) /\ Len(<<>>) = 0 /\ <<>> \in Seq(Nat) /\ <<>> \in Seq(Mappings)
        /\ <<>> \in Seq(GroupType)
    BY EmptySeq DEF IsSeq
  <2>2. GroupsOK /\ GroupInv
    BY <2>1 DEF Init, GroupsOK, GroupInv
  <2>3. ClustersOK
    <3>1. IsSeq(clusters) /\ cluster \in Seq(Nat) /\ Len(cluster) = Len(offered)
      BY <2>1 DEF Init
    <3>2. at = 1 /\ given = 0
      BY DEF Init
    <3>3. at \in Nat \ {0} /\ given \in Nat
      BY <3>2
    <3> QED BY <3>1, <3>3 DEF ClustersOK
  <2>5. ClusterInv
    BY <2>1 DEF Init, ClusterInv
  <2>4. AccountedInv
    BY <2>1 DEF Init, AccountedInv
  <2> QED BY <2>2, <2>3, <2>4, <2>5 DEF IInv
<1>2. IInv /\ [Next]_vars => IInv'
  BY GroupStep, ClusterStep, AccountedStep DEF IInv
<1> QED
  BY <1>1, <1>2, PTL DEF Spec

(* No Mapping is lost without a word, except to its group's redirect.      *)
THEOREM Accounted == Spec => []MappingsAccounted
<1>1. IInv => MappingsAccounted
  <2> SUFFICES ASSUME IInv, phase = "done", NEW n \in DOMAIN offered
               PROVE  \/ n \in errors
                      \/ \E g \in DOMAIN groups : groups[g].host_redirect = n
                      \/ \E g \in DOMAIN groups :
                            n \in Range(groups[g].mappings) /\ groups[g].host_redirect # 0
                      \/ cluster[n] # 0 /\ (clusters[cluster[n]].active
                                               \/ clusters[cluster[n]].mapping \in errors)
    BY DEF MappingsAccounted
  <2>1. CASE n \in errors
    BY <2>1
  <2>2. ASSUME NEW g \in DOMAIN groups, n \in Members(groups[g]), groups[g].host_redirect # n,
               n \in Range(groups[g].mappings) => groups[g].host_redirect = 0
        PROVE  cluster[n] # 0 /\ (clusters[cluster[n]].active \/ clusters[cluster[n]].mapping \in errors)
    <3>1. groups[g] \in GroupType /\ g \in Nat /\ g < at
      BY LenProperties, ElementOfSeq DEF IInv, GroupsOK, ClustersOK, AccountedInv
    <3>2. \E i \in DOMAIN Served(groups[g]) : Served(groups[g])[i].n = n
      <4>1. CASE n \in Range(groups[g].mappings)
        BY <4>1, <2>2, <3>1, ServedFacts
      <4>2. CASE n = groups[g].shadow /\ n # 0
        BY <4>2, <3>1, ServedFacts
      <4> QED BY <4>1, <4>2, <2>2 DEF Members
    <3>3. cluster[n] # 0
      BY <3>1, <3>2 DEF IInv, AccountedInv
    <3>4. n \in DOMAIN cluster
      BY LenProperties DEF IInv, GroupsOK, ClustersOK
    <3>5. MadeFor(clusters[cluster[n]])
      BY <3>3, <3>4 DEF IInv, ClusterInv
    <3> QED BY <3>3, <3>5 DEF MadeFor
  <2>3. n \in errors \/ \E g \in DOMAIN groups : n \in Members(groups[g])
    BY DEF IInv, AccountedInv
  <2> QED BY <2>1, <2>2, <2>3
<1> QED BY <1>1, Invariance, PTL
-----------------------------------------------------------------------------
(* Concatenation of sequences of whatever elements. *)
LEMMA ConcatFacts ==
    ASSUME NEW s, IsSeq(s), NEW t, IsSeq(t)
    PROVE  /\ IsSeq(s \o t)
           /\ Len(s) \in Nat /\ Len(t) \in Nat /\ Len(s \o t) = Len(s) + Len(t)
           /\ \A i \in 1 .. Len(s) : (s \o t)[i] = s[i]
           /\ \A i \in 1 .. Len(t) : (s \o t)[Len(s) + i] = t[i]
<1>1. PICK S, T : s \in Seq(S) /\ t \in Seq(T)
  BY DEF IsSeq
<1> DEFINE U == S \cup T
<1>2. s \in Seq(U) /\ t \in Seq(U)
  BY <1>1, SeqMonotonic
<1> HIDE DEF U
<1>3. /\ s \o t \in Seq(U) /\ Len(s \o t) = Len(s) + Len(t)
      /\ Len(s) \in Nat /\ Len(t) \in Nat
      /\ \A i \in 1 .. Len(s) + Len(t) : (s \o t)[i] = IF i <= Len(s) THEN s[i] ELSE t[i - Len(s)]
  BY <1>2, ConcatProperties, LenProperties
<1>4. ASSUME NEW i \in 1 .. Len(t) PROVE (s \o t)[Len(s) + i] = t[i]
  <2>1. Len(s) + i \in 1 .. Len(s) + Len(t) /\ ~(Len(s) + i <= Len(s)) /\ Len(s) + i - Len(s) = i
    BY <1>3
  <2> QED BY <1>3, <2>1
<1>5. \A i \in 1 .. Len(s) : (s \o t)[i] = s[i]
  BY <1>3
<1> QED BY <1>3, <1>4, <1>5 DEF IsSeq

IsConcat(r, s, t) ==
    /\ IsSeq(r)
    /\ Len(s) \in Nat /\ Len(t) \in Nat /\ Len(r) = Len(s) + Len(t)
    /\ \A i \in 1 .. Len(s) : r[i] = s[i]
    /\ \A i \in 1 .. Len(t) : r[Len(s) + i] = t[i]

(* What IsConcat says is so of `\o'. *)
LEMMA Concat == ASSUME NEW s, IsSeq(s), NEW t, IsSeq(t) PROVE IsConcat(s \o t, s, t)
  BY ConcatFacts DEF IsConcat

(* Sequences are equal when their elements are. *)
LEMMA SeqsEqual ==
    ASSUME NEW s, IsSeq(s), NEW t, IsSeq(t), Len(s) = Len(t), \A i \in 1 .. Len(s) : s[i] = t[i]
    PROVE  s = t
<1>1. PICK S, T : s \in Seq(S) /\ t \in Seq(T)
  BY DEF IsSeq
<1>2. s \in Seq(S \cup T) /\ t \in Seq(S \cup T)
  BY <1>1, SeqMonotonic
<1> QED BY <1>2, SeqEqual

(* Tuples of up to three elements. *)
LEMMA ShortSeqs ==
    /\ IsSeq(<<>>) /\ Len(<<>>) = 0
    /\ \A a : IsSeq(<<a>>) /\ Len(<<a>>) = 1 /\ <<a>>[1] = a
    /\ \A a, b : IsSeq(<<a, b>>) /\ Len(<<a, b>>) = 2 /\ <<a, b>>[1] = a /\ <<a, b>>[2] = b
    /\ \A a, b, c : IsSeq(<<a, b, c>>) /\ Len(<<a, b, c>>) = 3
                      /\ <<a, b, c>>[1] = a /\ <<a, b, c>>[2] = b /\ <<a, b, c>>[3] = c
<1>1. <<>> \in Seq({}) /\ \A a : <<a>> \in Seq({a})
  OBVIOUS
<1>2. \A a, b : <<a, b>> \in Seq({a, b})
  OBVIOUS
<1>3. \A a, b, c : <<a, b, c>> \in Seq({a, b, c})
  OBVIOUS
<1> QED BY <1>1, <1>2, <1>3 DEF IsSeq

(* Words before the first mark, and what follows from it on, are known     *)
(* from the whole.                                                         *)
LEMMA FirstMark ==
    ASSUME NEW w1, NEW w2, NEW t1, NEW t2, IsSeq(w1), IsSeq(w2), IsSeq(t1), IsSeq(t2),
           w1 \o t1 = w2 \o t2,
           \A i \in 1 .. Len(w1) : w1[i] \notin Marks,
           \A i \in 1 .. Len(w2) : w2[i] \notin Marks,
           Len(t1) # 0 => t1[1] \in Marks,
           Len(t2) # 0 => t2[1] \in Marks
    PROVE  w1 = w2 /\ t1 = t2
<1>1. /\ Len(w1) \in Nat /\ Len(w2) \in Nat /\ Len(t1) \in Nat /\ Len(t2) \in Nat
      /\ Len(w1) + Len(t1) = Len(w2) + Len(t2)
      /\ \A i \in 1 .. Len(w1) : (w1 \o t1)[i] = w1[i]
      /\ \A i \in 1 .. Len(w2) : (w1 \o t1)[i] = w2[i]
      /\ \A i \in 1 .. Len(t1) : (w1 \o t1)[Len(w1) + i] = t1[i]
      /\ \A i \in 1 .. Len(t2) : (w1 \o t1)[Len(w2) + i] = t2[i]
  <2>1. /\ Len(w1) \in Nat /\ Len(t1) \in Nat /\ Len(w1 \o t1) = Len(w1) + Len(t1)
        /\ \A i \in 1 .. Len(w1) : (w1 \o t1)[i] = w1[i]
        /\ \A i \in 1 .. Len(t1) : (w1 \o t1)[Len(w1) + i] = t1[i]
    <3>1. IsSeq(w1) /\ IsSeq(t1)
      OBVIOUS
    <3> QED BY ONLY <3>1, ConcatFacts
  <2>2. /\ Len(w2) \in Nat /\ Len(t2) \in Nat /\ Len(w2 \o t2) = Len(w2) + Len(t2)
        /\ \A i \in 1 .. Len(w2) : (w2 \o t2)[i] = w2[i]
        /\ \A i \in 1 .. Len(t2) : (w2 \o t2)[Len(w2) + i] = t2[i]
    <3>1. IsSeq(w2) /\ IsSeq(t2)
      OBVIOUS
    <3> QED BY ONLY <3>1, ConcatFacts
  <2> QED BY <2>1, <2>2
<1>2. ~(Len(w1) < Len(w2))
  <2> SUFFICES ASSUME Len(w1) < Len(w2) PROVE FALSE
    OBVIOUS
  <2>1. Len(t1) # 0 /\ 1 \in 1 .. Len(t1) /\ Len(w1) + 1 \in 1 .. Len(w2)
    BY <1>1
  <2>2. t1[1] = w2[Len(w1) + 1]
    BY <1>1, <2>1
  <2> QED BY <2>1, <2>2
<1>3. ~(Len(w2) < Len(w1))
  <2> SUFFICES ASSUME Len(w2) < Len(w1) PROVE FALSE
    OBVIOUS
  <2>1. Len(t2) # 0 /\ 1 \in 1 .. Len(t2) /\ Len(w2) + 1 \in 1 .. Len(w1)
    BY <1>1
  <2>2. t2[1] = w1[Len(w2) + 1]
    BY <1>1, <2>1
  <2> QED BY <2>1, <2>2
<1>4. Len(w1) = Len(w2) /\ Len(t1) = Len(t2)
  BY <1>1, <1>2, <1>3
<1>5. w1 = w2
  BY <1>1, <1>4, SeqsEqual
<1>6. t1 = t2
  BY <1>1, <1>4, SeqsEqual
<1> QED BY <1>5, <1>6

(* A suffix begins with a mark, unless it is empty; its length tells       *)
(* whether there are endpoints, given TLS; and it ends in the policy.      *)
LEMMA SuffixFacts ==
    ASSUME NEW m \in Mappings
    PROVE  /\ IsSeq(Suffix(m)) /\ Len(Suffix(m)) \in Nat
           /\ \E c \in {0, 1} :
                  Len(Suffix(m)) = (IF OriginateTLS(m) THEN 1 + c ELSE 0) + (IF EndpointsOn(m) THEN 2 ELSE 0)
           /\ OriginateTLS(m) => Suffix(m)[1] = "otls"
           /\ ~OriginateTLS(m) /\ Len(Suffix(m)) # 0 => Suffix(m)[1] = "er"
           /\ EndpointsOn(m) => Suffix(m)[Len(Suffix(m))] = Policy(m)
<1> DEFINE o == IF OriginateTLS(m) THEN <<"otls">> ELSE <<>>
           c == IF m.scheme = "" THEN Word(Context(m)) ELSE <<>>
           e == IF EndpointsOn(m) THEN <<"er", Policy(m)>> ELSE <<>>
<1>1. /\ IsSeq(o)
      /\ OriginateTLS(m) => Len(o) = 1 /\ o[1] = "otls"
      /\ ~OriginateTLS(m) => Len(o) = 0
  BY ShortSeqs
<1>2. /\ IsSeq(c) /\ Len(c) \in {0, 1}
      /\ ~OriginateTLS(m) => Len(c) = 0
  <2>1. /\ IsSeq(Word(Context(m))) /\ Len(Word(Context(m))) \in {0, 1}
        /\ Context(m) = "" => Len(Word(Context(m))) = 0
    BY ShortSeqs DEF Word
  <2>2. ~OriginateTLS(m) => Context(m) = ""
    BY DEF OriginateTLS
  <2> QED BY <2>1, <2>2, ShortSeqs
<1>3. /\ IsSeq(e)
      /\ EndpointsOn(m) => Len(e) = 2 /\ e[1] = "er" /\ e[2] = Policy(m)
      /\ ~EndpointsOn(m) => Len(e) = 0
  BY ShortSeqs
<1>4. Suffix(m) = o \o (c \o e)
  BY DEF Suffix
<1> HIDE DEF o, c, e
<1>5. /\ IsSeq(c \o e) /\ Len(e) \in Nat /\ Len(c \o e) = Len(c) + Len(e)
      /\ \A i \in 1 .. Len(e) : (c \o e)[Len(c) + i] = e[i]
  <2>1. IsSeq(c) /\ IsSeq(e)
    BY <1>2, <1>3
  <2> QED BY ONLY <2>1, ConcatFacts
<1>6. /\ IsSeq(Suffix(m)) /\ Len(o) \in Nat
      /\ Len(Suffix(m)) = Len(o) + (Len(c) + Len(e))
      /\ \A i \in 1 .. Len(o) : Suffix(m)[i] = o[i]
      /\ \A i \in 1 .. Len(c) + Len(e) : Suffix(m)[Len(o) + i] = (c \o e)[i]
  <2>1. IsSeq(o) /\ IsSeq(c \o e)
    BY <1>1, <1>5
  <2>2. /\ IsSeq(o \o (c \o e)) /\ Len(o) \in Nat
        /\ Len(o \o (c \o e)) = Len(o) + Len(c \o e)
        /\ \A i \in 1 .. Len(o) : (o \o (c \o e))[i] = o[i]
        /\ \A i \in 1 .. Len(c \o e) : (o \o (c \o e))[Len(o) + i] = (c \o e)[i]
    BY ONLY <2>1, ConcatFacts
  <2> QED BY ONLY <2>2, <1>4, <1>5
<1>7. Len(Suffix(m)) \in Nat
  BY <1>2, <1>5, <1>6
<1>8. CASE OriginateTLS(m)
  <2>1. Len(o) = 1 /\ Suffix(m)[1] = "otls"
    BY <1>1, <1>6, <1>8
  <2>2. CASE EndpointsOn(m)
    <3>1. Len(e) = 2 /\ Len(Suffix(m)) = 1 + Len(c) + 2
      <4>1. Len(o) = 1 /\ Len(e) = 2 /\ Len(Suffix(m)) = Len(o) + (Len(c) + Len(e)) /\ Len(c) \in Nat
        BY <2>1, <2>2, <1>2, <1>3, <1>6
      <4> QED BY ONLY <4>1
    <3>2. Len(c) + 2 \in 1 .. Len(c) + Len(e) /\ Len(Suffix(m)) = Len(o) + (Len(c) + 2) /\ 2 \in 1 .. Len(e)
      BY <3>1, <2>1, <1>2
    <3>3. Suffix(m)[Len(Suffix(m))] = e[2]
      BY <3>2, <1>5, <1>6
    <3> QED BY <3>1, <3>3, <2>1, <2>2, <1>2, <1>3, <1>6, <1>7, <1>8
  <2>3. CASE ~EndpointsOn(m)
    <3>1. Len(Suffix(m)) = 1 + Len(c)
      BY <2>1, <2>3, <1>2, <1>3, <1>6
    <3> QED BY <3>1, <2>1, <2>3, <1>2, <1>6, <1>7, <1>8
  <2> QED BY <2>2, <2>3
<1>9. CASE ~OriginateTLS(m)
  <2>1. Len(o) = 0 /\ Len(c) = 0
    BY <1>1, <1>2, <1>9
  <2>2. CASE EndpointsOn(m)
    <3>1. Len(e) = 2 /\ Len(Suffix(m)) = 2
      BY <2>1, <2>2, <1>3, <1>6
    <3>2. 1 \in 1 .. Len(e) /\ 2 \in 1 .. Len(e)
      BY <3>1
    <3>3. Suffix(m)[0 + 1] = (c \o e)[0 + 1] /\ Suffix(m)[0 + 2] = (c \o e)[0 + 2]
      BY <3>1, <2>1, <1>6
    <3>4. Suffix(m)[1] = "er" /\ Suffix(m)[2] = Policy(m)
      BY <3>2, <3>3, <2>1, <2>2, <1>3, <1>5
    <3> QED BY <3>1, <3>4, <2>2, <1>6, <1>9
  <2>3. CASE ~EndpointsOn(m)
    <3>1. Len(Suffix(m)) = 0
      BY <2>1, <2>3, <1>3, <1>6
    <3> QED BY <3>1, <2>3, <1>6, <1>9
  <2> QED BY <2>2, <2>3
<1> QED BY <1>8, <1>9

(* The words of a service are at least one, and none of them is a mark     *)
(* unless the host has one.                                                *)
LEMMA ServiceFacts ==
    ASSUME NEW m \in Mappings
    PROVE  /\ IsSeq(ServiceWords(m)) /\ Len(ServiceWords(m)) \in Nat \ {0}
           /\ Range(m.host) \cap Marks = {} =>
                 \A i \in 1 .. Len(ServiceWords(m)) : ServiceWords(m)[i] \notin Marks
<1> DEFINE s == IF m.scheme = "" THEN <<>> ELSE <<m.scheme, "", "">>
           h == m.host
           p == IF m.port = 0 THEN <<>> ELSE <<ToString(m.port)>>
<1>1. /\ m.scheme \in {"", "http", "https"} /\ m.host \in Seq(STRING) /\ m.host # <<>>
      /\ ToString(m.port) \notin Marks
  BY RoutingAssumption, NumeralAssumption DEF MappingType
<1>2. IsSeq(s) /\ Len(s) \in Nat /\ \A i \in 1 .. Len(s) : s[i] \notin Marks
  <2>1. CASE m.scheme = ""
    <3>1. IsSeq(s) /\ Len(s) = 0
      BY <2>1, ShortSeqs
    <3> HIDE DEF s
    <3> QED BY ONLY <3>1
  <2>2. CASE m.scheme # ""
    <3>1. IsSeq(s) /\ Len(s) = 3 /\ s[1] = m.scheme /\ s[2] = "" /\ s[3] = ""
      BY <2>2, ShortSeqs
    <3>2. m.scheme \notin Marks /\ "" \notin Marks
      BY <1>1 DEF Marks
    <3> HIDE DEF s
    <3>3. \A i \in 1 .. Len(s) : i = 1 \/ i = 2 \/ i = 3
      <4>1. Len(s) = 3
        BY <3>1
      <4> QED BY ONLY <4>1
    <3>4. s[1] \notin Marks /\ s[2] \notin Marks /\ s[3] \notin Marks
      BY <3>1, <3>2
    <3>5. IsSeq(s) /\ Len(s) \in Nat
      <4>1. IsSeq(s) /\ Len(s) = 3
        BY <3>1
      <4> QED BY ONLY <4>1
    <3> QED BY ONLY <3>3, <3>4, <3>5
  <2> QED BY <2>1, <2>2
<1>3. IsSeq(p) /\ Len(p) \in Nat /\ \A i \in 1 .. Len(p) : p[i] \notin Marks
  <2>1. CASE m.port = 0
    <3>1. IsSeq(p) /\ Len(p) = 0
      BY <2>1, ShortSeqs
    <3> HIDE DEF p
    <3> QED BY ONLY <3>1
  <2>2. CASE m.port # 0
    <3>1. IsSeq(p) /\ Len(p) = 1 /\ p[1] = ToString(m.port)
      BY <2>2, ShortSeqs
    <3> HIDE DEF p
    <3>2. \A i \in 1 .. Len(p) : i = 1
      BY ONLY <3>1
    <3>3. ToString(m.port) \notin Marks
      BY <1>1
    <3> QED BY ONLY <3>1, <3>2, <3>3
  <2> QED BY <2>1, <2>2
<1>4. /\ IsSeq(h) /\ Len(h) \in Nat \ {0}
      /\ Range(m.host) \cap Marks = {} => \A i \in 1 .. Len(h) : h[i] \notin Marks
  <2>1. DOMAIN h = 1 .. Len(h) /\ Len(h) \in Nat \ {0}
    BY <1>1, EmptySeq, LenProperties
  <2> QED BY <1>1, <2>1 DEF IsSeq, Range
<1>5. ServiceWords(m) = (s \o h) \o p
  BY DEF ServiceWords
<1> HIDE DEF s, h, p
<1>6. /\ IsSeq(s \o h) /\ Len(s \o h) = Len(s) + Len(h)
      /\ \A i \in 1 .. Len(s) : (s \o h)[i] = s[i]
      /\ \A i \in 1 .. Len(h) : (s \o h)[Len(s) + i] = h[i]
  <2>1. IsSeq(s) /\ IsSeq(h)
    BY <1>2, <1>4
  <2> QED BY ONLY <2>1, ConcatFacts
<1>7. /\ IsSeq(ServiceWords(m)) /\ Len(ServiceWords(m)) = Len(s \o h) + Len(p)
      /\ \A i \in 1 .. Len(s \o h) : ServiceWords(m)[i] = (s \o h)[i]
      /\ \A i \in 1 .. Len(p) : ServiceWords(m)[Len(s \o h) + i] = p[i]
  <2>1. IsSeq(s \o h) /\ IsSeq(p)
    BY <1>3, <1>6
  <2>2. /\ IsSeq((s \o h) \o p) /\ Len((s \o h) \o p) = Len(s \o h) + Len(p)
        /\ \A i \in 1 .. Len(s \o h) : ((s \o h) \o p)[i] = (s \o h)[i]
        /\ \A i \in 1 .. Len(p) : ((s \o h) \o p)[Len(s \o h) + i] = p[i]
    BY ONLY <2>1, ConcatFacts
  <2> QED BY ONLY <2>2, <1>5
<1>8. Len(ServiceWords(m)) \in Nat \ {0}
  BY <1>2, <1>3, <1>4, <1>6, <1>7
<1>9. ASSUME Range(m.host) \cap Marks = {}, NEW i \in 1 .. Len(ServiceWords(m))
      PROVE  ServiceWords(m)[i] \notin Marks
  <2>1. CASE i <= Len(s)
    <3>1. i \in 1 .. Len(s) /\ i \in 1 .. Len(s \o h)
      BY <2>1, <1>2, <1>4, <1>6, <1>8
    <3> QED BY <3>1, <1>2, <1>6, <1>7
  <2>2. CASE i > Len(s) /\ i <= Len(s) + Len(h)
    <3>1. i - Len(s) \in 1 .. Len(h) /\ i \in 1 .. Len(s \o h) /\ i = Len(s) + (i - Len(s))
      BY <2>2, <1>2, <1>4, <1>6, <1>8
    <3>2. ServiceWords(m)[i] = h[i - Len(s)]
      BY <3>1, <1>6, <1>7
    <3> QED BY <3>1, <3>2, <1>4, <1>9
  <2>3. CASE i > Len(s) + Len(h)
    <3> DEFINE k == i - Len(s \o h)
    <3>1. k \in 1 .. Len(p) /\ i = Len(s \o h) + k
      BY <2>3, <1>2, <1>3, <1>4, <1>6, <1>7, <1>8
    <3>2. ServiceWords(m)[i] = p[k]
      BY <3>1, <1>7
    <3> QED BY <3>1, <3>2, <1>3
  <2>4. i \in Nat /\ Len(s) \in Nat /\ Len(h) \in Nat
    BY <1>2, <1>4, <1>8
  <2> QED BY <2>1, <2>2, <2>3, <2>4
<1> QED BY <1>7, <1>8, <1>9

(* The marker shows in the length of the prefix. *)
LEMMA PrefixFacts ==
    ASSUME NEW marker \in Markers
    PROVE  /\ IsSeq(Prefix(marker))
           /\ marker = "" => Len(Prefix(marker)) = 1
           /\ marker = "shadow" => Len(Prefix(marker)) = 2 /\ Prefix(marker)[2] = "shadow"
<1> DEFINE w == Word(marker)
           k == <<"cluster">>
<1>1. IsSeq(k) /\ IsSeq(w) /\ Len(k) = 1
  BY ShortSeqs DEF Word
<1>2. marker = "" => Len(w) = 0
  BY ShortSeqs DEF Word
<1>3. marker = "shadow" => Len(w) = 1 /\ w[1] = "shadow"
  BY ShortSeqs DEF Word
<1>4. Prefix(marker) = k \o w
  BY DEF Prefix
<1> HIDE DEF w, k
<1>5. PICK r : r = k \o w /\ IsConcat(r, k, w)
  BY <1>1, Concat
<1>6. IsSeq(r) /\ Len(r) = 1 + Len(w) /\ \A i \in 1 .. Len(w) : r[1 + i] = w[i]
  <2>1. Len(k) = 1
    BY <1>1
  <2> QED BY ONLY <1>5, <2>1 DEF IsConcat
<1>7. CASE marker = ""
  <2>1. Len(w) = 0
    BY <1>2, <1>7
  <2>2. Len(r) = 1
    <3>1. Len(r) = 1 + Len(w)
      BY <1>6
    <3> QED BY <2>1, <3>1
  <2> QED BY <1>4, <1>5, <1>6, <1>7, <2>2
<1>8. CASE marker = "shadow"
  <2>1. Len(w) = 1
    BY <1>3, <1>8
  <2>2. r[1 + 1] = w[1] /\ Len(r) = 2
    <3>1. Len(r) = 1 + Len(w) /\ 1 \in 1 .. Len(w)
      BY <1>6, <2>1
    <3>2. r[1 + 1] = w[1]
      BY <3>1, <1>6
    <3> QED BY <2>1, <3>1, <3>2
  <2>3. r[2] = w[1] /\ w[1] = "shadow"
    BY <2>2, <1>3, <1>8
  <2> QED BY <1>4, <1>5, <1>6, <1>8, <2>2, <2>3
<1> QED BY <1>7, <1>8 DEF Markers

(* What a name is made of, and where each part of it is. *)
LEMMA NameParts ==
    ASSUME NEW m \in Mappings, NEW marker \in Markers
    PROVE  LET key == cluster_name(m, marker)
               rest == ServiceWords(m) \o Suffix(m)
           IN  /\ IsSeq(key) /\ IsSeq(rest) /\ key = Prefix(marker) \o rest
               /\ Len(rest) \in Nat \ {0} /\ Len(key) = Len(Prefix(marker)) + Len(rest)
               /\ rest[1] = ServiceWords(m)[1]
               /\ \A i \in 1 .. Len(Prefix(marker)) : key[i] = Prefix(marker)[i]
               /\ \A i \in 1 .. Len(rest) : key[Len(Prefix(marker)) + i] = rest[i]
<1> DEFINE p == Prefix(marker)
           w == ServiceWords(m)
           x == Suffix(m)
<1>1. IsSeq(p) /\ IsSeq(w) /\ IsSeq(x) /\ Len(w) \in Nat \ {0}
  BY PrefixFacts, ServiceFacts, SuffixFacts
<1>2. cluster_name(m, marker) = p \o (w \o x)
  BY DEF cluster_name
<1> HIDE DEF p, w, x
<1>3. PICK r : r = w \o x /\ IsConcat(r, w, x)
  BY <1>1, Concat
<1>4. IsSeq(r) /\ Len(r) \in Nat \ {0} /\ r[1] = w[1]
  <2>1. Len(w) \in Nat \ {0}
    BY <1>1
  <2>2. Len(x) \in Nat /\ Len(r) = Len(w) + Len(x) /\ 1 \in 1 .. Len(w)
    BY <1>3, <2>1 DEF IsConcat
  <2>3. IsSeq(r) /\ r[1] = w[1]
    BY <1>3, <2>2 DEF IsConcat
  <2> QED BY <2>1, <2>2, <2>3
<1>5. PICK key : key = p \o r /\ IsConcat(key, p, r)
  BY <1>1, <1>4, Concat
<1> QED BY <1>2, <1>3, <1>4, <1>5 DEF p, w, x, IsConcat

(* Names that are equal are of services that are, reached in the same way. *)
LEMMA SameName ==
    ASSUME NEW m1 \in Mappings, NEW m2 \in Mappings, NEW k1 \in Markers, NEW k2 \in Markers,
           cluster_name(m1, k1) = cluster_name(m2, k2),
           Range(m1.host) \cap Marks = {}, Range(m2.host) \cap Marks = {}
    PROVE  /\ ServiceWords(m1) = ServiceWords(m2)
           /\ OriginateTLS(m1) <=> OriginateTLS(m2)
           /\ EndpointsOn(m1) <=> EndpointsOn(m2)
           /\ EndpointsOn(m1) => Policy(m1) = Policy(m2)
<1> DEFINE w1 == ServiceWords(m1)
           w2 == ServiceWords(m2)
           x1 == Suffix(m1)
           x2 == Suffix(m2)
           r1 == w1 \o x1
           r2 == w2 \o x2
           p1 == Prefix(k1)
           p2 == Prefix(k2)
           key == cluster_name(m1, k1)
<1>1. /\ IsSeq(r1) /\ Len(r1) \in Nat \ {0} /\ Len(key) = Len(p1) + Len(r1)
      /\ r1[1] = w1[1]
      /\ \A i \in 1 .. Len(p1) : key[i] = p1[i]
      /\ \A i \in 1 .. Len(r1) : key[Len(p1) + i] = r1[i]
  BY NameParts
<1>2. /\ IsSeq(r2) /\ Len(r2) \in Nat \ {0} /\ Len(key) = Len(p2) + Len(r2)
      /\ r2[1] = w2[1]
      /\ \A i \in 1 .. Len(p2) : key[i] = p2[i]
      /\ \A i \in 1 .. Len(r2) : key[Len(p2) + i] = r2[i]
  <2> DEFINE other == cluster_name(m2, k2)
  <2>1. /\ IsSeq(r2) /\ Len(r2) \in Nat \ {0} /\ Len(other) = Len(p2) + Len(r2)
        /\ r2[1] = w2[1]
        /\ \A i \in 1 .. Len(p2) : other[i] = p2[i]
        /\ \A i \in 1 .. Len(r2) : other[Len(p2) + i] = r2[i]
    BY NameParts
  <2>2. key = other
    OBVIOUS
  <2> HIDE DEF key, other, r2, p2, w2
  <2> QED BY <2>1, <2>2
<1>3. /\ IsSeq(w1) /\ IsSeq(w2) /\ Len(w1) \in Nat \ {0} /\ Len(w2) \in Nat \ {0}
      /\ \A i \in 1 .. Len(w1) : w1[i] \notin Marks
      /\ \A i \in 1 .. Len(w2) : w2[i] \notin Marks
  BY ServiceFacts
<1>4. w1[1] \notin Marks /\ w2[1] \notin Marks
  BY <1>3
<1>5. r1[1] # "shadow" /\ r2[1] # "shadow"
  BY <1>1, <1>2, <1>4 DEF Marks
<1>6. \/ Len(p1) = 1 /\ k1 = ""
      \/ Len(p1) = 2 /\ p1[2] = "shadow" /\ k1 = "shadow"
  BY PrefixFacts DEF Markers
<1>7. \/ Len(p2) = 1 /\ k2 = ""
      \/ Len(p2) = 2 /\ p2[2] = "shadow" /\ k2 = "shadow"
  BY PrefixFacts DEF Markers
<1> HIDE DEF w1, w2, x1, x2, r1, r2, p1, p2, key
<1>8. Len(p1) = Len(p2) /\ Len(p1) \in Nat
  <2>1. Len(p1) \in {1, 2} /\ Len(p2) \in {1, 2}
    BY <1>6, <1>7
  <2>2. CASE Len(p1) = 1 /\ Len(p2) = 2
    <3>1. key[1 + 1] = r1[1]
      BY <1>1, <2>2
    <3>2. key[2] = p2[2]
      BY <1>2, <2>2
    <3>3. p2[2] = "shadow"
      BY <1>7, <2>2
    <3> QED BY <3>1, <3>2, <3>3, <1>5
  <2>3. CASE Len(p1) = 2 /\ Len(p2) = 1
    <3>1. key[1 + 1] = r2[1]
      BY <1>2, <2>3
    <3>2. key[2] = p1[2]
      BY <1>1, <2>3
    <3>3. p1[2] = "shadow"
      BY <1>6, <2>3
    <3> QED BY <3>1, <3>2, <3>3, <1>5
  <2> QED BY <2>1, <2>2, <2>3
<1>9. r1 = r2
  <2>1. Len(r1) = Len(r2)
    BY <1>1, <1>2, <1>8
  <2>2. \A i \in 1 .. Len(r1) : r1[i] = r2[i]
    BY <1>1, <1>2, <1>8, <2>1
  <2> QED BY <1>1, <1>2, <2>1, <2>2, SeqsEqual
<1>10. /\ IsSeq(x1) /\ IsSeq(x2)
       /\ Len(x1) # 0 => x1[1] \in Marks
       /\ Len(x2) # 0 => x2[1] \in Marks
  BY SuffixFacts DEF x1, x2, Marks
<1>11. w1 \o x1 = w2 \o x2
  BY <1>9 DEF r1, r2
<1>12. w1 = w2 /\ x1 = x2
  BY ONLY <1>3, <1>10, <1>11, FirstMark
<1>13. \A m \in {m1, m2} :
          /\ \E c \in {0, 1} :
                Len(x1) = (IF OriginateTLS(m) THEN 1 + c ELSE 0) + (IF EndpointsOn(m) THEN 2 ELSE 0)
          /\ OriginateTLS(m) => x1[1] = "otls"
          /\ ~OriginateTLS(m) /\ Len(x1) # 0 => x1[1] = "er"
          /\ EndpointsOn(m) => x1[Len(x1)] = Policy(m)
  BY <1>12, SuffixFacts DEF x1, x2
<1>14. OriginateTLS(m1) <=> OriginateTLS(m2)
  <2>1. \A m \in {m1, m2} : OriginateTLS(m) => Len(x1) # 0 /\ x1[1] = "otls"
    BY <1>13
  <2>2. \A m \in {m1, m2} : ~OriginateTLS(m) => Len(x1) = 0 \/ x1[1] # "otls"
    BY <1>13
  <2> QED BY <2>1, <2>2
<1>15. EndpointsOn(m1) <=> EndpointsOn(m2)
  <2>1. PICK c1 \in {0, 1} :
          Len(x1) = (IF OriginateTLS(m1) THEN 1 + c1 ELSE 0) + (IF EndpointsOn(m1) THEN 2 ELSE 0)
    BY <1>13
  <2>2. PICK c2 \in {0, 1} :
          Len(x1) = (IF OriginateTLS(m2) THEN 1 + c2 ELSE 0) + (IF EndpointsOn(m2) THEN 2 ELSE 0)
    BY <1>13
  <2>3. CASE OriginateTLS(m1) /\ OriginateTLS(m2)
    <3>1. Len(x1) = 1 + c1 + (IF EndpointsOn(m1) THEN 2 ELSE 0)
      BY <2>1, <2>3
    <3>2. Len(x1) = 1 + c2 + (IF EndpointsOn(m2) THEN 2 ELSE 0)
      BY <2>2, <2>3
    <3> QED BY <3>1, <3>2
  <2>4. CASE ~OriginateTLS(m1) /\ ~OriginateTLS(m2)
    <3>1. Len(x1) = IF EndpointsOn(m1) THEN 2 ELSE 0
      BY <2>1, <2>4
    <3>2. Len(x1) = IF EndpointsOn(m2) THEN 2 ELSE 0
      BY <2>2, <2>4
    <3> QED BY <3>1, <3>2
  <2> QED BY <1>14, <2>3, <2>4
<1> QED BY <1>12, <1>13, <1>14, <1>15 DEF w1, w2

(* Mappings share a cluster only if it is right for each of them. *)
THEOREM SharedRightly == Spec => []OwnService
<1>1. IInv => OwnService
  <2> SUFFICES ASSUME IInv, \A n \in DOMAIN offered : Range(offered[n].host) \cap Marks = {},
                      NEW n \in DOMAIN cluster, cluster[n] # 0
               PROVE  LET c == clusters[cluster[n]]
                          m == offered[n]
                      IN  /\ c.words = ServiceWords(m)
                          /\ c.tls = OriginateTLS(m)
                          /\ c.policy = IF EndpointsOn(m) THEN Policy(m) ELSE ""
    BY DEF OwnService
  <2> DEFINE c == clusters[cluster[n]]
  <2>1. cluster[n] \in DOMAIN clusters
    BY DEF IInv, ClusterInv
  <2>2. PICK k1 \in Markers : c.key = cluster_name(offered[n], k1)
    BY DEF IInv, ClusterInv
  <2>3. MadeFor(c)
    BY <2>1 DEF IInv, ClusterInv
  <2>4. PICK k2 \in Markers : c.key = cluster_name(offered[c.mapping], k2)
    BY <2>3 DEF MadeFor
  <2> HIDE DEF c
  <2>5. /\ n \in DOMAIN offered /\ c.mapping \in DOMAIN offered
        /\ offered[n] \in Mappings /\ offered[c.mapping] \in Mappings
    <3>1. /\ DOMAIN offered = 1 .. Len(offered) /\ DOMAIN cluster = 1 .. Len(offered)
          /\ \A i \in 1 .. Len(offered) : offered[i] \in Mappings
      BY LenProperties, ElementOfSeq DEF IInv, GroupsOK, ClustersOK
    <3>2. c.mapping \in DOMAIN offered
      BY <2>3 DEF MadeFor
    <3> QED BY <3>1, <3>2
  <2> DEFINE m1 == offered[n]
             m2 == offered[c.mapping]
  <2>6. /\ ServiceWords(m1) = ServiceWords(m2)
        /\ OriginateTLS(m1) <=> OriginateTLS(m2)
        /\ EndpointsOn(m1) <=> EndpointsOn(m2)
        /\ EndpointsOn(m1) => Policy(m1) = Policy(m2)
    <3>1. cluster_name(m1, k1) = cluster_name(m2, k2)
      BY <2>2, <2>4
    <3>2. Range(m1.host) \cap Marks = {} /\ Range(m2.host) \cap Marks = {}
      BY <2>5
    <3> HIDE DEF m1, m2
    <3>3. m1 \in Mappings /\ m2 \in Mappings
      BY <2>5 DEF m1, m2
    <3> QED BY <3>1, <3>2, <3>3, SameName
  <2>7. /\ c.words = ServiceWords(m2)
        /\ c.tls = OriginateTLS(m2)
        /\ c.policy = IF EndpointsOn(m2) THEN Policy(m2) ELSE ""
    BY <2>3 DEF MadeFor
  <2> HIDE DEF m1, m2
  <2>8. c.tls = OriginateTLS(m1)
    BY <2>6, <2>7 DEF OriginateTLS
  <2>9. c.policy = IF EndpointsOn(m1) THEN Policy(m1) ELSE ""
    BY <2>6, <2>7
  <2> QED BY <2>6, <2>7, <2>8, <2>9 DEF c, m1
<1> QED BY <1>1, Invariance, PTL
-----------------------------------------------------------------------------
(* Numbers that count from 0 all the names of one short form tell them     *)
(* apart.                                                                  *)
LEMMA NumbersApart ==
    ASSUME ClustersOK, NEW f \in Numbers, NEW i \in Long, NEW j \in Long,
           Short(i) = Short(j), f[i] = f[j]
    PROVE  i = j
<1>1. Len(clusters) \in Nat /\ DOMAIN clusters = 1 .. Len(clusters)
  BY SeqFacts DEF ClustersOK
<1> DEFINE C == Colliding(i)
           n == Cardinality(C)
           g == [k \in C |-> f[k]]
<1>2. i \in C /\ j \in C /\ C \subseteq 1 .. Len(clusters)
  BY <1>1 DEF Colliding, Long
<1>3. IsFiniteSet(C)
  <2>1. IsFiniteSet(1 .. Len(clusters))
    BY <1>1, FS_Interval
  <2> QED BY <1>2, <2>1, FS_Subset
<1>4. n \in Nat
  BY <1>3, FS_CardinalityType
<1>5. {f[k] : k \in C} = 0 .. n - 1
  BY DEF Numbers
<1> HIDE DEF C, n
<1>6. Cardinality(0 .. n - 1) = n
  BY <1>4, FS_Interval
<1>7. g \in Surjection(C, 0 .. n - 1)
  <2>1. \A k \in C : g[k] \in 0 .. n - 1
    BY <1>5
  <2>2. \A t \in 0 .. n - 1 : \E k \in C : g[k] = t
    BY <1>5
  <2> QED BY <2>1, <2>2 DEF Surjection
<1>8. g \in Injection(C, 0 .. n - 1)
  BY <1>3, <1>6, <1>7, FS_SurjSameCardinalityImpliesInj DEF n
<1>9. g[i] = g[j]
  BY <1>2
<1> QED BY <1>2, <1>8, <1>9 DEF Injection, IsInjective

(* Shortened names have numbers, others have none.                         *)
LEMMA NamesStep ==
    ASSUME IInv, NamesDistinct, [Next]_vars
    PROVE  NamesDistinct'
<1>1. CASE Mangle
  <2>1. PICK f \in Numbers :
             /\ IsSeq(clusters') /\ DOMAIN clusters' = DOMAIN clusters
             /\ \A i \in DOMAIN clusters :
                    /\ \A x, y : x = clusters[i] /\ y = clusters'[i] /\ MadeFor(x) => MadeFor(y)
                    /\ clusters'[i].key = clusters[i].key
                    /\ clusters'[i].name = IF i \in Long THEN [base |-> Short(i), number |-> f[i]]
                                           ELSE clusters[i].name
    BY <1>1, MangleFacts DEF IInv
  <2>2. /\ \A i \in DOMAIN clusters : clusters[i].name = [base |-> clusters[i].key, number |-> -1]
        /\ \A i, j \in DOMAIN clusters : clusters[i].key = clusters[j].key => i = j
    BY <1>1 DEF Mangle, IInv, ClusterInv
  <2>3. \A i \in Long : i \in DOMAIN clusters /\ f[i] \in Nat
    <3>1. Len(clusters) \in Nat /\ DOMAIN clusters = 1 .. Len(clusters)
      BY SeqFacts DEF IInv, ClustersOK
    <3>2. IsFiniteSet(Long)
      <4>1. Long \subseteq 1 .. Len(clusters)
        BY <3>1 DEF Long
      <4>2. IsFiniteSet(1 .. Len(clusters))
        BY <3>1, FS_Interval
      <4> QED BY <4>1, <4>2, FS_Subset
    <3>3. Cardinality(Long) \in Nat
      BY <3>2, FS_CardinalityType
    <3>4. f \in [Long -> 0 .. Cardinality(Long)]
      BY DEF Numbers
    <3> QED BY <3>3, <3>4 DEF Long
  <2>4. ASSUME NEW i \in DOMAIN clusters
        PROVE  IF i \in Long
               THEN clusters'[i].name.base = Short(i) /\ clusters'[i].name.number = f[i]
               ELSE clusters'[i].name.base = clusters[i].key /\ clusters'[i].name.number = -1
    <3>1. CASE i \in Long
      <4>1. clusters'[i].name = [base |-> Short(i), number |-> f[i]]
        BY <2>1, <3>1
      <4> QED BY <3>1, <4>1
    <3>2. CASE i \notin Long
      <4>1. clusters'[i].name = clusters[i].name
        BY <2>1, <3>2
      <4>2. clusters[i].name = [base |-> clusters[i].key, number |-> -1]
        BY <2>2
      <4> QED BY <3>2, <4>1, <4>2
    <3> QED BY <3>1, <3>2
  <2>5. ASSUME NEW i \in DOMAIN clusters, NEW j \in DOMAIN clusters,
               clusters'[i].name = clusters'[j].name
        PROVE  i = j
    <3>1. CASE i \in Long /\ j \in Long
      <4>1. Short(i) = Short(j) /\ f[i] = f[j]
        BY <2>4, <2>5, <3>1
      <4> QED BY <3>1, <4>1, NumbersApart DEF IInv
    <3>2. CASE i \notin Long /\ j \notin Long
      BY <2>2, <2>4, <2>5, <3>2
    <3>3. CASE ~(i \in Long <=> j \in Long)
      <4>1. clusters'[i].name.number # clusters'[j].name.number
        BY <2>3, <2>4, <3>3
      <4> QED BY <2>5, <4>1
    <3> QED BY <3>1, <3>2, <3>3
  <2>6. ASSUME NEW i \in DOMAIN clusters
        PROVE  Len(clusters'[i].name.base) <= MaxName
    <3>1. IsSeq(clusters[i].key)
      <4>1. MadeFor(clusters[i])
        BY DEF IInv, ClusterInv
      <4>2. PICK n \in DOMAIN offered, marker \in Markers : clusters[i].key = cluster_name(offered[n], marker)
        BY <4>1 DEF MadeFor
      <4>3. offered[n] \in Mappings
        BY LenProperties, ElementOfSeq DEF IInv, GroupsOK
      <4> QED BY <4>2, <4>3, NameParts
    <3> DEFINE key == clusters[i].key
    <3>2. Len(key) \in Nat /\ MaxName \in Nat /\ ShortName \in Nat /\ ShortName < MaxName
      BY <3>1, SeqFacts, RoutingAssumption
    <3>3. CASE i \in Long
      <4>1. clusters'[i].name.base = SubSeq(key, 1, ShortName) /\ Len(key) > MaxName
        BY <2>4, <3>3 DEF Short, Long
      <4> HIDE DEF key
      <4>2. PICK S : key \in Seq(S)
        BY <3>1 DEF IsSeq, key
      <4>3. \A k \in 1 .. ShortName : key[k] \in S
        BY <4>1, <4>2, <3>2, ElementOfSeq
      <4>4. Len(SubSeq(key, 1, ShortName)) = IF 1 <= ShortName THEN ShortName - 1 + 1 ELSE 0
        BY <4>3, <3>2, SubSeqProperties
      <4>5. Len(SubSeq(key, 1, ShortName)) <= MaxName
        BY <4>4, <3>2
      <4> QED BY <4>1, <4>5
    <3>4. CASE i \notin Long
      <4>1. clusters'[i].name.base = key /\ ~(Len(key) > MaxName)
        BY <2>4, <3>4 DEF Long
      <4> HIDE DEF key
      <4>2. Len(key) <= MaxName
        BY <3>2, <4>1
      <4> QED BY <4>1, <4>2
    <3> QED BY <3>3, <3>4
  <2> QED BY <2>1, <2>5, <2>6 DEF NamesDistinct
<1>2. CASE UNCHANGED vars
  BY <1>2 DEF NamesDistinct, vars
<1>3. CASE LoadResolvers \/ AddMapping \/ EndMappings \/ AddCluster \/ EndGroup
  <2>1. phase' # "done"
    BY <1>3 DEF LoadResolvers, AddMapping, EndMappings, AddCluster, EndGroup
  <2> QED BY <2>1 DEF NamesDistinct
<1> QED BY <1>1, <1>2, <1>3 DEF Next

(* Envoy never gets two clusters of one name, nor a name that is too long. *)
THEOREM NamesApart == Spec => []NamesDistinct
<1>1. Init => NamesDistinct
  BY DEF Init, NamesDistinct
<1>2. IInv /\ NamesDistinct /\ [Next]_vars => NamesDistinct'
  BY NamesStep
<1> QED BY <1>1, <1>2, Invariance, PTL DEF Spec
-----------------------------------------------------------------------------
(* Induction over finite sets: a collection of subsets of S that has a set *)
(* whenever it has all the smaller ones has S.                             *)
LEMMA SubsetInduction ==
    ASSUME NEW S, IsFiniteSet(S), NEW Good,
           \A T \in SUBSET S : (\A U \in SUBSET T : U # T => U \in Good) => T \in Good
    PROVE  \A T \in SUBSET S : T \in Good
<1> DEFINE Bad == (SUBSET S) \ Good
<1> SUFFICES ASSUME Bad # {} PROVE FALSE
  OBVIOUS
<1>1. Bad \subseteq FiniteSubsetsOf(S)
  BY FS_Subset DEF FiniteSubsetsOf
<1>2. PICK T \in Bad : \A U \in Bad : ~(<<U, T>> \in StrictSubsetOrdering(S))
  <2>1. IsWellFoundedOn(StrictSubsetOrdering(S), FiniteSubsetsOf(S))
    BY FS_StrictSubsetOrderingWellFounded
  <2> HIDE DEF Bad
  <2> QED BY <1>1, <2>1, WFMin
<1>3. ASSUME NEW U \in SUBSET T, U # T PROVE U \in Good
  <2>1. U \in SUBSET S
    BY <1>2
  <2>2. <<U, T>> \in StrictSubsetOrdering(S)
    BY <2>1, <1>2, <1>3 DEF StrictSubsetOrdering
  <2> QED BY <1>2, <2>1, <2>2
<1> QED BY <1>2, <1>3

(* The element that the folds of the library take first. *)
Pick(s) == CHOOSE x \in s : TRUE

(* g is the table of sums over the subsets of S that defines SumFunctionOnSet. *)
Summing(f, S, g) ==
    g = [s \in SUBSET S |-> IF s = {} THEN 0 ELSE f[Pick(s)] + g[s \ {Pick(s)}]]

(* SumFunctionOnSet chooses such a table. *)
LEMMA SumUnfolded ==
    ASSUME NEW f, NEW S
    PROVE  SumFunctionOnSet(f, S) = (CHOOSE g : Summing(f, S, g))[S]
BY DEF SumFunctionOnSet, FoldFunctionOnSet, MapThenFoldSet, Summing, Pick

(* There is always something to take. *)
LEMMA PickIn == ASSUME NEW s, s # {} PROVE Pick(s) \in s
BY DEF Pick

(* There is one way of summing the values of f over the subsets of S. *)
LEMMA SummingUnique ==
    ASSUME NEW f, NEW S, IsFiniteSet(S), NEW g, Summing(f, S, g), NEW h, Summing(f, S, h)
    PROVE  g = h
<1> DEFINE Good == {T \in SUBSET S : g[T] = h[T]}
<1>1. ASSUME NEW T \in SUBSET S, \A U \in SUBSET T : U # T => U \in Good
      PROVE  T \in Good
  <2>1. CASE T = {}
    BY <2>1 DEF Summing
  <2>2. CASE T # {}
    <3> DEFINE x == Pick(T)
    <3>1. x \in T
      BY <2>2, PickIn
    <3>2. g[T \ {x}] = h[T \ {x}]
      BY <1>1, <3>1
    <3>3. g[T] = f[x] + g[T \ {x}] /\ h[T] = f[x] + h[T \ {x}]
      BY <1>1, <2>2 DEF Summing
    <3> QED BY <3>2, <3>3
  <2> QED BY <2>1, <2>2
<1>2. \A T \in SUBSET S : T \in Good
  <2> HIDE DEF Good
  <2> QED BY <1>1, SubsetInduction
<1>3. \A T \in SUBSET S : g[T] = h[T]
  BY <1>2
<1> QED BY <1>3 DEF Summing

(* It sums over the subsets of a subset, too. *)
LEMMA SummingSubset ==
    ASSUME NEW f, NEW S, NEW g, Summing(f, S, g), NEW T \in SUBSET S
    PROVE  Summing(f, T, [s \in SUBSET T |-> g[s]])
<1>1. ASSUME NEW s \in SUBSET T
      PROVE  g[s] = IF s = {} THEN 0
                    ELSE f[Pick(s)] + [u \in SUBSET T |-> g[u]][s \ {Pick(s)}]
  <2>1. s \in SUBSET S /\ s \ {Pick(s)} \in SUBSET T
    OBVIOUS
  <2> QED BY <2>1 DEF Summing
<1> QED BY <1>1 DEF Summing

(* And there is such a way. *)
LEMMA SummingExists ==
    ASSUME NEW f, NEW S, IsFiniteSet(S)
    PROVE  \E g : Summing(f, S, g)
<1> DEFINE Good == {T \in SUBSET S : \E g : Summing(f, T, g)}
<1>1. ASSUME NEW T \in SUBSET S, \A U \in SUBSET T : U # T => U \in Good
      PROVE  T \in Good
  <2> DEFINE G(U) == CHOOSE g : Summing(f, U, g)
             x == Pick(T)
             top == IF T = {} THEN 0 ELSE f[x] + G(T \ {x})[T \ {x}]
             h == [s \in SUBSET T |-> IF s = T THEN top ELSE G(s)[s]]
  <2>1. ASSUME NEW U \in SUBSET T, U # T PROVE Summing(f, U, G(U))
    BY <1>1, <2>1
  <2>2. ASSUME NEW U \in SUBSET T, U # T, NEW V \in SUBSET U
        PROVE  G(U)[V] = G(V)[V]
    <3>1. V \in SUBSET T /\ V # T /\ IsFiniteSet(V)
      BY <1>1, <2>2, FS_Subset
    <3>2. Summing(f, V, [s \in SUBSET V |-> G(U)[s]])
      <4>1. Summing(f, U, G(U))
        BY <2>1, <2>2
      <4> HIDE DEF G
      <4> QED BY <4>1, SummingSubset
    <3>3. Summing(f, V, G(V))
      BY <2>1, <3>1
    <3>4. G(V) = [s \in SUBSET V |-> G(U)[s]]
      <4> HIDE DEF G
      <4> QED BY <3>1, <3>2, <3>3, SummingUnique
    <3> HIDE DEF G
    <3> QED BY <3>4
  <2>3. ASSUME NEW s \in SUBSET T
        PROVE  h[s] = IF s = {} THEN 0 ELSE f[Pick(s)] + h[s \ {Pick(s)}]
    <3> HIDE DEF G
    <3>1. CASE s = T /\ s = {}
      BY <3>1
    <3>2. CASE s = T /\ s # {}
      <4>1. x \in T /\ s \ {x} \in SUBSET T /\ s \ {x} # T
        BY <3>2, PickIn
      <4>2. h[s \ {x}] = G(T \ {x})[T \ {x}]
        BY <3>2, <4>1
      <4> QED BY <3>2, <4>2
    <3>3. CASE s # T /\ s = {}
      <4>1. Summing(f, s, G(s))
        BY <2>1, <3>3
      <4> QED BY <3>3, <4>1 DEF Summing
    <3>4. CASE s # T /\ s # {}
      <4>1. Pick(s) \in s
        BY <3>4, PickIn
      <4> DEFINE u == s \ {Pick(s)}
      <4>2. u \in SUBSET s /\ u \in SUBSET T /\ u # T
        BY <3>4, <4>1
      <4>3. Summing(f, s, G(s))
        BY <2>1, <3>4
      <4>4. G(s)[s] = f[Pick(s)] + G(s)[u]
        BY <3>4, <4>3 DEF Summing
      <4>5. G(s)[u] = G(u)[u]
        BY <2>2, <3>4, <4>2
      <4>6. h[s] = G(s)[s] /\ h[u] = G(u)[u]
        BY <3>4, <4>2
      <4> QED BY <3>4, <4>4, <4>5, <4>6
    <3> QED BY <3>1, <3>2, <3>3, <3>4
  <2>4. Summing(f, T, h)
    <3>1. h = [s \in SUBSET T |-> h[s]]
      OBVIOUS
    <3> HIDE DEF h
    <3> QED BY <2>3, <3>1 DEF Summing
  <2> HIDE DEF h
  <2> QED BY <2>4
<1>2. \A T \in SUBSET S : T \in Good
  <2> HIDE DEF Good
  <2> QED BY <1>1, SubsetInduction
<1>3. S \in Good
  BY <1>2
<1> QED BY <1>3

(* The recursion that defines a sum. *)
LEMMA SumEquation ==
    ASSUME NEW f, NEW S, IsFiniteSet(S)
    PROVE  SumFunctionOnSet(f, S) =
               IF S = {} THEN 0 ELSE f[Pick(S)] + SumFunctionOnSet(f, S \ {Pick(S)})
<1> DEFINE G(T) == CHOOSE g : Summing(f, T, g)
           R == S \ {Pick(S)}
<1>1. IsFiniteSet(R)
  BY FS_RemoveElement
<1>2. Summing(f, S, G(S)) /\ Summing(f, R, G(R))
  BY <1>1, SummingExists
<1>3. SumFunctionOnSet(f, S) = G(S)[S] /\ SumFunctionOnSet(f, R) = G(R)[R]
  BY SumUnfolded
<1> HIDE DEF G
<1>4. Summing(f, R, [s \in SUBSET R |-> G(S)[s]])
  BY <1>2, SummingSubset
<1>5. G(R) = [s \in SUBSET R |-> G(S)[s]]
  BY <1>1, <1>2, <1>4, SummingUnique
<1>6. G(S)[R] = G(R)[R]
  BY <1>5
<1>7. G(S)[S] = IF S = {} THEN 0 ELSE f[Pick(S)] + G(S)[R]
  BY <1>2 DEF Summing
<1> QED BY <1>3, <1>6, <1>7

(* A sum of integers is one, and any of them can be taken out first. *)
LEMMA SumFacts ==
    ASSUME NEW f, NEW S, IsFiniteSet(S), \A x \in S : f[x] \in Int
    PROVE  /\ SumFunctionOnSet(f, S) \in Int
           /\ \A x \in S : SumFunctionOnSet(f, S) = f[x] + SumFunctionOnSet(f, S \ {x})
<1> DEFINE Sum(T) == SumFunctionOnSet(f, T)
           Good == {T \in SUBSET S : /\ Sum(T) \in Int
                                     /\ \A x \in T : Sum(T) = f[x] + Sum(T \ {x})}
<1>0. ASSUME NEW T \in SUBSET S
      PROVE  /\ T = {} => Sum(T) = 0
             /\ T # {} => Pick(T) \in T /\ Sum(T) = f[Pick(T)] + Sum(T \ {Pick(T)})
  <2>1. IsFiniteSet(T)
    BY FS_Subset
  <2> QED BY <2>1, SumEquation, PickIn
<1>1. ASSUME NEW T \in SUBSET S, \A U \in SUBSET T : U # T => U \in Good
      PROVE  T \in Good
  <2> HIDE DEF Sum
  <2>1. CASE T = {}
    <3>1. Sum(T) = 0 /\ \A x \in T : FALSE
      BY <1>0, <2>1
    <3> QED BY <3>1
  <2>2. CASE T # {}
    <3> DEFINE c == Pick(T)
    <3>1. c \in T /\ f[c] \in Int /\ Sum(T) = f[c] + Sum(T \ {c})
      BY <1>0, <2>2
    <3>2. Sum(T \ {c}) \in Int
      BY <1>1, <3>1
    <3>3. ASSUME NEW x \in T PROVE Sum(T) = f[x] + Sum(T \ {x})
      <4>1. CASE x = c
        BY <3>1, <4>1
      <4>2. CASE x # c
        <5> DEFINE R == T \ {c, x}
        <5>1. Sum(T \ {c}) = f[x] + Sum(R)
          <6>1. T \ {c} \in Good /\ x \in T \ {c} /\ (T \ {c}) \ {x} = R
            BY <1>1, <3>1, <4>2
          <6> QED BY <6>1
        <5>2. Sum(T \ {x}) = f[c] + Sum(R)
          <6>1. T \ {x} \in Good /\ c \in T \ {x} /\ (T \ {x}) \ {c} = R
            BY <1>1, <3>1, <4>2
          <6> QED BY <6>1
        <5>3. Sum(R) \in Int /\ f[x] \in Int
          BY <1>1, <3>1
        <5> HIDE DEF R
        <5> QED BY <3>1, <5>1, <5>2, <5>3
      <4> QED BY <4>1, <4>2
    <3> QED BY <3>1, <3>2, <3>3
  <2> QED BY <2>1, <2>2
<1>2. \A T \in SUBSET S : T \in Good
  <2> HIDE DEF Good
  <2> QED BY <1>1, SubsetInduction
<1>3. S \in Good
  <2> HIDE DEF Good
  <2> QED BY <1>2
<1> QED BY <1>3

(* Induction by one element at a time. *)
LEMMA ElementInduction ==
    ASSUME NEW S, IsFiniteSet(S), NEW Good, {} \in Good,
           \A T \in SUBSET S : \A x \in T : T \ {x} \in Good => T \in Good
    PROVE  S \in Good
<1>1. ASSUME NEW T \in SUBSET S, \A U \in SUBSET T : U # T => U \in Good
      PROVE  T \in Good
  <2>1. CASE T = {}
    BY <2>1
  <2>2. CASE T # {}
    <3>1. PICK x \in T : TRUE
      BY <2>2
    <3>2. T \ {x} \in SUBSET T /\ T \ {x} # T
      BY <3>1
    <3>3. T \ {x} \in Good
      BY <1>1, <3>2
    <3> QED BY <3>1, <3>3
  <2> QED BY <2>1, <2>2
<1> QED BY <1>1, SubsetInduction

Sum(f, S) == SumFunctionOnSet(f, S)

(* What is needed of products, which the provers cannot always find. *)
LEMMA Distribute ==
    ASSUME NEW a \in Int, NEW b \in Int, NEW c \in Int
    PROVE  /\ a * (b + c) = a * b + a * c /\ a * (b - c) = a * b - a * c
           /\ (b + c) * a = b * a + c * a /\ (b - c) * a = b * a - c * a
           /\ a * b \in Int /\ a * b = b * a
OBVIOUS

(* What sums inherit from the values that are summed up. *)
LEMMA SumScaled ==
    ASSUME NEW S, IsFiniteSet(S), NEW f, \A x \in S : f[x] \in Int, NEW a \in Int,
           NEW h, \A x \in S : h[x] = a * f[x]
    PROVE  Sum(h, S) = a * Sum(f, S)
<1> DEFINE Good == {T \in SUBSET S : Sum(h, T) = a * Sum(f, T)}
<1>1. {} \in Good
  <2>1. Sum(h, {}) = 0 /\ Sum(f, {}) = 0
    BY SumEquation, FS_EmptySet DEF Sum
  <2> QED BY <2>1
<1>2. ASSUME NEW T \in SUBSET S, NEW x \in T, T \ {x} \in Good
      PROVE  T \in Good
  <2>1. IsFiniteSet(T) /\ IsFiniteSet(T \ {x})
    BY FS_Subset
  <2>2. \A y \in T : f[y] \in Int /\ h[y] \in Int /\ h[y] = a * f[y]
    BY Distribute
  <2>3. Sum(f, T) = f[x] + Sum(f, T \ {x}) /\ Sum(h, T) = h[x] + Sum(h, T \ {x})
    BY <2>1, <2>2, SumFacts DEF Sum
  <2>4. Sum(f, T \ {x}) \in Int
    BY <2>1, <2>2, SumFacts DEF Sum
  <2>5. a * (f[x] + Sum(f, T \ {x})) = a * f[x] + a * Sum(f, T \ {x})
    BY <2>2, <2>4, Distribute
  <2> QED BY <1>2, <2>2, <2>3, <2>5
<1>3. S \in Good
  <2> HIDE DEF Good
  <2> QED BY <1>1, <1>2, ElementInduction
<1> QED BY <1>3

(* The sum of differences is the difference of the sums. *)
LEMMA SumDifference ==
    ASSUME NEW S, IsFiniteSet(S), NEW f, NEW g, \A x \in S : f[x] \in Int /\ g[x] \in Int,
           NEW h, \A x \in S : h[x] = f[x] - g[x]
    PROVE  Sum(h, S) = Sum(f, S) - Sum(g, S)
<1> DEFINE Good == {T \in SUBSET S : Sum(h, T) = Sum(f, T) - Sum(g, T)}
<1>1. {} \in Good
  <2>1. Sum(h, {}) = 0 /\ Sum(f, {}) = 0 /\ Sum(g, {}) = 0
    BY SumEquation, FS_EmptySet DEF Sum
  <2> QED BY <2>1
<1>2. ASSUME NEW T \in SUBSET S, NEW x \in T, T \ {x} \in Good
      PROVE  T \in Good
  <2>1. IsFiniteSet(T) /\ IsFiniteSet(T \ {x})
    BY FS_Subset
  <2>2. \A y \in T : f[y] \in Int /\ g[y] \in Int /\ h[y] \in Int /\ h[y] = f[y] - g[y]
    OBVIOUS
  <2>3. /\ Sum(f, T) = f[x] + Sum(f, T \ {x}) /\ Sum(f, T \ {x}) \in Int
        /\ Sum(g, T) = g[x] + Sum(g, T \ {x}) /\ Sum(g, T \ {x}) \in Int
        /\ Sum(h, T) = h[x] + Sum(h, T \ {x}) /\ Sum(h, T \ {x}) \in Int
    BY <2>1, <2>2, SumFacts DEF Sum
  <2> QED BY <1>2, <2>2, <2>3
<1>3. S \in Good
  <2> HIDE DEF Good
  <2> QED BY <1>1, <1>2, ElementInduction
<1> QED BY <1>3

(* Values of at most half of d in size add up to at most half of d times   *)
(* their number.                                                           *)
LEMMA SumBounded ==
    ASSUME NEW S, IsFiniteSet(S), NEW f, NEW d \in Int,
           \A x \in S : f[x] \in Int /\ -d <= 2 * f[x] /\ 2 * f[x] <= d
    PROVE  -(d * Cardinality(S)) <= 2 * Sum(f, S) /\ 2 * Sum(f, S) <= d * Cardinality(S)
<1> DEFINE c(T) == Cardinality(T)
           Good == {T \in SUBSET S : -(d * c(T)) <= 2 * Sum(f, T) /\ 2 * Sum(f, T) <= d * c(T)}
<1>1. {} \in Good
  <2>1. Sum(f, {}) = 0 /\ c({}) = 0
    BY SumEquation, FS_EmptySet DEF Sum
  <2> HIDE DEF c
  <2> QED BY <2>1
<1>2. ASSUME NEW T \in SUBSET S, NEW x \in T, T \ {x} \in Good
      PROVE  T \in Good
  <2>1. IsFiniteSet(T) /\ IsFiniteSet(T \ {x})
    BY FS_Subset
  <2>2. c(T) \in Int /\ c(T \ {x}) = c(T) - 1
    BY <2>1, FS_CardinalityType, FS_RemoveElement
  <2>3. Sum(f, T) = f[x] + Sum(f, T \ {x}) /\ Sum(f, T \ {x}) \in Int /\ f[x] \in Int
    BY <2>1, SumFacts DEF Sum
  <2>4. -d <= 2 * f[x] /\ 2 * f[x] <= d
    OBVIOUS
  <2> HIDE DEF c
  <2>5. d * (c(T) - 1) = d * c(T) - d * 1 /\ d * c(T) \in Int
    BY <2>2, Distribute
  <2>6. -(d * c(T \ {x})) <= 2 * Sum(f, T \ {x}) /\ 2 * Sum(f, T \ {x}) <= d * c(T \ {x})
    BY <1>2
  <2>7. -(d * c(T)) <= 2 * Sum(f, T) /\ 2 * Sum(f, T) <= d * c(T)
    BY <2>2, <2>3, <2>4, <2>5, <2>6
  <2> QED BY <2>7
<1>3. S \in Good
  <2> HIDE DEF Good
  <2> QED BY <1>1, <1>2, ElementInduction
<1> QED BY <1>3

(* Equal values add up to their number times one of them. *)
LEMMA SumConstant ==
    ASSUME NEW S, IsFiniteSet(S), NEW f, NEW d \in Int, \A x \in S : f[x] = d
    PROVE  Sum(f, S) = d * Cardinality(S)
<1> DEFINE c(T) == Cardinality(T)
           Good == {T \in SUBSET S : Sum(f, T) = d * c(T)}
<1>1. {} \in Good
  <2>1. Sum(f, {}) = 0 /\ c({}) = 0
    BY SumEquation, FS_EmptySet DEF Sum
  <2> HIDE DEF c
  <2> QED BY <2>1
<1>2. ASSUME NEW T \in SUBSET S, NEW x \in T, T \ {x} \in Good
      PROVE  T \in Good
  <2>1. IsFiniteSet(T) /\ IsFiniteSet(T \ {x})
    BY FS_Subset
  <2>2. c(T) \in Int /\ c(T \ {x}) = c(T) - 1
    BY <2>1, FS_CardinalityType, FS_RemoveElement
  <2>3. Sum(f, T) = d + Sum(f, T \ {x})
    BY <2>1, SumFacts DEF Sum
  <2> HIDE DEF c
  <2>4. d * (c(T) - 1) = d * c(T) - d * 1 /\ d * c(T) \in Int
    BY <2>2, Distribute
  <2>5. Sum(f, T \ {x}) = d * c(T \ {x})
    BY <1>2
  <2>6. Sum(f, T) = d * c(T)
    BY <2>2, <2>3, <2>4, <2>5
  <2> QED BY <2>6
<1>3. S \in Good
  <2> HIDE DEF Good
  <2> QED BY <1>1, <1>2, ElementInduction
<1> QED BY <1>3

(* The sum over two disjoint sets. *)
LEMMA SumUnion ==
    ASSUME NEW S, IsFiniteSet(S), NEW R, IsFiniteSet(R), S \cap R = {},
           NEW f, \A x \in S \cup R : f[x] \in Int
    PROVE  Sum(f, S \cup R) = Sum(f, S) + Sum(f, R)
<1> DEFINE Good == {T \in SUBSET S : Sum(f, T \cup R) = Sum(f, T) + Sum(f, R)}
<1>1. {} \in Good
  <2>1. Sum(f, {}) = 0 /\ {} \cup R = R /\ Sum(f, R) \in Int
    BY SumEquation, SumFacts, FS_EmptySet DEF Sum
  <2> QED BY <2>1
<1>2. ASSUME NEW T \in SUBSET S, NEW x \in T, T \ {x} \in Good
      PROVE  T \in Good
  <2>1. IsFiniteSet(T) /\ IsFiniteSet(T \ {x}) /\ IsFiniteSet(T \cup R)
    BY FS_Subset, FS_Union
  <2>2. (T \cup R) \ {x} = (T \ {x}) \cup R /\ x \in T \cup R
    OBVIOUS
  <2>3. /\ Sum(f, T) = f[x] + Sum(f, T \ {x}) /\ Sum(f, T \ {x}) \in Int /\ f[x] \in Int
        /\ Sum(f, R) \in Int
    BY <2>1, SumFacts DEF Sum
  <2>4. Sum(f, T \cup R) = f[x] + Sum(f, (T \cup R) \ {x})
    BY <2>1, <2>2, SumFacts DEF Sum
  <2>5. Sum(f, (T \ {x}) \cup R) = Sum(f, T \ {x}) + Sum(f, R)
    BY <1>2
  <2>6. Sum(f, T \cup R) = f[x] + Sum(f, (T \ {x}) \cup R)
    BY <2>2, <2>4
  <2>7. Sum(f, T \cup R) = Sum(f, T) + Sum(f, R)
    BY <2>3, <2>5, <2>6
  <2> QED BY <2>7
<1>3. S \in Good
  <2> HIDE DEF Good
  <2> QED BY <1>1, <1>2, ElementInduction
<1> QED BY <1>3

(* A sum depends on the values in the set only. *)
LEMMA SumAgree ==
    ASSUME NEW S, IsFiniteSet(S), NEW f, NEW g, \A x \in S : f[x] \in Int /\ g[x] = f[x]
    PROVE  Sum(g, S) = Sum(f, S)
<1>1. Sum(g, S) = 1 * Sum(f, S)
  BY SumScaled
<1>2. Sum(f, S) \in Int
  BY SumFacts DEF Sum
<1> QED BY <1>1, <1>2

(* One value that changes by d changes the sum by d. *)
LEMMA SumChanged ==
    ASSUME NEW S, IsFiniteSet(S), NEW f, \A x \in S : f[x] \in Int, NEW y \in S, NEW d \in Int,
           NEW g, g[y] = f[y] + d, \A x \in S \ {y} : g[x] = f[x]
    PROVE  Sum(g, S) = Sum(f, S) + d
<1> DEFINE R == S \ {y}
<1>1. IsFiniteSet(R)
  BY FS_RemoveElement
<1>2. \A x \in S : g[x] \in Int
  OBVIOUS
<1>3. Sum(f, S) = f[y] + Sum(f, R) /\ Sum(g, S) = g[y] + Sum(g, R) /\ Sum(f, R) \in Int
  BY <1>1, <1>2, SumFacts DEF Sum
<1>4. Sum(g, R) = Sum(f, R)
  BY <1>1, SumAgree
<1> HIDE DEF R
<1> QED BY <1>3, <1>4
-----------------------------------------------------------------------------
(* What is known of the group while Mappings arrive and afterwards. *)
MembersOK ==
    /\ arrived \in Seq(Candidates) /\ Len(arrived) <= MaxGroup
    /\ mappings \in Seq(1 .. Len(arrived)) /\ shadows \in Seq(Nat)
    /\ host_redirect \in Nat
    /\ rejected \subseteq 1 .. Len(arrived)
    /\ weight \in [Positions -> Int] /\ final_total \in Int
    /\ turn \in Nat \ {0} /\ (stage = "adding" => turn = 1)
    /\ stage \in {"adding", "spread", "done", "raised"}
    /\ \A i, j \in 1 .. Len(mappings) : mappings[i] = mappings[j] => i = j

(* What Append does to the elements of a sequence. *)
LEMMA AppendFacts ==
    ASSUME NEW S, NEW s \in Seq(S), NEW x
    PROVE  /\ Len(s) \in Nat /\ Len(Append(s, x)) = Len(s) + 1
           /\ \A i \in 1 .. Len(s) : Append(s, x)[i] = s[i] /\ s[i] \in S
           /\ Append(s, x)[Len(s) + 1] = x
           /\ InSeq(Append(s, x)) = InSeq(s) \cup {x}
<1>1. s \in Seq(S \cup {x})
  BY ElementOfSeq, LenProperties
<1>2. /\ Len(s) \in Nat /\ Len(Append(s, x)) = Len(s) + 1
      /\ \A i \in 1 .. Len(s) : Append(s, x)[i] = s[i] /\ s[i] \in S
      /\ Append(s, x)[Len(s) + 1] = x
  BY <1>1, AppendProperties, LenProperties, ElementOfSeq
<1>3. 1 .. Len(s) + 1 = 1 .. Len(s) \cup {Len(s) + 1}
  BY <1>2
<1>4. InSeq(Append(s, x)) = InSeq(s) \cup {x}
  <2>1. ASSUME NEW y \in InSeq(Append(s, x)) PROVE y \in InSeq(s) \cup {x}
    <3>1. PICK i \in 1 .. Len(s) + 1 : y = Append(s, x)[i]
      BY <1>2 DEF InSeq
    <3> QED BY <1>2, <1>3, <3>1 DEF InSeq
  <2>2. ASSUME NEW y \in InSeq(s) \cup {x} PROVE y \in InSeq(Append(s, x))
    BY <1>2, <1>3, <2>2 DEF InSeq
  <2> QED BY <2>1, <2>2
<1> QED BY <1>2, <1>4

(* A larger bound makes no difference to a sequence. *)
LEMMA WiderSeq ==
    ASSUME NEW S, NEW T, S \subseteq T, NEW s \in Seq(S)
    PROVE  s \in Seq(T)
BY ElementOfSeq, LenProperties

(* add_mapping keeps the group well formed. *)
LEMMA AddStep ==
    ASSUME MembersOK, NEW m \in Candidates, add_mapping(m)
    PROVE  MembersOK'
<1> DEFINE n == Len(arrived) + 1
<1>1. arrived \in Seq(Candidates) /\ Len(arrived) \in Nat
  BY LenProperties DEF MembersOK
<1>2. arrived' \in Seq(Candidates) /\ Len(arrived') = n /\ n <= MaxGroup /\ n \in Nat
  BY <1>1, AppendProperties DEF add_mapping
<1>3. 1 .. Len(arrived) \subseteq 1 .. Len(arrived') /\ n \in 1 .. Len(arrived')
  BY <1>1, <1>2
<1>4. mappings \in Seq(1 .. Len(arrived')) /\ shadows \in Seq(Nat)
  BY <1>3, WiderSeq DEF MembersOK
<1>5. mappings' \in Seq(1 .. Len(arrived')) /\ shadows' \in Seq(Nat)
  <2>1. Append(mappings, n) \in Seq(1 .. Len(arrived')) /\ Append(shadows, n) \in Seq(Nat)
    BY <1>2, <1>3, <1>4, AppendProperties
  <2> QED BY <1>4, <2>1 DEF add_mapping
<1>6. host_redirect' \in Nat /\ rejected' \subseteq 1 .. Len(arrived')
  BY <1>2, <1>3 DEF add_mapping, MembersOK
<1>7. ASSUME NEW i \in 1 .. Len(mappings'), NEW j \in 1 .. Len(mappings'), mappings'[i] = mappings'[j]
      PROVE  i = j
  <2>1. CASE mappings' = mappings
    BY <1>7, <2>1 DEF MembersOK
  <2>2. CASE mappings' = Append(mappings, n)
    <3>1. /\ Len(mappings) \in Nat /\ Len(mappings') = Len(mappings) + 1
          /\ \A k \in 1 .. Len(mappings) : mappings'[k] = mappings[k] /\ mappings[k] \in 1 .. Len(arrived)
          /\ mappings'[Len(mappings) + 1] = n
      BY <2>2, AppendFacts DEF MembersOK
    <3>2. \A k \in 1 .. Len(mappings) : mappings'[k] # n
      BY <1>1, <3>1
    <3>3. i \in 1 .. Len(mappings) \/ i = Len(mappings) + 1
      BY <3>1
    <3>4. j \in 1 .. Len(mappings) \/ j = Len(mappings) + 1
      BY <3>1
    <3> QED BY <1>7, <3>1, <3>2, <3>3, <3>4 DEF MembersOK
  <2> QED BY <2>1, <2>2 DEF add_mapping
<1>8. /\ weight' = weight /\ final_total' = final_total /\ turn' = turn
      /\ stage' \in {"adding", "raised"} /\ stage = "adding"
  BY DEF add_mapping
<1> QED BY <1>2, <1>5, <1>6, <1>7, <1>8 DEF MembersOK

(* Every Mapping goes to one place as it arrives. *)
LEMMA AccountedAdd ==
    ASSUME MembersOK, EveryMappingAccounted, NEW m \in Candidates, add_mapping(m)
    PROVE  EveryMappingAccounted'
<1> DEFINE n == Len(arrived) + 1
           redirect == IF host_redirect = 0 THEN {} ELSE {host_redirect}
<1>1. /\ Len(arrived) \in Nat /\ Len(arrived') = n /\ n \in Nat /\ n # 0
      /\ 1 .. n = 1 .. Len(arrived) \cup {n} /\ n \notin 1 .. Len(arrived)
  BY LenProperties, AppendProperties DEF MembersOK, add_mapping
<1>2. /\ Len(mappings) \in Nat /\ Len(shadows) \in Nat
      /\ Len(Append(mappings, n)) = Len(mappings) + 1
      /\ Len(Append(shadows, n)) = Len(shadows) + 1
      /\ InSeq(Append(mappings, n)) = InSeq(mappings) \cup {n}
      /\ InSeq(Append(shadows, n)) = InSeq(shadows) \cup {n}
  BY AppendFacts DEF MembersOK
<1>3. /\ IsFiniteSet(rejected) /\ Cardinality(rejected) \in Nat
      /\ Cardinality(rejected \cup {n}) = Cardinality(rejected) + 1
  <2>1. rejected \subseteq 1 .. Len(arrived)
    BY DEF MembersOK
  <2>2. IsFiniteSet(1 .. Len(arrived))
    BY <1>1, FS_Interval
  <2>3. IsFiniteSet(rejected) /\ n \notin rejected
    BY <1>1, <2>1, <2>2, FS_Subset
  <2> QED BY <2>3, FS_AddElement, FS_CardinalityType
<1>4. Cardinality({}) = 0 /\ Cardinality({n}) = 1 /\ Cardinality(redirect) \in Nat
  <2>1. Cardinality({}) = 0
    BY FS_EmptySet
  <2>2. \A x : Cardinality({x}) = 1
    BY FS_Singleton
  <2>3. redirect = {} \/ redirect = {host_redirect}
    OBVIOUS
  <2>4. Cardinality(redirect) = 0 \/ Cardinality(redirect) = 1
    <3> HIDE DEF redirect
    <3> QED BY <2>1, <2>2, <2>3
  <2>5. Cardinality({n}) = 1
    BY <2>2
  <2> HIDE DEF redirect, n
  <2> QED BY <2>1, <2>4, <2>5
<1>5. /\ InSeq(mappings) \cup InSeq(shadows) \cup redirect \cup rejected = 1 .. Len(arrived)
      /\ Len(mappings) + Len(shadows) + Cardinality(redirect) + Cardinality(rejected) = Len(arrived)
  BY DEF EveryMappingAccounted, add_mapping, Routed
<1> DEFINE redirectN == IF host_redirect' = 0 THEN {} ELSE {host_redirect'}
<1>6. /\ InSeq(mappings') \cup InSeq(shadows') \cup redirectN \cup rejected' = 1 .. n
      /\ Len(mappings') + Len(shadows') + Cardinality(redirectN) + Cardinality(rejected') = n
  <2>1. CASE Place(m) = "reject"
    <3>1. mappings' = mappings /\ shadows' = shadows /\ host_redirect' = host_redirect
          /\ rejected' = rejected \cup {n}
      BY <2>1 DEF add_mapping
    <3>2. redirectN = redirect
      BY <3>1
    <3> HIDE DEF redirect, redirectN
    <3> QED BY <1>1, <1>2, <1>3, <1>4, <1>5, <3>1, <3>2
  <2>2. CASE Place(m) = "shadow"
    <3>1. mappings' = mappings /\ shadows' = Append(shadows, n) /\ host_redirect' = host_redirect
          /\ rejected' = rejected
      BY <2>2 DEF add_mapping
    <3>2. redirectN = redirect
      BY <3>1
    <3> HIDE DEF redirect, redirectN
    <3> QED BY <1>1, <1>2, <1>3, <1>4, <1>5, <3>1, <3>2
  <2>3. CASE Place(m) = "redirect"
    <3>1. mappings' = mappings /\ shadows' = shadows /\ host_redirect' = n /\ rejected' = rejected
      BY <2>3 DEF add_mapping
    <3>2. host_redirect = 0
      BY <2>3 DEF Place
    <3>3. redirect = {} /\ redirectN = {n}
      BY <1>1, <3>1, <3>2
    <3> HIDE DEF redirect, redirectN
    <3> QED BY <1>1, <1>2, <1>3, <1>4, <1>5, <3>1, <3>3
  <2>4. CASE Place(m) = "route"
    <3>1. mappings' = Append(mappings, n) /\ shadows' = shadows /\ host_redirect' = host_redirect
          /\ rejected' = rejected
      BY <2>4 DEF add_mapping
    <3>2. redirectN = redirect
      BY <3>1
    <3> HIDE DEF redirect, redirectN
    <3> QED BY <1>1, <1>2, <1>3, <1>4, <1>5, <3>1, <3>2
  <2>5. Place(m) \in {"reject", "shadow", "redirect", "route"}
    BY GroupAssumption DEF Place, MemberType
  <2> QED BY <2>1, <2>2, <2>3, <2>4, <2>5
<1> QED BY <1>1, <1>6 DEF EveryMappingAccounted, Routed
-----------------------------------------------------------------------------
(* How far a weight is from its exact share, times Shares, and whether     *)
(* that is at most so many halves.                                         *)
Off(n) == weight[n] * Shares - ExactShare(n)

Within(n, halves) == -(halves * Shares) <= 2 * Off(n) /\ 2 * Off(n) <= halves * Shares

(* What finalize knows while it spreads the remainder: final_total is what *)
(* it says, rounding moved no weight by more than a half, the loop has     *)
(* moved those before `turn' by one more, and it will come to its end      *)
(* before it has been to half of the Mappings.                             *)
SpreadInv ==
    /\ stage = "spread" => host_redirect = 0
    /\ stage \in {"spread", "done"} /\ host_redirect = 0 /\ mappings # <<>> =>
           /\ final_total = Sum(weight, Routed)
           /\ Shares \in Nat \ {0}
           /\ \A i \in 1 .. Len(mappings) : Within(mappings[i], IF i < turn THEN 3 ELSE 1)
           /\ 2 * (turn - 1) + 2 * (100 - final_total) <= Len(mappings)
           /\ 2 * (turn - 1) + 2 * (final_total - 100) <= Len(mappings)
           /\ stage = "done" => final_total = 100

GroupIInv == MembersOK /\ EveryMappingAccounted /\ SpreadInv

(* round moves by half of the divisor at most. *)
LEMMA HalfAtMost ==
    ASSUME NEW a \in Int, NEW b \in Nat \ {0}, NEW q \in Int,
           \/ q = RoundHalfEven(a, b)
           \/ 2 * (a % b) = b /\ q \in {a \div b, a \div b + 1}
    PROVE  -b <= 2 * (q * b - a) /\ 2 * (q * b - a) <= b
<1> DEFINE d == a \div b
           r == a % b
<1>1. d \in Int /\ r \in Int /\ 0 <= r /\ r < b /\ a = b * d + r
  OBVIOUS
<1>2. \/ q = d /\ 2 * r <= b
      \/ q = d + 1 /\ 2 * r >= b
  <2>1. CASE q = RoundHalfEven(a, b)
    BY <1>1, <2>1 DEF RoundHalfEven
  <2>2. CASE 2 * (a % b) = b /\ q \in {a \div b, a \div b + 1}
    BY <1>1, <2>2
  <2> QED BY <2>1, <2>2
<1> HIDE DEF d, r
<1>3. (d + 1) * b = d * b + b /\ d * b = b * d /\ b * d \in Int
  BY <1>1
<1>4. CASE q = d /\ 2 * r <= b
  <2>1. q * b - a = -r
    BY <1>1, <1>3, <1>4
  <2> QED BY <1>1, <1>4, <2>1
<1>5. CASE q = d + 1 /\ 2 * r >= b
  <2>1. q * b - a = b - r
    BY <1>1, <1>3, <1>5
  <2> QED BY <1>1, <1>5, <2>1
<1> QED BY <1>2, <1>4, <1>5

(* round gives an integer. *)
LEMMA RoundType ==
    ASSUME NEW a \in Int, NEW b \in Nat \ {0}
    PROVE  RoundHalfEven(a, b) \in Int /\ a \div b \in Int
BY DEF RoundHalfEven

(* A positive factor can be cancelled. *)
LEMMA Cancelled ==
    ASSUME NEW s \in Nat \ {0}, NEW x \in Int, NEW y \in Int, s * x <= s * y
    PROVE  x <= y
<1> SUFFICES ASSUME x >= y + 1 PROVE FALSE
  OBVIOUS
<1>1. PICK k \in Nat : x = y + 1 + k
  BY x - y - 1 \in Nat
<1>2. s * x = s * y + s + s * k /\ s * k \in Nat /\ s * y \in Int
  BY <1>1
<1> QED BY <1>2

(* Counting from one. *)
LEMMA IntervalCount ==
    ASSUME NEW N \in Nat
    PROVE  IsFiniteSet(1 .. N) /\ Cardinality(1 .. N) = N
<1>1. /\ IsFiniteSet(1 .. N)
      /\ Cardinality(1 .. N) = IF 1 > N THEN 0 ELSE N - 1 + 1
  BY FS_Interval
<1> QED BY <1>1

(* The routed Mappings are as many as the list is long. *)
LEMMA RoutedFacts ==
    ASSUME MembersOK
    PROVE  /\ Len(mappings) \in Nat /\ Len(arrived) \in Nat
           /\ IsFiniteSet(Routed) /\ Cardinality(Routed) = Len(mappings)
           /\ Routed \subseteq Positions /\ Routed \subseteq 1 .. Len(arrived)
           /\ \A n \in Routed : arrived[n] \in MemberType
           /\ Weighted \subseteq Routed /\ IsFiniteSet(Weighted) /\ IsFiniteSet(Unspecified)
           /\ Routed = Weighted \cup Unspecified /\ Weighted \cap Unspecified = {}
<1>1. /\ mappings \in Seq(1 .. Len(arrived)) /\ Len(mappings) \in Nat /\ Len(arrived) \in Nat
      /\ Len(arrived) <= MaxGroup /\ arrived \in Seq(Candidates)
  BY LenProperties DEF MembersOK
<1>2. \A i \in 1 .. Len(mappings) : mappings[i] \in 1 .. Len(arrived)
  BY <1>1, ElementOfSeq
<1>3. Routed \subseteq 1 .. Len(arrived)
  BY <1>2 DEF Routed, InSeq
<1>4. Routed \subseteq Positions
  BY <1>1, <1>3, GroupAssumption DEF Positions
<1>5. IsFiniteSet(Routed) /\ Cardinality(Routed) = Len(mappings)
  <2> DEFINE f == [i \in 1 .. Len(mappings) |-> mappings[i]]
  <2>1. f \in Surjection(1 .. Len(mappings), Routed)
    BY DEF Surjection, Routed, InSeq
  <2>2. f \in Injection(1 .. Len(mappings), Routed)
    BY DEF Injection, IsInjective, MembersOK, Routed, InSeq
  <2>3. IsFiniteSet(1 .. Len(mappings)) /\ Cardinality(1 .. Len(mappings)) = Len(mappings)
    BY <1>1, IntervalCount
  <2> HIDE DEF f
  <2> QED BY <2>1, <2>2, <2>3, FS_Surjection
<1>6. \A n \in Routed : arrived[n] \in MemberType
  BY <1>1, <1>3, ElementOfSeq, GroupAssumption
<1>7. /\ Weighted \subseteq Routed /\ Unspecified \subseteq Routed
      /\ Routed = Weighted \cup Unspecified /\ Weighted \cap Unspecified = {}
  BY DEF Weighted, Unspecified
<1>8. IsFiniteSet(Weighted) /\ IsFiniteSet(Unspecified)
  BY <1>5, <1>7, FS_Subset
<1> QED BY <1>1, <1>3, <1>4, <1>5, <1>6, <1>7, <1>8

Weights == [n \in Weighted |-> arrived[n].weight]

(* The total of the weights, and the divisor of the shares. *)
LEMMA TotalFacts ==
    ASSUME MembersOK
    PROVE  /\ total_weight = Sum(Weights, Weighted) /\ total_weight \in Int
           /\ \A n \in Weighted : Weights[n] = arrived[n].weight /\ Weights[n] \in Int
           /\ Sign \in {1, -1} /\ Whole \in Nat
           /\ Routed # {} /\ ~DividesByZero => Shares \in Nat \ {0}
           /\ Unspecified = {} => Shares = Whole
           /\ Unspecified # {} => Shares = Cardinality(Unspecified)
<1>1. \A n \in Weighted : Weights[n] = arrived[n].weight /\ Weights[n] \in Int
  BY RoutedFacts DEF Weights, MemberType
<1>2. total_weight = Sum(Weights, Weighted)
  BY DEF total_weight, Weights, SumFunction, Sum
<1>3. Sum(Weights, Weighted) \in Int
  BY <1>1, RoutedFacts, SumFacts DEF Sum
<1>4. Sign \in {1, -1} /\ Whole \in Nat
  BY <1>2, <1>3 DEF Sign, Whole
<1>5. ASSUME Routed # {}, ~DividesByZero PROVE Shares \in Nat \ {0}
  <2>1. CASE Unspecified = {}
    <3>1. total_weight # 0
      BY <1>5, <2>1 DEF DividesByZero
    <3> QED BY <1>2, <1>3, <2>1, <3>1 DEF Shares, Whole, Sign
  <2>2. CASE Unspecified # {}
    BY <2>2, RoutedFacts, FS_CardinalityType, FS_EmptySet DEF Shares
  <2> QED BY <2>1, <2>2
<1> QED BY <1>1, <1>2, <1>3, <1>4, <1>5 DEF Shares

(* Before the remainder is spread, a weight is half off its share at most. *)
LEMMA NormalizedFacts ==
    ASSUME MembersOK, ~DividesByZero, NEW n \in Routed, NEW up, NEW w, w = Normalized(n, up)
    PROVE  /\ w \in Int /\ ExactShare(n) \in Int
           /\ -Shares <= 2 * (w * Shares - ExactShare(n))
           /\ 2 * (w * Shares - ExactShare(n)) <= Shares
<1>1. /\ total_weight \in Int /\ Sign \in {1, -1} /\ Whole \in Nat /\ Shares \in Nat \ {0}
      /\ Unspecified = {} => Shares = Whole
      /\ Unspecified # {} => Shares = Cardinality(Unspecified)
  BY TotalFacts
<1>2. arrived[n].weight \in Int /\ Percent(n) \in Int
  <2>1. arrived[n].weight \in Int
    BY RoutedFacts DEF MemberType
  <2>2. CASE Sign = 1
    BY <2>1, <2>2 DEF Percent
  <2>3. CASE Sign = -1
    BY <2>1, <2>3 DEF Percent
  <2> QED BY <1>1, <2>1, <2>2, <2>3
<1>3. CASE n \in Unspecified
  <2>1. ExactShare(n) = 100 - total_weight /\ Unspecified # {}
    BY <1>3 DEF ExactShare, Unspecified
  <2>2. ~Normalizes /\ n \notin Tied
    BY <2>1 DEF Normalizes, Tied
  <2>3. w = RoundHalfEven(100 - total_weight, Cardinality(Unspecified))
    BY <1>3, <2>2, Zenon DEF Normalized
  <2>4. PICK rest \in Int : rest = 100 - total_weight
    BY <1>1
  <2>5. w = RoundHalfEven(rest, Shares) /\ ExactShare(n) = rest
    BY <1>1, <2>1, <2>3, <2>4
  <2>6. w \in Int
    BY <1>1, <2>5, RoundType
  <2> QED BY <1>1, <2>5, <2>6, HalfAtMost
<1>4. CASE n \in Weighted /\ Unspecified # {}
  <2>1. n \notin Unspecified /\ ~Normalizes /\ n \notin Tied
    BY <1>4 DEF Unspecified, Normalizes, Tied
  <2>2. w = arrived[n].weight
    BY <2>1 DEF Normalized
  <2>3. ExactShare(n) = Shares * arrived[n].weight
    BY <1>4 DEF ExactShare
  <2>4. w * Shares = Shares * w /\ Shares * w \in Int
    BY <1>1, <1>2, <2>2, Distribute
  <2> QED BY <1>1, <1>2, <2>2, <2>3, <2>4
<1>5. CASE Unspecified = {}
  <2>1. ExactShare(n) = Percent(n) /\ Shares = Whole
    BY <1>1, <1>5 DEF ExactShare
  <2>2. CASE ~Normalizes
    <3>1. w = arrived[n].weight /\ total_weight = 100
      BY <1>5, <2>2 DEF Normalized, Normalizes, Tied
    <3>2. Sign = 1 /\ Whole = 100
      BY <3>1 DEF Sign, Whole
    <3> QED BY <1>2, <2>1, <3>1, <3>2 DEF Percent
  <2>3. CASE Normalizes /\ n \notin Tied
    <3>1. w = RoundHalfEven(Percent(n), Whole)
      BY <1>5, <2>3 DEF Normalized
    <3> QED BY <1>1, <1>2, <2>1, <3>1, RoundType, HalfAtMost
  <2>4. CASE n \in Tied
    <3>1. w \in {Percent(n) \div Whole, Percent(n) \div Whole + 1}
      <4>1. w = Percent(n) \div Whole + (IF n \in up THEN 1 ELSE 0)
        BY <1>5, <2>4 DEF Normalized
      <4>2. Percent(n) \div Whole \in Int
        BY <1>1, <1>2, <2>1, RoundType
      <4> QED BY <4>1, <4>2
    <3>2. 2 * (Percent(n) % Whole) = Whole
      BY <2>4 DEF Tied
    <3>3. w \in Int
      BY <1>1, <1>2, <2>1, <3>1, RoundType
    <3> QED BY <1>1, <1>2, <2>1, <3>1, <3>2, <3>3, HalfAtMost
  <2> QED BY <2>2, <2>3, <2>4
<1> QED BY <1>3, <1>4, <1>5, RoutedFacts

Exact == [n \in Routed |-> ExactShare(n)]

(* The exact shares add up to 100. *)
LEMMA ExactSum ==
    ASSUME MembersOK, ~DividesByZero, Routed # {}
    PROVE  Sum(Exact, Routed) = 100 * Shares
<1>1. /\ total_weight \in Int /\ Sign \in {1, -1} /\ Whole \in Nat /\ Shares \in Nat \ {0}
      /\ Unspecified = {} => Shares = Whole
      /\ Unspecified # {} => Shares = Cardinality(Unspecified)
      /\ total_weight = Sum(Weights, Weighted)
      /\ \A n \in Weighted : Weights[n] = arrived[n].weight /\ Weights[n] \in Int
  BY TotalFacts
<1>2. \A n \in Routed : Exact[n] = ExactShare(n) /\ Exact[n] \in Int
  BY NormalizedFacts DEF Exact
<1>3. CASE Unspecified = {}
  <2>1. Weighted = Routed
    BY <1>3, RoutedFacts
  <2>2. Sign * 100 \in Int
    BY <1>1
  <2>3. \A n \in Weighted : Exact[n] = (Sign * 100) * Weights[n]
    BY <1>1, <1>2, <1>3, <2>1 DEF ExactShare, Percent
  <2>4. Sum(Exact, Weighted) = (Sign * 100) * total_weight
    BY <1>1, <2>2, <2>3, RoutedFacts, SumScaled
  <2>5. (Sign * 100) * total_weight = 100 * Whole
    <3>1. CASE Sign = 1
      BY <1>1, <3>1 DEF Whole
    <3>2. CASE Sign = -1
      BY <1>1, <3>2 DEF Whole
    <3> QED BY <1>1, <3>1, <3>2
  <2> QED BY <1>1, <1>3, <2>1, <2>4, <2>5
<1>4. CASE Unspecified # {}
  <2>1. \A n \in Weighted : Exact[n] = Shares * Weights[n]
    BY <1>1, <1>2, <1>4, RoutedFacts DEF ExactShare
  <2>2. \A n \in Unspecified : Exact[n] = 100 - total_weight
    BY <1>2, <1>4, RoutedFacts DEF ExactShare
  <2>3. Sum(Exact, Weighted) = Shares * total_weight
    BY <1>1, <2>1, RoutedFacts, SumScaled
  <2>4. Sum(Exact, Unspecified) = (100 - total_weight) * Shares
    <3>1. PICK rest \in Int : rest = 100 - total_weight
      BY <1>1
    <3>2. \A n \in Unspecified : Exact[n] = rest
      BY <2>2, <3>1
    <3>3. Sum(Exact, Unspecified) = rest * Cardinality(Unspecified)
      BY <3>2, RoutedFacts, SumConstant
    <3> QED BY <1>1, <1>4, <3>1, <3>3
  <2>5. Sum(Exact, Routed) = Sum(Exact, Weighted) + Sum(Exact, Unspecified)
    BY <1>2, RoutedFacts, SumUnion
  <2>6. (100 - total_weight) * Shares = 100 * Shares - total_weight * Shares
        /\ Shares * total_weight = total_weight * Shares /\ Shares * total_weight \in Int
    BY <1>1, Distribute
  <2> QED BY <1>1, <2>3, <2>4, <2>5, <2>6
<1> QED BY <1>3, <1>4

(* Hence what remains to be spread is at most half of the Mappings' number. *)
LEMMA RemainderFacts ==
    ASSUME MembersOK, ~DividesByZero, Routed # {}, NEW f,
           \A n \in Routed : /\ f[n] \in Int
                             /\ -Shares <= 2 * (f[n] * Shares - ExactShare(n))
                             /\ 2 * (f[n] * Shares - ExactShare(n)) <= Shares
    PROVE  /\ Sum(f, Routed) \in Int
           /\ 2 * (Sum(f, Routed) - 100) <= Len(mappings)
           /\ 2 * (100 - Sum(f, Routed)) <= Len(mappings)
<1> DEFINE scaled == [n \in Routed |-> Shares * f[n]]
           off == [n \in Routed |-> scaled[n] - Exact[n]]
           total == Sum(f, Routed)
           N == Len(mappings)
<1>1. Shares \in Nat \ {0} /\ IsFiniteSet(Routed) /\ Cardinality(Routed) = N /\ N \in Nat
  BY TotalFacts, RoutedFacts
<1>2. \A n \in Routed : Exact[n] = ExactShare(n) /\ Exact[n] \in Int
  BY NormalizedFacts DEF Exact
<1>3. \A n \in Routed : scaled[n] = Shares * f[n] /\ scaled[n] \in Int /\ scaled[n] = f[n] * Shares
  BY <1>1, Distribute
<1>4. total \in Int
  BY <1>1, SumFacts DEF Sum
<1>5. Sum(scaled, Routed) = Shares * total
  <2> HIDE DEF scaled
  <2> QED BY <1>1, <1>3, SumScaled
<1>6. Sum(off, Routed) = Sum(scaled, Routed) - Sum(Exact, Routed)
  <2>1. \A n \in Routed : off[n] = scaled[n] - Exact[n]
    OBVIOUS
  <2> HIDE DEF off, scaled
  <2> QED BY <1>1, <1>2, <1>3, <2>1, SumDifference
<1>7. Sum(off, Routed) = Shares * (total - 100)
  <2>1. Sum(Exact, Routed) = 100 * Shares
    BY ExactSum
  <2>2. Shares * (total - 100) = Shares * total - Shares * 100 /\ Shares * 100 = 100 * Shares
    BY <1>1, <1>4, Distribute
  <2> HIDE DEF off, scaled, total
  <2> QED BY <1>5, <1>6, <2>1, <2>2
<1>8. -(Shares * N) <= 2 * Sum(off, Routed) /\ 2 * Sum(off, Routed) <= Shares * N
  <2>1. ASSUME NEW n \in Routed
        PROVE  off[n] \in Int /\ -Shares <= 2 * off[n] /\ 2 * off[n] <= Shares
    <3>1. off[n] = f[n] * Shares - ExactShare(n) /\ off[n] \in Int
      BY <1>2, <1>3
    <3> QED BY <3>1
  <2>2. Shares \in Int
    BY <1>1
  <2> HIDE DEF off, N
  <2>3. /\ -(Shares * Cardinality(Routed)) <= 2 * Sum(off, Routed)
        /\ 2 * Sum(off, Routed) <= Shares * Cardinality(Routed)
    BY <1>1, <2>1, <2>2, SumBounded
  <2> QED BY <1>1, <2>3
<1> HIDE DEF total, N, off, scaled
<1>9. /\ Shares * (2 * (total - 100)) = 2 * (Shares * (total - 100))
      /\ Shares * (2 * (100 - total)) = -(2 * (Shares * (total - 100)))
  BY <1>1, <1>4
<1>10. /\ Shares * (2 * (total - 100)) <= Shares * N
       /\ Shares * (2 * (100 - total)) <= Shares * N
  <2>1. Shares * N \in Int /\ Shares * (total - 100) \in Int
    BY <1>1, <1>4
  <2> QED BY <1>7, <1>8, <1>9, <2>1
<1>11. 2 * (total - 100) <= N /\ 2 * (100 - total) <= N
  BY <1>1, <1>4, <1>10, Cancelled
<1> QED BY <1>4, <1>11 DEF total, N
-----------------------------------------------------------------------------
(* What the shares are made of does not change once Mappings have stopped  *)
(* arriving.                                                               *)
LEMMA SharesFixed ==
    ASSUME arrived' = arrived, mappings' = mappings
    PROVE  Routed' = Routed /\ Shares' = Shares /\ \A n : ExactShare(n)' = ExactShare(n)
<1>1. Routed' = Routed
  BY DEF Routed, InSeq
<1>2. Weighted' = Weighted
  BY <1>1 DEF Weighted
<1>3. Unspecified' = Unspecified
  BY <1>1, <1>2 DEF Unspecified
<1>4. total_weight' = total_weight
  BY <1>2 DEF total_weight
<1>5. Sign' = Sign
  BY <1>4 DEF Sign
<1>6. Whole' = Whole
  BY <1>4, <1>5 DEF Whole
<1>7. Shares' = Shares
  BY <1>3, <1>6 DEF Shares
<1>8. ASSUME NEW n PROVE ExactShare(n)' = ExactShare(n)
  <2>1. Percent(n)' = Percent(n)
    BY <1>5 DEF Percent
  <2> QED BY <1>2, <1>3, <1>4, <1>7, <2>1, Zenon DEF ExactShare
<1> QED BY <1>1, <1>7, <1>8

(* Where there are shares, finalize has not divided by zero. *)
LEMMA ShareTypes ==
    ASSUME MembersOK, Shares \in Nat \ {0}
    PROVE  ~DividesByZero /\ \A n \in Routed : ExactShare(n) \in Int
<1>1. ~DividesByZero
  <2>1. ASSUME Unspecified = {}, total_weight = 0 PROVE FALSE
    BY <2>1, TotalFacts DEF Whole, Sign
  <2> QED BY <2>1 DEF DividesByZero
<1> QED BY <1>1, NormalizedFacts

(* One more or one less. *)
LEMMA MovedByOne ==
    ASSUME NEW s \in Nat, NEW w \in Int, NEW e \in Int, NEW d \in {1, -1},
           -s <= 2 * (w * s - e), 2 * (w * s - e) <= s
    PROVE  -(3 * s) <= 2 * ((w + d) * s - e) /\ 2 * ((w + d) * s - e) <= 3 * s
<1>1. CASE d = 1
  <2>1. (w + d) * s = w * s + s /\ w * s \in Int
    BY <1>1
  <2> QED BY <2>1
<1>2. CASE d = -1
  <2>1. (w + d) * s = w * s - s /\ w * s \in Int
    BY <1>2
  <2> QED BY <2>1
<1> QED BY <1>1, <1>2

(* finalize enters the loop with weights that add up to within half of the *)
(* Mappings' number of 100.                                                *)
LEMMA FinalizeStep ==
    ASSUME MembersOK, Finalize
    PROVE  MembersOK' /\ EveryMappingAccounted' /\ SpreadInv'
<1>1. /\ arrived' = arrived /\ mappings' = mappings /\ shadows' = shadows
      /\ rejected' = rejected /\ turn' = turn /\ stage = "adding" /\ turn = 1
      /\ host_redirect' = Flattened /\ Flattened \in Nat
  BY DEF Finalize, Flattened, MembersOK
<1>2. EveryMappingAccounted'
  BY DEF Finalize, EveryMappingAccounted
<1>3. CASE Flattened # 0 /\ stage' = "done" /\ UNCHANGED <<weight, final_total>>
  <2>1. MembersOK'
    BY <1>1, <1>3 DEF MembersOK
  <2>2. SpreadInv'
    BY <1>1, <1>3 DEF SpreadInv
  <2> QED BY <1>2, <2>1, <2>2
<1>4. CASE stage' = "raised" /\ UNCHANGED <<weight, final_total>>
  <2>1. MembersOK'
    BY <1>1, <1>4 DEF MembersOK
  <2>2. SpreadInv'
    BY <1>4 DEF SpreadInv
  <2> QED BY <1>2, <2>1, <2>2
<1>5. ASSUME Flattened = 0, ~DividesByZero, stage' = "spread", NEW up,
             weight' = [n \in Positions |-> IF n \in Routed THEN Normalized(n, up) ELSE 0],
             final_total' = SumFunctionOnSet(weight', Routed)
      PROVE  MembersOK' /\ SpreadInv'
  <2>1. ASSUME NEW n \in Routed
        PROVE  /\ weight'[n] \in Int /\ n \in Positions /\ ExactShare(n) \in Int
               /\ -Shares <= 2 * (weight'[n] * Shares - ExactShare(n))
               /\ 2 * (weight'[n] * Shares - ExactShare(n)) <= Shares
    <3>1. n \in Positions
      BY RoutedFacts
    <3>2. weight'[n] = Normalized(n, up)
      BY <1>5, <3>1
    <3> QED BY <1>5, <3>1, <3>2, NormalizedFacts
  <2>2. weight' \in [Positions -> Int]
    BY <1>5, <2>1
  <2>3. final_total' = Sum(weight', Routed) /\ final_total' \in Int
    BY <1>5, <2>1, RoutedFacts, SumFacts DEF Sum
  <2>4. MembersOK'
    BY <1>1, <1>5, <2>2, <2>3 DEF MembersOK
  <2>5. ASSUME mappings # <<>>
        PROVE  /\ Shares \in Nat \ {0}
               /\ \A i \in 1 .. Len(mappings) : mappings[i] \in Routed
               /\ 2 * (100 - final_total') <= Len(mappings)
               /\ 2 * (final_total' - 100) <= Len(mappings)
    <3>1. \A i \in 1 .. Len(mappings) : mappings[i] \in Routed
      BY DEF Routed, InSeq
    <3>2. Routed # {}
      <4>1. Len(mappings) \in Nat /\ Len(mappings) # 0
        BY <2>5, EmptySeq, LenProperties DEF MembersOK
      <4>2. 1 \in 1 .. Len(mappings)
        BY <4>1
      <4> QED BY <3>1, <4>2
    <3>3. Shares \in Nat \ {0}
      BY <1>5, <3>2, TotalFacts
    <3>4. /\ 2 * (Sum(weight', Routed) - 100) <= Len(mappings)
          /\ 2 * (100 - Sum(weight', Routed)) <= Len(mappings)
      BY <1>5, <2>1, <3>2, RemainderFacts
    <3> QED BY <2>3, <3>1, <3>3, <3>4
  <2>6. SpreadInv'
    <3>1. host_redirect' = 0 /\ stage' # "done" /\ turn' = 1 /\ Len(mappings) \in Nat
      BY <1>1, <1>5, RoutedFacts
    <3>2. Routed' = Routed /\ Shares' = Shares /\ \A n : ExactShare(n)' = ExactShare(n)
      BY <1>1, SharesFixed
    <3>3. ASSUME mappings # <<>>, NEW i \in 1 .. Len(mappings)
          PROVE  Within(mappings[i], IF i < turn THEN 3 ELSE 1)'
      <4>1. PICK n \in Routed : n = mappings[i]
        BY <2>5, <3>3
      <4>2. Within(n, 1)'
        <5>1. Off(n)' = weight'[n] * Shares - ExactShare(n)
          BY <3>2 DEF Off
        <5>2. Shares \in Nat /\ weight'[n] * Shares \in Int
          BY <2>1, <2>5, <3>3, Distribute
        <5> QED BY <2>1, <3>2, <5>1, <5>2 DEF Within
      <4>3. ~(i < turn') /\ mappings'[i] = n
        BY <1>1, <3>1, <4>1
      <4> QED BY <4>2, <4>3
    <3>4. mappings # <<>> => /\ 2 * (turn' - 1) + 2 * (100 - final_total') <= Len(mappings)
                             /\ 2 * (turn' - 1) + 2 * (final_total' - 100) <= Len(mappings)
      BY <2>3, <2>5, <3>1
    <3> QED BY <1>1, <2>3, <2>5, <3>1, <3>2, <3>3, <3>4 DEF SpreadInv
  <2> QED BY <2>4, <2>6
<1> QED BY <1>2, <1>3, <1>4, <1>5 DEF Finalize

(* Each pass takes the total one nearer to 100. *)
LEMMA StepCounted ==
    ASSUME NEW t \in Int, NEW total \in Int, NEW N \in Int, NEW t1, NEW total1, t1 = t + 1,
           \/ total < 100 /\ total1 = total + 1
           \/ total > 100 /\ total1 = total - 1,
           2 * (t - 1) + 2 * (100 - total) <= N, 2 * (t - 1) + 2 * (total - 100) <= N
    PROVE  2 * (t1 - 1) + 2 * (100 - total1) <= N /\ 2 * (t1 - 1) + 2 * (total1 - 100) <= N
OBVIOUS

(* Half of the Mappings are still to come when the loop takes the next.    *)
LEMMA NextInTurn ==
    ASSUME MembersOK, SpreadInv, SpreadOne
    PROVE  turn \in 1 .. Len(mappings) /\ turn # Len(mappings) /\ turn' = turn + 1
<1>1. /\ 2 * (turn - 1) + 2 * (100 - final_total) <= Len(mappings)
      /\ 2 * (turn - 1) + 2 * (final_total - 100) <= Len(mappings)
  BY DEF SpreadInv, SpreadOne
<1>2. turn \in Nat \ {0} /\ final_total \in Int /\ Len(mappings) \in Nat
  BY RoutedFacts DEF MembersOK
<1>3. final_total < 100 \/ final_total > 100
  BY <1>2 DEF SpreadOne
<1>4. turn \in 1 .. Len(mappings) /\ turn # Len(mappings)
  <2>1. CASE final_total < 100
    BY <1>1, <1>2, <2>1
  <2>2. CASE final_total > 100
    BY <1>1, <1>2, <2>2
  <2> QED BY <1>3, <2>1, <2>2
<1> QED BY <1>4 DEF SpreadOne

(* One pass of the loop: the next Mapping in turn, which the loop has not  *)
(* been to before, moves by one and so does the total.                     *)
LEMMA SpreadOneStep ==
    ASSUME MembersOK, SpreadInv, SpreadOne
    PROVE  MembersOK' /\ EveryMappingAccounted' /\ SpreadInv'
<1>1. /\ arrived' = arrived /\ mappings' = mappings /\ shadows' = shadows
      /\ host_redirect' = host_redirect /\ rejected' = rejected
      /\ stage = "spread" /\ stage' = "spread" /\ mappings # <<>> /\ final_total # 100
  BY DEF SpreadOne, memberVars
<1>2. PICK d \in {1, -1} : /\ d = IF final_total < 100 THEN 1 ELSE -1
                           /\ weight' = [weight EXCEPT ![mappings[turn]] = @ + d]
                           /\ final_total' = final_total + d
  BY DEF SpreadOne
<1>3. /\ host_redirect = 0 /\ final_total = Sum(weight, Routed) /\ Shares \in Nat \ {0}
      /\ \A i \in 1 .. Len(mappings) : Within(mappings[i], IF i < turn THEN 3 ELSE 1)
      /\ 2 * (turn - 1) + 2 * (100 - final_total) <= Len(mappings)
      /\ 2 * (turn - 1) + 2 * (final_total - 100) <= Len(mappings)
  BY <1>1 DEF SpreadInv
<1>4. /\ turn \in Nat \ {0} /\ final_total \in Int /\ weight \in [Positions -> Int]
      /\ Len(mappings) \in Nat /\ IsFiniteSet(Routed) /\ Routed \subseteq Positions
  BY RoutedFacts DEF MembersOK
<1>5. turn \in 1 .. Len(mappings) /\ turn # Len(mappings)
  BY NextInTurn
<1>6. turn' = turn + 1
  BY NextInTurn
<1>7. PICK k \in Routed : k = mappings[turn] /\ k \in Positions
  BY <1>4, <1>5 DEF Routed, InSeq
<1>8. /\ weight' \in [Positions -> Int] /\ weight'[k] = weight[k] + d
      /\ \A n \in Routed \ {k} : weight'[n] = weight[n]
  BY <1>2, <1>4, <1>7
<1>9. MembersOK'
  BY <1>1, <1>2, <1>4, <1>6, <1>8 DEF MembersOK
<1>10. EveryMappingAccounted'
  BY <1>1 DEF EveryMappingAccounted
<1>11. Routed' = Routed /\ Shares' = Shares /\ \A n : ExactShare(n)' = ExactShare(n)
  BY <1>1, SharesFixed
<1>12. final_total' = Sum(weight', Routed)
  <2>1. \A n \in Routed : weight[n] \in Int
    BY <1>4
  <2>2. d \in Int
    OBVIOUS
  <2>3. Sum(weight', Routed) = Sum(weight, Routed) + d
    BY <1>4, <1>8, <2>1, <2>2, SumChanged
  <2> QED BY <1>2, <1>3, <2>3
<1>13. ASSUME NEW i \in 1 .. Len(mappings)
       PROVE  Within(mappings[i], IF i < turn THEN 3 ELSE 1)'
  <2>1. PICK n \in Routed : n = mappings[i] /\ n \in Positions
    BY <1>4 DEF Routed, InSeq
  <2>2. CASE i = turn
    <3>1. n = k /\ i < turn' /\ mappings'[i] = n
      BY <1>1, <1>4, <1>6, <1>7, <2>1, <2>2
    <3>2. ExactShare(n) \in Int /\ weight[n] \in Int /\ Shares \in Nat
      BY <1>3, <1>4, <2>1, ShareTypes
    <3>3. Within(n, 1)
      BY <1>3, <1>4, <2>1, <2>2
    <3>4. /\ -Shares <= 2 * (weight[n] * Shares - ExactShare(n))
          /\ 2 * (weight[n] * Shares - ExactShare(n)) <= Shares
      BY <3>2, <3>3 DEF Within, Off
    <3>5. /\ -(3 * Shares) <= 2 * ((weight[n] + d) * Shares - ExactShare(n))
          /\ 2 * ((weight[n] + d) * Shares - ExactShare(n)) <= 3 * Shares
      BY <3>2, <3>4, MovedByOne
    <3>6. Within(n, 3)'
      BY <1>8, <1>11, <3>1, <3>5 DEF Within, Off
    <3> QED BY <3>1, <3>6
  <2>3. CASE i # turn
    <3>1. n # k
      BY <1>5, <1>7, <2>1, <2>3 DEF MembersOK
    <3>2. mappings'[i] = n /\ (i < turn' <=> i < turn)
      BY <1>1, <1>4, <1>6, <2>1, <2>3
    <3>3. weight'[n] = weight[n]
      BY <1>8, <3>1
    <3>4. ASSUME NEW h, Within(n, h) PROVE Within(n, h)'
      BY <1>11, <3>3, <3>4 DEF Within, Off
    <3>5. Within(n, IF i < turn THEN 3 ELSE 1)
      BY <1>3, <2>1
    <3>6. CASE i < turn
      BY <3>2, <3>4, <3>5, <3>6
    <3>7. CASE ~(i < turn)
      BY <3>2, <3>4, <3>5, <3>7
    <3> QED BY <3>6, <3>7
  <2> QED BY <2>2, <2>3
<1>14. /\ 2 * (turn' - 1) + 2 * (100 - final_total') <= Len(mappings)
       /\ 2 * (turn' - 1) + 2 * (final_total' - 100) <= Len(mappings)
  <2>1. turn \in Int /\ final_total \in Int /\ Len(mappings) \in Int
    BY <1>4
  <2>2. \/ final_total < 100 /\ final_total' = final_total + 1
        \/ final_total > 100 /\ final_total' = final_total - 1
    BY <1>1, <1>2, <1>4
  <2>3. /\ 2 * (turn - 1) + 2 * (100 - final_total) <= Len(mappings)
        /\ 2 * (turn - 1) + 2 * (final_total - 100) <= Len(mappings)
    BY <1>3
  <2> QED BY <1>6, <2>1, <2>2, <2>3, StepCounted
<1>15. SpreadInv'
  BY <1>1, <1>3, <1>11, <1>12, <1>13, <1>14 DEF SpreadInv
<1> QED BY <1>9, <1>10, <1>15

(* The loop ends, or nothing happens. *)
LEMMA GroupRest ==
    ASSUME GroupIInv, SpreadDone \/ UNCHANGED groupVars
    PROVE  GroupIInv'
<1>1. /\ arrived' = arrived /\ mappings' = mappings /\ shadows' = shadows
      /\ host_redirect' = host_redirect /\ rejected' = rejected
      /\ weight' = weight /\ final_total' = final_total /\ turn' = turn
      /\ \/ stage' = stage
         \/ stage = "spread" /\ stage' = "done" /\ (mappings = <<>> \/ final_total = 100)
  BY DEF SpreadDone, groupVars, memberVars
<1>2. MembersOK'
  BY <1>1 DEF GroupIInv, MembersOK
<1>3. Routed' = Routed /\ Shares' = Shares /\ \A n : ExactShare(n)' = ExactShare(n)
  BY <1>1, SharesFixed
<1>4. EveryMappingAccounted'
  BY <1>1, <1>3 DEF GroupIInv, EveryMappingAccounted
<1>5. ASSUME NEW i, NEW h, Within(mappings[i], h) PROVE Within(mappings[i], h)'
  <2>1. PICK n : n = mappings[i]
    OBVIOUS
  <2>2. Within(n, h)'
    BY <1>1, <1>3, <1>5, <2>1 DEF Within, Off
  <2> QED BY <1>1, <2>1, <2>2
<1>6. SpreadInv'
  <2>1. ASSUME stage' \in {"spread", "done"}, host_redirect' = 0, mappings' # <<>>
        PROVE  /\ final_total' = Sum(weight, Routed)'
               /\ Shares' \in Nat \ {0}
               /\ \A i \in 1 .. Len(mappings') : Within(mappings[i], IF i < turn THEN 3 ELSE 1)'
               /\ 2 * (turn' - 1) + 2 * (100 - final_total') <= Len(mappings')
               /\ 2 * (turn' - 1) + 2 * (final_total' - 100) <= Len(mappings')
               /\ stage' = "done" => final_total' = 100
    <3>1. stage \in {"spread", "done"} /\ host_redirect = 0 /\ mappings # <<>>
      BY <1>1, <2>1
    <3>2. /\ final_total = Sum(weight, Routed) /\ Shares \in Nat \ {0}
          /\ \A i \in 1 .. Len(mappings) : Within(mappings[i], IF i < turn THEN 3 ELSE 1)
          /\ 2 * (turn - 1) + 2 * (100 - final_total) <= Len(mappings)
          /\ 2 * (turn - 1) + 2 * (final_total - 100) <= Len(mappings)
          /\ stage = "done" => final_total = 100
      BY <3>1 DEF GroupIInv, SpreadInv
    <3>3. ASSUME NEW i \in 1 .. Len(mappings)
          PROVE  Within(mappings[i], IF i < turn THEN 3 ELSE 1)'
      <4>1. CASE i < turn
        <5>1. Within(mappings[i], 3)
          BY <3>2, <4>1
        <5>2. Within(mappings[i], 3)'
          BY <1>5, <5>1
        <5> QED BY <1>1, <4>1, <5>2
      <4>2. CASE ~(i < turn)
        <5>1. Within(mappings[i], 1)
          BY <3>2, <4>2
        <5>2. Within(mappings[i], 1)'
          BY <1>5, <5>1
        <5> QED BY <1>1, <4>2, <5>2
      <4> QED BY <4>1, <4>2
    <3> QED BY <1>1, <1>3, <3>1, <3>2, <3>3
  <2>2. stage' = "spread" => host_redirect' = 0
    BY <1>1 DEF GroupIInv, SpreadInv
  <2> QED BY <2>1, <2>2 DEF SpreadInv
<1> QED BY <1>2, <1>4, <1>6 DEF GroupIInv

(* An empty group satisfies the invariant. *)
LEMMA GroupStart ==
    ASSUME GroupInit
    PROVE  GroupIInv
<1>1. MembersOK
  <2>1. /\ arrived = <<>> /\ mappings = <<>> /\ shadows = <<>> /\ host_redirect = 0
        /\ rejected = {} /\ final_total = 0 /\ turn = 1 /\ stage = "adding"
        /\ weight = [n \in Positions |-> 0]
    BY DEF GroupInit
  <2>2. Len(arrived) = 0 /\ Len(mappings) = 0 /\ \A S : <<>> \in Seq(S)
    BY <2>1, EmptySeq
  <2> QED BY <2>1, <2>2, GroupAssumption DEF MembersOK
<1>2. EveryMappingAccounted
  <2>1. Routed = {} /\ InSeq(shadows) = {} /\ Len(arrived) = 0 /\ Len(mappings) = 0
        /\ Len(shadows) = 0 /\ rejected = {} /\ host_redirect = 0 /\ 1 .. 0 = {}
    BY EmptySeq DEF GroupInit, Routed, InSeq
  <2>2. Cardinality({}) = 0
    BY FS_EmptySet
  <2> QED BY <2>1, <2>2 DEF EveryMappingAccounted
<1>3. SpreadInv
  BY DEF GroupInit, SpreadInv
<1> QED BY <1>1, <1>2, <1>3 DEF GroupIInv

(* The inductive invariant of a group. *)
THEOREM GroupInvariance == GroupSpec => []GroupIInv
<1>1. GroupInit => GroupIInv
  BY GroupStart
<1>2. GroupIInv /\ [GroupNext]_groupVars => GroupIInv'
  <2> SUFFICES ASSUME GroupIInv, [GroupNext]_groupVars PROVE GroupIInv'
    OBVIOUS
  <2>1. ASSUME NEW m \in Candidates, add_mapping(m) PROVE GroupIInv'
    <3>1. MembersOK' /\ EveryMappingAccounted'
      BY <2>1, AddStep, AccountedAdd DEF GroupIInv
    <3>2. SpreadInv'
      BY <2>1 DEF add_mapping, SpreadInv
    <3> QED BY <3>1, <3>2 DEF GroupIInv
  <2>2. CASE Finalize
    BY <2>2, FinalizeStep DEF GroupIInv
  <2>3. CASE SpreadOne
    BY <2>3, SpreadOneStep DEF GroupIInv
  <2>4. CASE SpreadDone \/ UNCHANGED groupVars
    BY <2>4, GroupRest
  <2> QED BY <2>1, <2>2, <2>3, <2>4 DEF GroupNext
<1> QED BY <1>1, <1>2, PTL DEF GroupSpec

(* Every Mapping that add_mapping is given ends in one place: the routes,  *)
(* the shadow, the redirect or the errors.                                 *)
THEOREM EveryMappingIsAccounted == GroupSpec => []EveryMappingAccounted
BY GroupInvariance, PTL DEF GroupIInv

(* However many Mappings a group has and whatever their weights, finalize  *)
(* leaves weights that add up to 100.                                      *)
THEOREM WeightsAlwaysSumTo100 == GroupSpec => []WeightsSumTo100
<1>1. GroupIInv => WeightsSumTo100
  BY DEF GroupIInv, SpreadInv, WeightsSumTo100, Balanced, Sum
<1> QED BY <1>1, GroupInvariance, PTL

(* No weight ends more than one and a half percent from its exact share:   *)
(* rounding moves it by a half and the loop comes to each Mapping at most  *)
(* once.                                                                   *)
THEOREM SharesStayNearExact == GroupSpec => []NearExactShare
<1>1. ASSUME GroupIInv, Balanced, NEW n \in Routed
      PROVE  /\ 2 * (weight[n] * Shares - ExactShare(n)) <= 3 * Shares
             /\ 2 * (ExactShare(n) - weight[n] * Shares) <= 3 * Shares
  <2>1. MembersOK /\ Shares \in Nat \ {0}
        /\ \A i \in 1 .. Len(mappings) : Within(mappings[i], IF i < turn THEN 3 ELSE 1)
    BY <1>1 DEF GroupIInv, SpreadInv, Balanced
  <2>2. PICK i \in 1 .. Len(mappings) : n = mappings[i]
    BY DEF Routed, InSeq
  <2>3. Within(n, 3) \/ Within(n, 1)
    BY <2>1, <2>2
  <2>4. ExactShare(n) \in Int /\ weight[n] \in Int
    BY <2>1, ShareTypes, RoutedFacts DEF MembersOK
  <2>5. PICK off \in Int : off = Off(n)
    BY <2>1, <2>4, Distribute DEF Off
  <2>6. -(3 * Shares) <= 2 * off /\ 2 * off <= 3 * Shares
    BY <2>1, <2>3, <2>5 DEF Within
  <2>7. 2 * off <= 3 * Shares /\ 2 * (-off) <= 3 * Shares
    BY <2>1, <2>6
  <2>8. weight[n] * Shares \in Int
    BY <2>1, <2>4, Distribute
  <2>9. weight[n] * Shares - ExactShare(n) = off /\ ExactShare(n) - weight[n] * Shares = -off
    BY <2>4, <2>5, <2>8 DEF Off
  <2> QED BY <2>7, <2>9
<1>2. GroupIInv => NearExactShare
  BY <1>1 DEF NearExactShare
<1> QED BY <1>2, GroupInvariance, PTL

(* The `for' that spreads the remainder never comes to the end of          *)
(* self.mappings: it breaks first, so that the `while' around it goes      *)
(* round once at most and no Mapping is moved twice.                       *)
THEOREM SpreadGoesRoundOnce ==
    GroupSpec => [][SpreadOne => turn < Len(mappings) /\ turn' = turn + 1]_groupVars
<1>1. GroupIInv => [SpreadOne => turn < Len(mappings) /\ turn' = turn + 1]_groupVars
  <2> SUFFICES ASSUME GroupIInv, SpreadOne
               PROVE  turn < Len(mappings) /\ turn' = turn + 1
    OBVIOUS
  <2>1. turn \in 1 .. Len(mappings) /\ turn # Len(mappings) /\ turn' = turn + 1
    BY NextInTurn DEF GroupIInv
  <2>2. Len(mappings) \in Nat
    BY RoutedFacts DEF GroupIInv
  <2> QED BY <2>1, <2>2
<1> QED BY <1>1, GroupInvariance, PTL
-----------------------------------------------------------------------------
(* What MappingGroup sees of a Mapping that Routing offers to a group: the *)
(* place it asks for and whether it agrees with the core keys.             *)
SeenAs(c, m, group) ==
    /\ c.shadow <=> m.role = "shadow"
    /\ c.host_redirect = "true" <=> m.role = "redirect"
    /\ Disagrees(c) <=> Mismatched(m, group.core)

(* The two models of add_mapping agree: Routing's groups take a Mapping    *)
(* where MappingGroup places it, and refuse what that one rejects.         *)
LEMMA SamePlace ==
    ASSUME NEW m \in Mappings, NEW n \in Nat, NEW group \in GroupType, NEW c,
           SeenAs(c, m, group),
           shadows = <<>> <=> group.shadow = 0,
           host_redirect = 0 <=> group.host_redirect = 0
    PROVE  /\ Place(c) = "reject" <=> ~Taken(m, group)
           /\ Place(c) = "reject" => Joined(m, n, group) = group
           /\ Place(c) = "shadow" => Joined(m, n, group) = [group EXCEPT !.shadow = n]
           /\ Place(c) = "redirect" => Joined(m, n, group) = [group EXCEPT !.host_redirect = n]
           /\ Place(c) = "route" =>
                  Joined(m, n, group) = [group EXCEPT !.mappings = Append(group.mappings, n)]
<1>1. m.role \in {"route", "shadow", "redirect"}
  BY RoutingAssumption DEF MappingType
<1>2. CASE Mismatched(m, group.core)
  <2>1. Place(c) = "reject"
    BY <1>2 DEF Place, SeenAs
  <2>2. ~Taken(m, group)
    BY <1>2 DEF Taken
  <2>3. Joined(m, n, group) = group
    BY <2>2 DEF Joined
  <2> QED BY <2>1, <2>2, <2>3
<1>3. CASE ~Mismatched(m, group.core) /\ m.role = "shadow"
  <2>1. Place(c) = IF shadows # <<>> THEN "reject" ELSE "shadow"
    BY <1>3 DEF Place, SeenAs
  <2>2. Taken(m, group) <=> shadows = <<>>
    BY <1>3 DEF Taken
  <2>3. CASE shadows = <<>>
    <3>1. Joined(m, n, group) = [group EXCEPT !.shadow = n]
      BY <1>3, <2>2, <2>3 DEF Joined
    <3> QED BY <2>1, <2>2, <2>3, <3>1
  <2>4. CASE shadows # <<>>
    <3>1. Joined(m, n, group) = group
      BY <2>2, <2>4 DEF Joined
    <3> QED BY <2>1, <2>2, <2>4, <3>1
  <2> QED BY <2>3, <2>4
<1>4. CASE ~Mismatched(m, group.core) /\ m.role = "redirect"
  <2>1. Place(c) = IF host_redirect # 0 THEN "reject" ELSE "redirect"
    BY <1>4 DEF Place, SeenAs
  <2>2. Taken(m, group) <=> host_redirect = 0
    BY <1>4 DEF Taken
  <2>3. CASE host_redirect = 0
    <3>1. Joined(m, n, group) = [group EXCEPT !.host_redirect = n]
      BY <1>4, <2>2, <2>3 DEF Joined
    <3> QED BY <2>1, <2>2, <2>3, <3>1
  <2>4. CASE host_redirect # 0
    <3>1. Joined(m, n, group) = group
      BY <2>2, <2>4 DEF Joined
    <3> QED BY <2>1, <2>2, <2>4, <3>1
  <2> QED BY <2>3, <2>4
<1>5. CASE ~Mismatched(m, group.core) /\ m.role = "route"
  <2>1. Place(c) = "route"
    BY <1>5 DEF Place, SeenAs
  <2>2. Taken(m, group)
    BY <1>5 DEF Taken
  <2>3. Joined(m, n, group) = [group EXCEPT !.mappings = Append(group.mappings, n)]
    BY <1>5, <2>2 DEF Joined
  <2> QED BY <2>1, <2>2, <2>3
<1> QED BY <1>1, <1>2, <1>3, <1>4, <1>5
=============================================================================
