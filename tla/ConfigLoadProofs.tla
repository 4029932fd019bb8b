-------------------------- MODULE ConfigLoadProofs --------------------------
(***************************************************************************)
(* Proofs that a load types its state, files its errors where they belong, *)
(* ends with the same Config in whatever order the inputs are listed, and  *)
(* loses no resource without a word.                                       *)
(***************************************************************************)
EXTENDS ConfigLoad, FiniteSetTheorems, SequenceTheorems, TLAPS

(* What an input holds one object of, when it is a Service with a name. *)
ServiceType == [id : Ids, rkey : {0}, kind : {"Service"}, name : Nat \ {0}, api : Versions,
                valid : BOOLEAN]

(* The fetcher reads one input at a time, which it has taken from todo. *)
ReadingOK ==
    /\ k8s \in BOOLEAN
    /\ given \in [Inputs -> Contents]
    /\ todo \subseteq Inputs
    /\ reading = {} \/ \E f \in Inputs \ todo : reading = {f}
    /\ at \in Nat \ {0}
    /\ \A f \in reading : at <= Len(given[f]) + 1
    /\ phase \in {"fetching", "loading", "ir", "raised"}

PlaceOK ==
    /\ ocount \in Nat \ {0}
    /\ filename \in Nat
    /\ saved \in Seq(Nat \X (Nat \ {0}))
    /\ Len(saved) = Cardinality(reading)

FoundOK ==
    /\ elements \in Seq(ElementType)
    /\ services \subseteq ServiceType
    /\ IsFiniteSet(services)

StoreOK ==
    /\ config \subseteq Elements /\ sources \subseteq Elements
    /\ errors \subseteq [rkey : Nat, about : Ids]
    /\ notices \subseteq Ids /\ refused \subseteq Ids
    /\ current_resource \in Nat
    /\ loaded \subseteq 1 .. Len(elements)
    /\ ir \subseteq errors

(* Nothing is stored before all has been fetched, and all before the IR is *)
(* built.                                                                  *)
PhaseInv ==
    /\ phase \in {"fetching", "raised"} =>
           loaded = {} /\ config = {} /\ current_resource = Global
    /\ phase # "ir" => ir = {}
    /\ phase = "ir" => Left = {}
    /\ phase \in {"loading", "ir"} => todo = {} /\ reading = {}

(* Of the acceptable elements loaded for one slot, the last in order.      *)
Winner(i) ==
    /\ validate_object(elements[i])
    /\ \A j \in loaded : validate_object(elements[j]) /\ SameSlot(elements[j], elements[i])
                             => j = i \/ sorted(j, i)

(* Elements are loaded in order, and the Config is made of the winners.    *)
OrderInv ==
    /\ \A i \in loaded : \A j \in Left : sorted(i, j)
    /\ config = {elements[i] : i \in {k \in loaded : Winner(k)}}

(* current_resource is left over only from a refused resource.  An error   *)
(* is global, or about a resource that has been loaded, or it is the IR's. *)
FiledInv ==
    /\ \/ current_resource = Global
       \/ last \in loaded /\ elements[last].id \in refused
              /\ current_resource = elements[last].rkey
    /\ \A e \in errors :
           \/ e.rkey = Global
           \/ \E i \in loaded : /\ elements[i].id = e.about /\ elements[i].rkey = e.rkey
                                /\ (DistinctRkeys => elements[i] \in sources)
           \/ e \in ir /\ elements[last].id \in refused /\ e.rkey = elements[last].rkey
    /\ DistinctRkeys => \A i \in loaded : elements[i] \in sources

(* The objects that the fetcher is through with. *)
Read == {id \in Given : id[1] \notin todo /\ (id[1] \in reading => id[2] < at)}

Excused(id) ==
    \/ Object(id).kind \in {"Pragma", "Service"}
    \/ Object(id) = Unparsable /\ k8s
    \/ Object(id).kind # "empty" /\ ~Object(id).ours

(* Nothing that has been read or loaded is lost. *)
KeptInv ==
    /\ \A id \in Read : \/ Excused(id) \/ Told(id)
                        \/ \E i \in 1 .. Len(elements) : elements[i].id = id
    /\ \A i \in loaded : \/ elements[i] \in config
                         \/ Told(elements[i].id)
                         \/ \E j \in loaded : /\ SameSlot(elements[i], elements[j])
                                              /\ sorted(i, j)
                                              /\ Told(elements[j].id)

IInv ==
    /\ ReadingOK /\ PlaceOK /\ FoundOK /\ StoreOK
    /\ PhaseInv /\ OrderInv /\ FiledInv /\ KeptInv
-----------------------------------------------------------------------------
(* Any enumeration of a finite set is a sequence of its elements. *)
LEMMA SetToSeqType == ASSUME NEW S, IsFiniteSet(S) PROVE SetToSeq(S) \in Seq(S)
<1>1. Cardinality(S) \in Nat /\ ExistsBijection(1 .. Cardinality(S), S)
  BY FS_CardinalityType
<1>2. PICK f : f \in Bijection(1 .. Cardinality(S), S)
  BY <1>1 DEF ExistsBijection
<1>3. f \in [1 .. Cardinality(S) -> S] /\ IsInjective(f)
  BY <1>2 DEF Bijection, Injection, IsInjective
<1>4. SetToSeq(S) \in [1 .. Cardinality(S) -> S]
  BY <1>3 DEF SetToSeq
<1> QED BY <1>1, <1>4

(* The objects that inputs hold, and their numbers. *)
LEMMA ObjectFacts ==
    ASSUME ReadingOK, NEW f \in Inputs
    PROVE  /\ Len(given[f]) \in Nat /\ Len(given[f]) <= MaxObjects
           /\ \A n \in 1 .. Len(given[f]) : /\ given[f][n] \in ObjectType \cup {Unparsable}
                                            /\ <<f, n>> \in Ids
<1>1. /\ given[f] \in Contents
      /\ given[f] \in Seq(ObjectType \cup {Unparsable})
      /\ Len(given[f]) <= MaxObjects
  BY FetcherAssumption DEF ReadingOK
<1>2. Len(given[f]) \in Nat
  BY <1>1, LenProperties
<1>3. \A n \in 1 .. Len(given[f]) : given[f][n] \in ObjectType \cup {Unparsable}
  BY <1>1, ElementOfSeq
<1>4. \A n \in 1 .. Len(given[f]) : <<f, n>> \in Ids
  <2>1. \A n \in 1 .. Len(given[f]) : n \in 1 .. MaxObjects
    BY <1>1, <1>2 DEF MaxObjects
  <2> QED BY <2>1 DEF Ids
<1> QED BY <1>1, <1>2, <1>3, <1>4

(* What is not broken makes an element, under a number that is positive. *)
LEMMA ElementFacts ==
    ASSUME ReadingOK, PlaceOK, NEW f \in Inputs, reading = {f}, at <= Len(given[f])
    PROVE  LET o == given[f][at]
           IN  /\ ~Broken(o) /\ o.ours
                    => Element(<<f, at>>, StringOrder(Base(f), ocount), o) \in ElementType
               /\ o.kind = "Service" /\ o.name # 0 => Element(<<f, at>>, 0, o) \in ServiceType
<1> DEFINE o == given[f][at]
           rkey == StringOrder(Base(f), ocount)
<1>1. o \in ObjectType \cup {Unparsable} /\ <<f, at>> \in Ids
  BY ObjectFacts DEF ReadingOK
<1>2. Base(f) \in Nat
  BY FetcherAssumption DEF Base, PlaceOK
<1>3. rkey \in Nat \ {0}
  BY <1>2 DEF StringOrder, PlaceOK
<1> HIDE DEF o, rkey
<1>4. ASSUME ~Broken(o), o.ours PROVE Element(<<f, at>>, rkey, o) \in ElementType
  <2>1. o \in ObjectType
    BY <1>1, <1>4 DEF Broken, Unparsable
  <2> QED BY <1>1, <1>3, <2>1 DEF ObjectType, ElementType, Element
<1>5. ASSUME o.kind = "Service", o.name # 0 PROVE Element(<<f, at>>, 0, o) \in ServiceType
  <2>1. o \in ObjectType
    BY <1>1, <1>5 DEF Unparsable
  <2> QED BY <1>1, <1>5, <2>1 DEF ObjectType, ServiceType, Element
<1> QED BY <1>4, <1>5 DEF o, rkey

(* What finalize adds. *)
LEMMA FinalizeType ==
    ASSUME FoundOK
    PROVE  SetToSeq({[s EXCEPT !.rkey = ServiceRkey(s.name)] : s \in services}) \in Seq(ElementType)
<1> DEFINE S == {[s EXCEPT !.rkey = ServiceRkey(s.name)] : s \in services}
<1>1. IsFiniteSet(S)
  <2> DEFINE g == [s \in services |-> [s EXCEPT !.rkey = ServiceRkey(s.name)]]
  <2>1. g \in Surjection(services, S)
    BY DEF Surjection
  <2> QED BY <2>1, FS_Surjection DEF FoundOK
<1>2. ASSUME NEW s \in services PROVE [s EXCEPT !.rkey = ServiceRkey(s.name)] \in ElementType
  <2>1. s \in ServiceType
    BY DEF FoundOK
  <2>2. s.name \in Nat \ {0}
    BY <2>1 DEF ServiceType
  <2>3. ServiceRkey(s.name) \in Nat \ {0}
    BY <2>2 DEF ServiceRkey, MaxObjects
  <2>4. "Service" \in Kinds
    BY DEF Kinds
  <2> QED BY <2>1, <2>3, <2>4 DEF ServiceType, ElementType
<1>3. S \subseteq ElementType
  BY <1>2
<1>4. SetToSeq(S) \in Seq(S)
  BY <1>1, SetToSeqType
<1> HIDE DEF S
<1>5. SetToSeq(S) \in Seq(ElementType)
  BY <1>3, <1>4, SeqMonotonic
<1> QED BY <1>5 DEF S
-----------------------------------------------------------------------------
(* A step of the fetcher leaves the store alone, except for an error that  *)
(* names no resource, and adds elements only at the end.                   *)
Extended ==
    /\ phase = "fetching"
    /\ UNCHANGED <<config, notices, sources, current_resource, refused>>
    /\ Len(elements') >= Len(elements)
    /\ \A i \in 1 .. Len(elements) : elements'[i] = elements[i]
    /\ errors' = errors \/ \E id \in Ids : errors' = errors \cup {Error(Global, id)}

(* An input is opened, or found to be no YAML. *)
LEMMA OpenStep ==
    ASSUME ReadingOK, PlaceOK, FoundOK, NEW f \in Inputs, Open(f)
    PROVE  ReadingOK' /\ PlaceOK' /\ FoundOK' /\ Extended
<1>1. FoundOK' /\ UNCHANGED <<k8s, given, elements, phase>> /\ phase = "fetching"
  BY DEF Open, FoundOK
<1>2. CASE given[f] = <<Unparsable>>
  <2>1. /\ UNCHANGED <<reading, at, filename, ocount, saved>> /\ reading = {}
        /\ todo' = todo \ {f}
        /\ UNCHANGED storeVars \/ PostError(<<f, 1>>)
    BY <1>2 DEF Open
  <2>2. <<f, 1>> \in Ids
    <3>1. Len(<<Unparsable>>) = 1
      OBVIOUS
    <3>2. 1 \in 1 .. Len(given[f])
      BY <1>2, <3>1
    <3> QED BY <3>2, ObjectFacts
  <2>3. ReadingOK' /\ PlaceOK'
    BY <1>1, <2>1 DEF ReadingOK, PlaceOK
  <2> QED BY <1>1, <2>1, <2>2, <2>3, LenProperties DEF Extended, PostError, storeVars, FoundOK
<1>3. CASE given[f] # <<Unparsable>>
  <2>1. /\ reading = {} /\ reading' = {f} /\ at' = 1 /\ ocount' = 1 /\ todo' = todo \ {f}
        /\ saved' = Append(saved, <<filename, ocount>>)
        /\ filename' = IF k8s THEN 0 ELSE BaseOf[f]
        /\ UNCHANGED storeVars
    BY <1>3 DEF Open
  <2>2. filename' \in Nat
    BY <2>1, FetcherAssumption
  <2>3. Cardinality({}) = 0 /\ Cardinality({f}) = 1
    BY FS_EmptySet, FS_Singleton
  <2>4. saved' \in Seq(Nat \X (Nat \ {0})) /\ Len(saved') = 1
    BY <2>1, <2>3 DEF PlaceOK
  <2>5. PlaceOK'
    BY <2>1, <2>2, <2>3, <2>4 DEF PlaceOK
  <2>6. ReadingOK'
    BY <1>1, <2>1, ObjectFacts DEF ReadingOK
  <2> QED BY <1>1, <2>1, <2>5, <2>6, LenProperties DEF Extended, storeVars, FoundOK
<1> QED BY <1>2, <1>3

(* An input is closed, and the place before it restored. *)
LEMMA CloseStep ==
    ASSUME ReadingOK, PlaceOK, FoundOK, NEW f \in Inputs, Close(f)
    PROVE  ReadingOK' /\ PlaceOK' /\ FoundOK' /\ Extended
<1>1. /\ FoundOK' /\ UNCHANGED <<k8s, given, todo, elements, phase, storeVars>> /\ phase = "fetching"
      /\ reading = {f} /\ reading' = {} /\ at' = 1
      /\ filename' = saved[Len(saved)][1] /\ ocount' = saved[Len(saved)][2]
      /\ saved' = SubSeq(saved, 1, Len(saved) - 1)
  BY DEF Close, FoundOK
<1>2. Cardinality({}) = 0 /\ Cardinality({f}) = 1
  BY FS_EmptySet, FS_Singleton
<1>3. Len(saved) = 1 /\ saved[1] \in Nat \X (Nat \ {0})
  BY <1>1, <1>2 DEF PlaceOK
<1>4. filename' \in Nat /\ ocount' \in Nat \ {0}
  BY <1>1, <1>3
<1>5. saved' \in Seq(Nat \X (Nat \ {0})) /\ Len(saved') = 0
  BY <1>1, <1>3 DEF PlaceOK
<1>6. PlaceOK'
  BY <1>1, <1>2, <1>4, <1>5 DEF PlaceOK
<1>7. ReadingOK'
  BY <1>1 DEF ReadingOK
<1> QED BY <1>1, <1>6, <1>7, LenProperties DEF Extended, storeVars, FoundOK

(* An object becomes an element, or an error, or nothing. *)
LEMMA ObjectStep ==
    ASSUME ReadingOK, PlaceOK, FoundOK, NEW f \in Inputs, ProcessObject(f)
    PROVE  ReadingOK' /\ PlaceOK' /\ FoundOK' /\ Extended
<1> DEFINE o == given[f][at]
           e == Element(<<f, at>>, StringOrder(Base(f), ocount), o)
<1>1. /\ reading = {f} /\ phase = "fetching" /\ at <= Len(given[f]) /\ f \in Inputs \ todo
      /\ at' = at + 1 /\ ocount' = ocount + 1
      /\ UNCHANGED <<k8s, given, todo, reading, filename, saved, services, phase>>
  BY DEF ProcessObject, ReadingOK
<1>2. ReadingOK' /\ PlaceOK'
  BY <1>1, ObjectFacts DEF ReadingOK, PlaceOK
<1>3. <<f, at>> \in Ids
  BY <1>1, ObjectFacts DEF ReadingOK
<1>4. \/ PostError(<<f, at>>) /\ elements' = elements
      \/ UNCHANGED storeVars /\ elements' = elements
      \/ UNCHANGED storeVars /\ ~Broken(o) /\ o.ours /\ elements' = Append(elements, e)
  BY DEF ProcessObject, process_object
<1>5. ~Broken(o) /\ o.ours => e \in ElementType
  BY <1>1, ElementFacts
<1> HIDE DEF e, o
<1>6. elements \in Seq(ElementType)
  BY DEF FoundOK
<1>7. CASE elements' = elements
  BY <1>1, <1>2, <1>3, <1>4, <1>6, <1>7, LenProperties, AppendProperties
      DEF Extended, storeVars, FoundOK, PostError
<1>8. CASE UNCHANGED storeVars /\ ~Broken(o) /\ o.ours /\ elements' = Append(elements, e)
  <2>1. /\ elements' \in Seq(ElementType) /\ Len(elements') = Len(elements) + 1
        /\ Len(elements) \in Nat
        /\ \A i \in 1 .. Len(elements) : elements'[i] = elements[i]
    BY <1>5, <1>6, <1>8, AppendProperties, LenProperties
  <2> QED BY <1>1, <1>2, <1>8, <2>1 DEF Extended, storeVars, FoundOK
<1> QED BY <1>4, <1>7, <1>8

(* A Pragma changes the place only. *)
LEMMA PragmaStep ==
    ASSUME ReadingOK, PlaceOK, FoundOK, NEW f \in Inputs, ProcessPragma(f)
    PROVE  ReadingOK' /\ PlaceOK' /\ FoundOK' /\ Extended
<1> DEFINE o == given[f][at]
<1>1. /\ reading = {f} /\ phase = "fetching" /\ at <= Len(given[f]) /\ f \in Inputs \ todo
      /\ at' = at + 1 /\ o.kind = "Pragma"
      /\ filename' = (IF o.ours /\ o.name # 0 THEN o.name ELSE filename)
      /\ ocount' = (IF o.ours THEN ocount ELSE ocount + 1)
      /\ UNCHANGED <<k8s, given, todo, reading, saved, elements, services, phase, storeVars>>
  BY DEF ProcessPragma, ReadingOK
<1>2. o \in ObjectType \cup {Unparsable}
  <2>1. at \in 1 .. Len(given[f])
    BY <1>1, ObjectFacts DEF ReadingOK
  <2> QED BY <2>1, ObjectFacts
<1>3. o.name \in Nat
  BY <1>2 DEF ObjectType, Unparsable
<1> HIDE DEF o
<1>4. filename' \in Nat /\ ocount' \in Nat \ {0}
  BY <1>1, <1>3 DEF PlaceOK
<1>5. PlaceOK' /\ FoundOK'
  BY <1>1, <1>4 DEF PlaceOK, FoundOK
<1>6. ReadingOK'
  BY <1>1, ObjectFacts DEF ReadingOK
<1> QED BY <1>1, <1>5, <1>6, LenProperties DEF Extended, storeVars, FoundOK

(* A Service is kept for the end. *)
LEMMA ServiceStep ==
    ASSUME ReadingOK, PlaceOK, FoundOK, NEW f \in Inputs, ProcessService(f)
    PROVE  ReadingOK' /\ PlaceOK' /\ FoundOK' /\ Extended
<1> DEFINE o == given[f][at]
           e == Element(<<f, at>>, 0, o)
<1>1. /\ reading = {f} /\ phase = "fetching" /\ at <= Len(given[f]) /\ f \in Inputs \ todo
      /\ at' = at + 1 /\ ocount' = ocount + 1 /\ o.kind = "Service"
      /\ phase' \in {"fetching", "raised"}
      /\ \/ services' = services
         \/ o.name # 0 /\ services' = {s \in services : s.name # o.name} \cup {e}
      /\ UNCHANGED <<k8s, given, todo, reading, filename, saved, elements, storeVars>>
  BY DEF ProcessService, ReadingOK
<1>2. o.name # 0 => e \in ServiceType
  BY <1>1, ElementFacts
<1> HIDE DEF o, e
<1>3. services' \subseteq ServiceType
  BY <1>1, <1>2 DEF FoundOK
<1>4. IsFiniteSet(services')
  <2>1. IsFiniteSet({s \in services : s.name # o.name})
    BY FS_Subset DEF FoundOK
  <2>2. IsFiniteSet({s \in services : s.name # o.name} \cup {e})
    BY <2>1, FS_AddElement
  <2> QED BY <1>1, <2>2 DEF FoundOK
<1>5. PlaceOK' /\ FoundOK'
  BY <1>1, <1>3, <1>4 DEF PlaceOK, FoundOK
<1>6. ReadingOK'
  BY <1>1, ObjectFacts DEF ReadingOK
<1> QED BY <1>1, <1>5, <1>6, LenProperties DEF Extended, storeVars, FoundOK

(* The Services become elements. *)
LEMMA FinalizeStep ==
    ASSUME ReadingOK, PlaceOK, FoundOK, Finalize
    PROVE  ReadingOK' /\ PlaceOK' /\ FoundOK' /\ Extended
<1> DEFINE t == SetToSeq({[s EXCEPT !.rkey = ServiceRkey(s.name)] : s \in services})
<1>1. /\ phase = "fetching" /\ todo = {} /\ reading = {} /\ phase' = "loading"
      /\ elements' = elements \o t
      /\ UNCHANGED <<k8s, given, todo, reading, at, filename, ocount, saved, services, storeVars>>
  BY DEF Finalize
<1>2. t \in Seq(ElementType)
  BY FinalizeType
<1> HIDE DEF t
<1>3. elements \in Seq(ElementType)
  BY DEF FoundOK
<1>4. /\ elements' \in Seq(ElementType) /\ Len(elements') = Len(elements) + Len(t)
      /\ Len(elements) \in Nat /\ Len(t) \in Nat
      /\ \A i \in 1 .. Len(elements) : elements'[i] = elements[i]
  BY <1>1, <1>2, <1>3, ConcatProperties, LenProperties
<1>5. Len(elements') >= Len(elements)
  BY <1>4
<1> QED BY <1>1, <1>4, <1>5 DEF ReadingOK, PlaceOK, FoundOK, Extended, storeVars

(* So does every step of the fetcher. *)
LEMMA FetchStep ==
    ASSUME ReadingOK, PlaceOK, FoundOK, Fetch
    PROVE  ReadingOK' /\ PlaceOK' /\ FoundOK' /\ Extended
BY OpenStep, CloseStep, ObjectStep, PragmaStep, ServiceStep, FinalizeStep DEF Fetch
-----------------------------------------------------------------------------
(* Every error, told before, remains told. *)
LEMMA ToldGrows == ASSUME errors \subseteq errors' PROVE \A id : Told(id) => Told(id)'
  BY DEF Told

(* Fetching keeps the store in order: there is nothing in it but errors.   *)
LEMMA FetchStore ==
    ASSUME IInv, Fetch, UNCHANGED <<loaded, last, ir>>
    PROVE  StoreOK' /\ PhaseInv' /\ OrderInv' /\ FiledInv'
<1>1. Extended /\ FoundOK'
  BY FetchStep DEF IInv
<1>2. /\ phase = "fetching" /\ loaded = {} /\ config = {} /\ current_resource = Global /\ ir = {}
      /\ loaded' = {} /\ config' = {} /\ current_resource' = Global /\ ir' = {}
      /\ UNCHANGED <<notices, sources, refused, last>>
  BY <1>1 DEF Extended, IInv, PhaseInv
<1>3. Len(elements) \in Nat /\ Len(elements') \in Nat /\ Elements \subseteq Elements'
  <2>1. Len(elements) \in Nat /\ Len(elements') \in Nat
    BY <1>1, LenProperties DEF FoundOK, IInv
  <2>2. ASSUME NEW i \in 1 .. Len(elements)
        PROVE  i \in 1 .. Len(elements') /\ elements[i] = elements'[i]
    BY <1>1, <2>1 DEF Extended
  <2> QED BY <2>1, <2>2 DEF Elements
<1>4. /\ errors \subseteq errors' /\ errors' \subseteq [rkey : Nat, about : Ids]
      /\ \A e \in errors' : e.rkey = Global
  <2>1. \A id \in Ids : Error(Global, id) = [rkey |-> 0, about |-> id]
    BY <1>2 DEF Error, Filed, Global
  <2>2. \A e \in errors : e.rkey = Global
    BY <1>2 DEF IInv, FiledInv
  <2>3. \/ errors' = errors
        \/ \E id \in Ids : errors' = errors \cup {[rkey |-> 0, about |-> id]}
    BY <1>1, <2>1 DEF Extended
  <2> QED BY <2>2, <2>3 DEF IInv, StoreOK, Global
<1>5. StoreOK'
  BY <1>2, <1>3, <1>4 DEF StoreOK, IInv, Global
<1>6. PhaseInv'
  <2>1. \/ phase' \in {"fetching", "raised"}
        \/ phase' = "loading" /\ todo' = {} /\ reading' = {}
    BY <1>2 DEF Fetch, Open, Close, ProcessObject, ProcessPragma, ProcessService, Finalize
  <2> QED BY <1>2, <2>1 DEF PhaseInv
<1>7. OrderInv'
  BY <1>2 DEF OrderInv
<1>8. FiledInv'
  BY <1>2, <1>4 DEF FiledInv
<1> QED BY <1>5, <1>6, <1>7, <1>8

(* An object that has been read is an element, or told, or excused.        *)
LEMMA FetchKept ==
    ASSUME IInv, Fetch, UNCHANGED <<loaded, last, ir>>
    PROVE  KeptInv'
<1>1. Extended /\ FoundOK' /\ ReadingOK' /\ ReadingOK
  BY FetchStep DEF IInv
<1>2. loaded' = {} /\ UNCHANGED <<k8s, given>>
  BY <1>1 DEF Extended, IInv, PhaseInv, Fetch, Open, Close, ProcessObject, ProcessPragma,
      ProcessService, Finalize
<1>3. \A id : Told(id) => Told(id)'
  BY <1>1, ToldGrows DEF Extended
<1>4. ASSUME NEW id \in Read, id \in Ids
      PROVE  \/ Excused(id)' \/ Told(id)' \/ \E i \in 1 .. Len(elements') : elements'[i].id = id
  <2>1. Excused(id) => Excused(id)'
    BY <1>2 DEF Excused, Object
  <2>2. Len(elements) \in Nat /\ Len(elements') \in Nat
    BY <1>1, LenProperties DEF FoundOK, IInv
  <2>3. \A i \in 1 .. Len(elements) : i \in 1 .. Len(elements') /\ elements[i] = elements'[i]
    BY <1>1, <2>2 DEF Extended
  <2>4. Excused(id) \/ Told(id) \/ \E i \in 1 .. Len(elements) : elements[i].id = id
    BY DEF IInv, KeptInv
  <2> QED BY <1>3, <2>1, <2>3, <2>4
<1>5. ASSUME NEW id \in Read', id \notin Read
      PROVE  \/ Excused(id)' \/ Told(id)' \/ \E i \in 1 .. Len(elements') : elements'[i].id = id
  <2>1. id \in Given /\ id \in Ids /\ id[1] \in Inputs /\ id[2] \in Nat \ {0}
    BY <1>2 DEF Read, Given, Ids
  <2>2. ~Finalize
    BY <1>2, <1>5 DEF Read, Given, Finalize
  <2>3. PICK f \in Inputs : Open(f) \/ ProcessObject(f) \/ ProcessPragma(f) \/ ProcessService(f)
                               \/ Close(f)
    BY <2>2 DEF Fetch
  <2>4. \A x : x \in Given /\ x[1] \notin todo /\ (x[1] \in reading => x[2] < at) => x \in Read
    BY DEF Read
  <2>5. id[1] \notin todo' /\ (id[1] \in reading' => id[2] < at') /\ id[2] <= Len(given[id[1]])
    BY <1>2, <1>5 DEF Read, Given
  <2>6. CASE Open(f)
    <3>1. reading = {} /\ todo' = todo \ {f}
      BY <2>6 DEF Open
    <3>2. id[1] = f
      BY <1>5, <2>1, <2>4, <2>5, <3>1
    <3>3. given[f] = <<Unparsable>>
      <4>1. given[f] # <<Unparsable>> => reading' = {f} /\ at' = 1
        BY <2>6 DEF Open
      <4> QED BY <2>1, <2>5, <3>2, <4>1
    <3>4. id = <<f, 1>>
      <4>1. Len(<<Unparsable>>) = 1
        OBVIOUS
      <4>2. id[2] = 1
        BY <2>1, <2>5, <3>2, <3>3, <4>1
      <4> QED BY <2>1, <3>2, <4>2 DEF Ids
    <3>5. CASE k8s
      <4>1. Object(id)' = Unparsable /\ k8s'
        BY <1>2, <3>3, <3>4, <3>5 DEF Object
      <4> QED BY <4>1 DEF Excused
    <3>6. CASE ~k8s
      <4>1. PostError(<<f, 1>>)
        BY <2>6, <3>3, <3>6 DEF Open
      <4>2. Told(id)'
        <5>1. Error(Global, <<f, 1>>) \in errors' /\ Error(Global, <<f, 1>>).about = id
          BY <3>4, <4>1 DEF PostError, Error
        <5> QED BY <5>1 DEF Told
      <4> QED BY <4>2
    <3> QED BY <3>5, <3>6
  <2>7. CASE Close(f)
    <3>1. reading = {f} /\ todo' = todo /\ at > Len(given[f])
      BY <2>7 DEF Close
    <3>2. id[1] \in reading => id[2] < at
      <4>1. Len(given[f]) \in Nat /\ at \in Nat
        BY <1>1, ObjectFacts DEF ReadingOK
      <4> QED BY <2>1, <2>5, <3>1, <4>1
    <3> QED BY <1>5, <2>1, <2>4, <2>5, <3>1, <3>2
  <2>8. ASSUME reading = {f}, at' = at + 1, UNCHANGED <<todo, reading>>
        PROVE  id = <<f, at>> /\ Object(id)' = given[f][at]
    <3>1. id[1] = f /\ ~(id[2] < at)
      BY <1>5, <2>1, <2>4, <2>5, <2>8
    <3>2. id[2] = at
      BY <2>1, <2>5, <2>8, <3>1 DEF IInv, ReadingOK
    <3> QED BY <1>2, <2>1, <3>1, <3>2 DEF Ids, Object
  <2>9. CASE ProcessPragma(f)
    <3>1. Object(id)'.kind = "Pragma"
      BY <2>8, <2>9 DEF ProcessPragma
    <3> QED BY <3>1 DEF Excused
  <2>10. CASE ProcessService(f)
    <3>1. Object(id)'.kind = "Service"
      BY <2>8, <2>10 DEF ProcessService
    <3> QED BY <3>1 DEF Excused
  <2>11. CASE ProcessObject(f)
    <3> DEFINE o == given[f][at]
               e == Element(<<f, at>>, StringOrder(Base(f), ocount), o)
    <3>1. id = <<f, at>> /\ Object(id)' = o
      BY <2>8, <2>11 DEF ProcessObject
    <3>2. CASE Broken(o)
      <4>1. PostError(<<f, at>>)
        BY <2>11, <3>2 DEF ProcessObject, process_object
      <4>2. Told(id)'
        <5>1. Error(Global, <<f, at>>) \in errors' /\ Error(Global, <<f, at>>).about = id
          BY <3>1, <4>1 DEF PostError, Error
        <5> QED BY <5>1 DEF Told
      <4> QED BY <4>2
    <3>3. CASE ~Broken(o) /\ ~o.ours
      <4>1. Object(id)'.kind # "empty" /\ ~Object(id)'.ours
        BY <3>1, <3>3 DEF Broken
      <4> QED BY <4>1 DEF Excused
    <3>4. CASE ~Broken(o) /\ o.ours
      <4>1. elements' = Append(elements, e)
        BY <2>11, <3>4 DEF ProcessObject, process_object
      <4>2. e.id = id
        BY <3>1 DEF Element
      <4>3. elements \in Seq(ElementType) /\ elements' \in Seq(ElementType)
        BY <1>1 DEF IInv, FoundOK
      <4>4. e \in ElementType
        <5>1. reading = {f} /\ at <= Len(given[f])
          BY <2>11 DEF ProcessObject
        <5> QED BY <3>4, <5>1, ElementFacts DEF IInv
      <4> HIDE DEF e
      <4>5. Len(elements') = Len(elements) + 1 /\ Len(elements) \in Nat
              /\ elements'[Len(elements) + 1] = e
        BY <4>1, <4>3, <4>4, AppendProperties, LenProperties
      <4>6. Len(elements) + 1 \in 1 .. Len(elements') /\ elements'[Len(elements) + 1].id = id
        BY <4>2, <4>5
      <4> QED BY <4>6
    <3> QED BY <3>2, <3>3, <3>4
  <2> QED BY <2>3, <2>6, <2>7, <2>9, <2>10, <2>11
<1>6. \A id \in Read : id \in Ids
  BY DEF Read, Given
<1> QED BY <1>2, <1>4, <1>5, <1>6 DEF KeptInv
-----------------------------------------------------------------------------
(* Elements are in a total order. *)
LEMMA SortedFacts ==
    ASSUME FoundOK
    PROVE  /\ Len(elements) \in Nat
           /\ \A i \in 1 .. Len(elements) : /\ elements[i] \in ElementType
                                            /\ elements[i].rkey \in Nat \ {0}
                                            /\ elements[i].id \in Ids
           /\ \A i, j \in 1 .. Len(elements) : ~(sorted(i, j) /\ sorted(j, i))
<1>1. elements \in Seq(ElementType)
  BY DEF FoundOK
<1>2. Len(elements) \in Nat
  BY <1>1, LenProperties
<1>3. \A i \in 1 .. Len(elements) : elements[i] \in ElementType
  BY <1>1, ElementOfSeq
<1>4. \A i \in 1 .. Len(elements) : elements[i].rkey \in Nat \ {0} /\ elements[i].id \in Ids
  BY <1>3 DEF ElementType
<1>5. \A i, j \in 1 .. Len(elements) : ~(sorted(i, j) /\ sorted(j, i))
  BY <1>2, <1>4 DEF sorted
<1> QED BY <1>2, <1>3, <1>4, <1>5

(* One element is loaded, the next in order. *)
LEMMA LoadStep ==
    ASSUME IInv, LoadNext
    PROVE  IInv'
<1>1. PICK k \in Left : /\ \A j \in Left \ {k} : sorted(k, j)
                        /\ process(elements[k])
                        /\ loaded' = loaded \cup {k}
                        /\ last' = k
  BY DEF LoadNext
<1> DEFINE r == elements[k]
<1>2. /\ phase = "loading" /\ k \in 1 .. Len(elements) /\ k \notin loaded
      /\ UNCHANGED <<fetchVars, phase, ir>> /\ ir = {} /\ elements' = elements
      /\ loaded \subseteq 1 .. Len(elements)
  BY DEF LoadNext, Left, fetchVars, IInv, PhaseInv, StoreOK
<1>3. /\ Len(elements) \in Nat
      /\ r \in ElementType /\ r.rkey \in Nat \ {0} /\ r.id \in Ids
      /\ \A i, j \in 1 .. Len(elements) : ~(sorted(i, j) /\ sorted(j, i))
  BY <1>2, SortedFacts DEF IInv
<1>4. Left' = Left \ {k} /\ Elements' = Elements /\ r \in Elements
      /\ \A i, j : sorted(i, j)' = sorted(i, j)
  BY <1>1, <1>2 DEF Left, Elements, sorted
<1>5. Error(r.rkey, r.id) = [rkey |-> r.rkey, about |-> r.id]
  BY <1>3 DEF Error, Filed, Global
<1>6. /\ errors \subseteq errors' /\ errors' \subseteq errors \cup {[rkey |-> r.rkey, about |-> r.id]}
  BY <1>1, <1>5 DEF process, safe_store
<1>7. \A id : Told(id) => Told(id)'
  BY <1>6, ToldGrows
<1> HIDE DEF r
<1>8. ReadingOK' /\ PlaceOK' /\ FoundOK'
  BY <1>2 DEF IInv, ReadingOK, PlaceOK, FoundOK, fetchVars
<1>9. StoreOK'
  <2>1. config' \subseteq config \cup {r} /\ sources' \subseteq sources \cup {r}
    BY <1>1 DEF r, process, safe_store, save_source
  <2>2. notices' \subseteq notices \cup {r.id} /\ refused' \subseteq refused \cup {r.id}
    BY <1>1 DEF r, process
  <2>3. current_resource' \in Nat
    BY <1>1, <1>3 DEF r, process, Global
  <2>4. errors' \subseteq [rkey : Nat, about : Ids]
    BY <1>3, <1>6 DEF IInv, StoreOK
  <2> QED BY <1>1, <1>2, <1>3, <1>4, <1>6, <2>1, <2>2, <2>3, <2>4 DEF IInv, StoreOK
<1>10. PhaseInv'
  BY <1>2 DEF IInv, PhaseInv, fetchVars
<1>11. \A i \in loaded : sorted(i, k) /\ ~sorted(k, i)
  BY <1>1, <1>2, <1>3 DEF IInv, OrderInv
<1>12. OrderInv'
  <2>1. \A i \in loaded' : \A j \in Left' : sorted(i, j)'
    BY <1>1, <1>4 DEF IInv, OrderInv
  <2>2. \A m : SameSlot(r, m) <=> SameSlot(m, r)
    BY DEF SameSlot
  <2>3. config = {elements[i] : i \in {m \in loaded : Winner(m)}}
    BY DEF IInv, OrderInv
  <2>4. CASE validate_object(r)
    <3>1. config' = {q \in config : ~SameSlot(q, r)} \cup {r}
      BY <1>1, <2>4 DEF r, process, safe_store
    <3>2. Winner(k)'
      BY <1>1, <1>2, <1>4, <1>11, <2>4 DEF Winner, r
    <3>3. \A m \in loaded : Winner(m)' <=> Winner(m) /\ ~SameSlot(r, elements[m])
      BY <1>1, <1>2, <1>4, <1>11, <2>4 DEF Winner, r
    <3>4. {m \in loaded' : Winner(m)'} =
              {m \in loaded : Winner(m) /\ ~SameSlot(r, elements[m])} \cup {k}
      BY <1>1, <3>2, <3>3
    <3>5. config' = {elements[i] : i \in {m \in loaded' : Winner(m)'}}
      BY <2>2, <2>3, <3>1, <3>4 DEF r
    <3> QED BY <1>2, <2>1, <3>5 DEF OrderInv
  <2>5. CASE ~validate_object(r)
    <3>1. config' = config
      BY <1>1, <2>5 DEF r, process
    <3>2. ~Winner(k)'
      BY <1>1, <1>2, <1>4, <2>5 DEF Winner, r
    <3>3. \A m \in loaded : Winner(m)' <=> Winner(m)
      BY <1>1, <1>2, <1>4, <2>5 DEF Winner, r
    <3>4. {m \in loaded' : Winner(m)'} = {m \in loaded : Winner(m)}
      BY <1>1, <3>2, <3>3
    <3> QED BY <1>2, <2>1, <2>3, <3>1, <3>4 DEF OrderInv
  <2> QED BY <2>4, <2>5
<1>13. FiledInv'
  <2>1. \/ current_resource' = Global
        \/ r.id \in refused' /\ current_resource' = r.rkey
    BY <1>1 DEF process, r
  <2>2. DistinctRkeys' <=> DistinctRkeys
    BY <1>2 DEF DistinctRkeys
  <2>3. DistinctRkeys => \A i \in loaded : elements[i] \in sources => elements[i] \in sources'
    <3>1. sources' = {s \in sources : s.rkey # r.rkey} \cup {r}
      BY <1>1 DEF process, save_source, r
    <3>2. DistinctRkeys => \A i \in loaded : elements[i].rkey # r.rkey
      BY <1>2 DEF DistinctRkeys, r
    <3> QED BY <3>1, <3>2
  <2>4. r \in sources'
    BY <1>1 DEF process, save_source, r
  <2>5. DistinctRkeys' => \A i \in loaded' : elements'[i] \in sources'
    BY <1>1, <1>2, <2>2, <2>3, <2>4 DEF IInv, FiledInv, r
  <2>6. ASSUME NEW e \in errors'
        PROVE  \/ e.rkey = Global
               \/ \E i \in loaded' : /\ elements[i].id = e.about /\ elements[i].rkey = e.rkey
                                     /\ (DistinctRkeys => elements[i] \in sources')
    <3>1. CASE e \in errors
      BY <1>1, <1>2, <2>3, <3>1 DEF IInv, FiledInv
    <3>2. CASE e = [rkey |-> r.rkey, about |-> r.id]
      <4>1. r.id = e.about /\ r.rkey = e.rkey
        BY <3>2
      <4> QED BY <1>1, <2>4, <4>1 DEF r
    <3> QED BY <1>6, <3>1, <3>2
  <2> QED BY <1>1, <1>2, <2>1, <2>2, <2>5, <2>6 DEF FiledInv, r
<1>14. KeptInv'
  <2> DEFINE Then(id) == \E e \in errors' : e.about = id
  <2>1. Read' = Read /\ \A id : Excused(id)' <=> Excused(id)
    BY <1>2 DEF Read, Given, Excused, Object, fetchVars
  <2>2. \A id : Told(id) => Then(id)
    BY <1>6 DEF Told
  <2>3. Error(r.rkey, r.id) \in errors' => Then(r.id)
    <3>1. Error(r.rkey, r.id).about = r.id
      BY <1>5
    <3> QED BY <3>1
  <2> HIDE DEF Then
  <2>4. Then(r.id) \/ r \in config'
    BY <1>1, <2>3 DEF r, process, safe_store
  <2>5. ASSUME NEW i \in loaded, elements[i] \in config, elements[i] \notin config'
        PROVE  SameSlot(elements[i], r) /\ Then(r.id)
    BY <1>1, <2>3, <2>5 DEF r, process, safe_store
  <2>6. ASSUME NEW i \in loaded
        PROVE  \/ elements[i] \in config'
               \/ Then(elements[i].id)
               \/ \E j \in loaded' : /\ SameSlot(elements[i], elements[j])
                                     /\ sorted(i, j)
                                     /\ Then(elements[j].id)
    <3>1. CASE elements[i] \in config
      BY <1>1, <1>11, <2>5, <3>1 DEF r
    <3>2. CASE Told(elements[i].id)
      BY <2>2, <3>2
    <3>3. CASE \E j \in loaded : /\ SameSlot(elements[i], elements[j])
                                 /\ sorted(i, j)
                                 /\ Told(elements[j].id)
      BY <1>1, <2>2, <3>3
    <3> QED BY <3>1, <3>2, <3>3 DEF IInv, KeptInv
  <2>7. \A id \in Read' : \/ Excused(id)' \/ Told(id)'
                          \/ \E i \in 1 .. Len(elements') : elements'[i].id = id
    BY <1>2, <1>7, <2>1 DEF IInv, KeptInv
  <2>8. ASSUME NEW i \in loaded'
        PROVE  \/ elements[i] \in config'
               \/ Then(elements[i].id)
               \/ \E j \in loaded' : /\ SameSlot(elements[i], elements[j])
                                     /\ sorted(i, j)'
                                     /\ Then(elements[j].id)
    BY <1>1, <1>4, <2>4, <2>6 DEF r
  <2> QED BY <1>2, <2>7, <2>8 DEF KeptInv, Told, Then
<1> QED BY <1>8, <1>9, <1>10, <1>12, <1>13, <1>14 DEF IInv

(* An error of the IR goes where current_resource says. *)
LEMMA ErrorStep ==
    ASSUME IInv, IRError
    PROVE  IInv'
<1>1. PICK r \in config : PostError(r.id) /\ ir' = ir \cup {Error(Global, r.id)}
  BY DEF IRError
<1>2. phase = "ir" /\ UNCHANGED <<fetchVars, phase, loaded, last>> /\ elements' = elements
  BY DEF IRError, fetchVars
<1>3. /\ UNCHANGED <<config, notices, sources, current_resource, refused>>
      /\ errors' = errors \cup {Error(Global, r.id)}
      /\ Error(Global, r.id) = [rkey |-> current_resource, about |-> r.id]
  BY <1>1 DEF PostError, Error, Filed
<1>4. r.id \in Ids
  BY SortedFacts DEF IInv, StoreOK, Elements
<1>5. Elements' = Elements /\ Left' = Left /\ (\A i, j : sorted(i, j)' = sorted(i, j))
      /\ (DistinctRkeys' <=> DistinctRkeys) /\ (\A i : Winner(i)' <=> Winner(i))
  BY <1>2 DEF Elements, Left, sorted, DistinctRkeys, Winner
<1>6. ReadingOK' /\ PlaceOK' /\ FoundOK'
  BY <1>2 DEF IInv, ReadingOK, PlaceOK, FoundOK, fetchVars
<1>7. StoreOK'
  <2>1. Error(Global, r.id) \in [rkey : Nat, about : Ids]
    BY <1>3, <1>4 DEF IInv, StoreOK
  <2> QED BY <1>1, <1>2, <1>3, <1>5, <2>1 DEF IInv, StoreOK
<1>8. PhaseInv'
  BY <1>2, <1>3, <1>5 DEF IInv, PhaseInv, fetchVars
<1>9. OrderInv'
  BY <1>2, <1>3, <1>5 DEF IInv, OrderInv
<1>10. FiledInv'
  <2>1. ASSUME NEW e \in errors'
        PROVE  \/ e.rkey = Global
               \/ \E i \in loaded : /\ elements[i].id = e.about /\ elements[i].rkey = e.rkey
                                    /\ (DistinctRkeys => elements[i] \in sources)
               \/ e \in ir' /\ elements[last].id \in refused /\ e.rkey = elements[last].rkey
    <3>1. CASE e \in errors
      BY <1>1, <3>1 DEF IInv, FiledInv
    <3>2. CASE e = Error(Global, r.id)
      <4>1. e.rkey = current_resource /\ e \in ir'
        BY <1>1, <1>3, <3>2
      <4> QED BY <4>1 DEF IInv, FiledInv
    <3> QED BY <1>3, <3>1, <3>2
  <2> QED BY <1>2, <1>3, <1>5, <2>1 DEF IInv, FiledInv
<1>11. KeptInv'
  <2>1. \A id : Told(id) => Told(id)'
    BY <1>3, ToldGrows
  <2>2. Read' = Read /\ \A id : Excused(id)' <=> Excused(id)
    BY <1>2 DEF Read, Given, Excused, Object, fetchVars
  <2> QED BY <1>2, <1>3, <1>5, <2>1, <2>2 DEF IInv, KeptInv
<1> QED BY <1>6, <1>7, <1>8, <1>9, <1>10, <1>11 DEF IInv

(* The end of the load changes nothing but the phase. *)
LEMMA BuildStep ==
    ASSUME IInv, BuildIR \/ UNCHANGED vars
    PROVE  IInv'
<1>1. /\ UNCHANGED <<fetchVars, storeVars, loaded, last, ir>>
      /\ phase' = phase \/ (phase = "loading" /\ phase' = "ir" /\ Left = {})
  BY DEF BuildIR, vars
<1>2. ReadingOK' /\ PlaceOK' /\ FoundOK' /\ StoreOK'
  BY <1>1 DEF IInv, ReadingOK, PlaceOK, FoundOK, StoreOK, Elements, fetchVars, storeVars
<1>3. PhaseInv'
  BY <1>1 DEF IInv, PhaseInv, Left, fetchVars, storeVars
<1>4. OrderInv'
  BY <1>1 DEF IInv, OrderInv, Left, sorted, Winner, fetchVars, storeVars
<1>5. FiledInv'
  BY <1>1 DEF IInv, FiledInv, DistinctRkeys, fetchVars, storeVars
<1>6. KeptInv'
  BY <1>1 DEF IInv, KeptInv, Read, Given, Excused, Object, Told, sorted, fetchVars, storeVars
<1> QED BY <1>2, <1>3, <1>4, <1>5, <1>6 DEF IInv

(* The invariant is inductive. *)
THEOREM Invariance == Spec => []IInv
<1>1. Init => IInv
  <2> SUFFICES ASSUME Init PROVE IInv
    OBVIOUS
  <2>1. ReadingOK
    BY DEF Init, FetchInit, ReadingOK
  <2>2. PlaceOK
    <3>1. Cardinality({}) = 0
      BY FS_EmptySet
    <3> QED BY <3>1 DEF Init, FetchInit, PlaceOK
  <2>3. FoundOK
    BY FS_EmptySet DEF Init, FetchInit, FoundOK
  <2>4. StoreOK
    BY DEF Init, ConfigInit, StoreOK, Global
  <2>5. PhaseInv /\ OrderInv /\ FiledInv
    BY DEF Init, FetchInit, ConfigInit, PhaseInv, OrderInv, FiledInv
  <2>6. KeptInv
    BY DEF Init, FetchInit, KeptInv, Read, Given, Ids
  <2> QED BY <2>1, <2>2, <2>3, <2>4, <2>5, <2>6 DEF IInv
<1>2. ASSUME IInv, [Next]_vars PROVE IInv'
  <2>1. CASE Fetch /\ UNCHANGED <<loaded, last, ir>>
    BY <1>2, <2>1, FetchStep, FetchStore, FetchKept DEF IInv
  <2> QED BY <1>2, <2>1, LoadStep, ErrorStep, BuildStep DEF Next
<1> QED BY <1>1, <1>2, PTL DEF Spec

(* The variables hold what they are declared to hold. *)
THEOREM TypeCorrect == Spec => []TypeOK
<1>1. IInv => TypeOK
  <2> SUFFICES ASSUME IInv PROVE TypeOK
    OBVIOUS
  <2>1. FetchTypeOK
    BY DEF IInv, ReadingOK, PlaceOK, FetchTypeOK
  <2>2. Elements \subseteq ElementType
    BY SortedFacts DEF IInv, Elements
  <2> QED BY <2>1, <2>2 DEF IInv, StoreOK, TypeOK
<1> QED BY <1>1, Invariance, PTL

(* Errors are filed where the diagnostics look for them. *)
THEOREM FiledRight == Spec => []ErrorsFiledRight
<1>1. IInv => ErrorsFiledRight
  BY DEF IInv, FiledInv, StoreOK, ErrorsFiledRight, Elements
<1> QED BY <1>1, Invariance, PTL

(* The Config depends on the names of the inputs and never on their order. *)
THEOREM AnyOrder == Spec => []OrderIndependent
<1>1. IInv => OrderIndependent
  <2> SUFFICES ASSUME IInv, phase = "ir", DistinctRkeys
               PROVE  config = {r \in Elements :
                          /\ validate_object(r)
                          /\ \A q \in Elements : validate_object(q) /\ SameSlot(q, r)
                                                     => q.rkey <= r.rkey}
    BY DEF OrderIndependent
  <2>1. loaded = 1 .. Len(elements)
    BY DEF IInv, StoreOK, PhaseInv, Left
  <2>2. \A i \in loaded : elements[i].rkey \in Nat
    BY <2>1, SortedFacts DEF IInv
  <2>3. \A i, j \in loaded : j = i \/ sorted(j, i) <=> elements[j].rkey <= elements[i].rkey
    BY <2>1, <2>2 DEF sorted, DistinctRkeys
  <2>4. \A i \in loaded :
            Winner(i) <=> /\ validate_object(elements[i])
                          /\ \A j \in loaded :
                                validate_object(elements[j]) /\ SameSlot(elements[j], elements[i])
                                    => elements[j].rkey <= elements[i].rkey
    BY <2>3 DEF Winner
  <2>5. Elements = {elements[i] : i \in loaded}
    BY <2>1 DEF Elements
  <2>6. config = {elements[i] : i \in {k \in loaded : Winner(k)}}
    BY DEF IInv, OrderInv
  <2> QED BY <2>4, <2>5, <2>6
<1> QED BY <1>1, Invariance, PTL

(* What the user wrote is in the Config, or there is an error to explain   *)
(* why it is not.                                                          *)
THEOREM KeptOrTold == Spec => []NothingLostSilently
<1>1. IInv => NothingLostSilently
  <2> SUFFICES ASSUME IInv, phase = "ir", NEW id \in Given
               PROVE  \/ Excused(id)
                      \/ \E r \in config : r.id = id
                      \/ Told(id)
                      \/ \E i, j \in loaded : /\ elements[i].id = id
                                              /\ SameSlot(elements[i], elements[j])
                                              /\ sorted(i, j)
                                              /\ Told(elements[j].id)
    BY DEF NothingLostSilently, Excused
  <2>1. loaded = 1 .. Len(elements) /\ todo = {} /\ reading = {}
    BY DEF IInv, StoreOK, PhaseInv, Left
  <2>2. id \in Read
    BY <2>1 DEF Read
  <2>3. CASE \E i \in 1 .. Len(elements) : elements[i].id = id
    BY <2>1, <2>3 DEF IInv, KeptInv
  <2> QED BY <2>2, <2>3 DEF IInv, KeptInv
<1> QED BY <1>1, Invariance, PTL
=============================================================================
