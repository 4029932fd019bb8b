----------------------------- MODULE ConfigLoad -----------------------------
(***************************************************************************)
(* The first half of a load: the ResourceFetcher reads the inputs, and     *)
(* aconf.load_all(fetcher.sorted()) puts what it found into the Config.    *)
(* Then the IR is built from the Config and posts errors of its own to it. *)
(***************************************************************************)
EXTENDS ResourceFetcher

CONSTANT MaxIRErrors    \* bound on the errors of the IR that name no resource

VARIABLES loaded,  \* positions in elements that load_all has been through
          last,    \* the one it has just been through, 0 for none
          ir       \* history: errors that the IR posted without a resource

vars == <<fetchVars, phase, storeVars, loaded, last, ir>>

Init == FetchInit /\ ConfigInit /\ loaded = {} /\ last = 0 /\ ir = {}

(* A mistake: the elements are loaded as they came. *)
sorted_not(i, j) == i < j

(* sorted(elements, key=rkey), which is stable: i comes before j. *)
sorted(i, j) ==
    \/ elements[i].rkey < elements[j].rkey
    \/ elements[i].rkey = elements[j].rkey /\ i < j

Left == (1 .. Len(elements)) \ loaded

LoadNext ==
    /\ phase = "loading"
    /\ \E i \in Left :
           /\ \A j \in Left \ {i} : sorted(i, j)
           /\ process(elements[i])
           /\ loaded' = loaded \cup {i}
           /\ last' = i
    /\ UNCHANGED <<fetchVars, phase, ir>>

BuildIR ==
    /\ phase = "loading" /\ Left = {}
    /\ phase' = "ir"
    /\ UNCHANGED <<fetchVars, storeVars, loaded, last, ir>>

(* save_tls_context and resolve_targets post errors about a resource that  *)
(* they do not name (resolve_targets passes an rkey, but post_error_string *)
(* drops it).                                                              *)
IRError ==
    /\ phase = "ir"
    /\ Cardinality(ir) < MaxIRErrors
    /\ \E r \in config :
           /\ PostError(r.id)
           /\ ir' = ir \cup {Error(Global, r.id)}
    /\ UNCHANGED <<fetchVars, phase, loaded, last>>

Next == (Fetch /\ UNCHANGED <<loaded, last, ir>>) \/ LoadNext \/ BuildIR \/ IRError

Spec == Init /\ [][Next]_vars
-----------------------------------------------------------------------------
Elements == {elements[i] : i \in 1 .. Len(elements)}

Ids == Inputs \X (1 .. MaxObjects)

ElementType == [id : Ids, rkey : Nat \ {0}, kind : Kinds, name : Nat, api : Versions,
                valid : BOOLEAN]

FetchTypeOK ==
    /\ todo \subseteq Inputs /\ reading \subseteq Inputs
    /\ at \in Nat /\ ocount \in Nat /\ filename \in Nat
    /\ Len(saved) = Cardinality(reading)
    /\ phase \in {"fetching", "loading", "ir", "raised"}

TypeOK ==
    /\ FetchTypeOK
    /\ Elements \subseteq ElementType
    /\ config \subseteq Elements /\ sources \subseteq Elements
    /\ errors \subseteq [rkey : Nat, about : Ids]
    /\ notices \subseteq Ids /\ refused \subseteq Ids
    /\ current_resource \in Nat
    /\ loaded \subseteq 1 .. Len(elements)
    /\ ir \subseteq errors

Given == {id \in Ids : id[2] <= Len(given[id[1]])}

Object(id) == given[id[1]][id[2]]

Told(id) == \E e \in errors : e.about = id

(* "Object error. Not good but we'll allow the system to start"            *)
(* (config.py:256): whatever the user wrote for this Ambassador is in the  *)
(* Config when the load is over, or there is an error about it or about    *)
(* the resource that took its place.  (The exceptions: an annotation that  *)
(* is no YAML, and a Service that replaced another one, are only logged.)  *)
NothingLostSilently ==
    phase = "ir" =>
        \A id \in Given :
            \/ Object(id).kind \in {"Pragma", "Service"}
            \/ Object(id) = Unparsable /\ k8s
            \/ Object(id).kind # "empty" /\ ~Object(id).ours
            \/ \E r \in config : r.id = id
            \/ Told(id)
            \/ \E i, j \in loaded : /\ elements[i].id = id
                                    /\ SameSlot(elements[i], elements[j])
                                    /\ sorted(i, j)
                                    /\ Told(elements[j].id)

DistinctRkeys == \A i, j \in 1 .. Len(elements) : i # j => elements[i].rkey # elements[j].rkey

(* What the Config ends with depends on the names of the inputs and never  *)
(* on the order in which os.listdir or watt lists them: of the acceptable  *)
(* resources for one slot it is the one with the greatest rkey.  It takes  *)
(* distinct rkeys: two files of one base name in different directories, or *)
(* two custom resources of one name, share theirs, and then the order of   *)
(* listing decides.                                                        *)
OrderIndependent ==
    phase = "ir" /\ DistinctRkeys =>
        config = {r \in Elements :
                     /\ validate_object(r)
                     /\ \A q \in Elements : validate_object(q) /\ SameSlot(q, r) => q.rkey <= r.rkey}

(* An error is filed where the diagnostics look for it, under the rkey of  *)
(* the resource it is about or under -global-, with that resource as its   *)
(* source.  The one exception is an error of the IR that names no resource *)
(* after the last resource loaded was refused: it is filed under that one. *)
ErrorsFiledRight ==
    \A e \in errors :
        \/ e.rkey = Global
        \/ \E r \in Elements : r.id = e.about /\ r.rkey = e.rkey
                                   /\ (DistinctRkeys => r \in sources)
        \/ /\ e \in ir
           /\ elements[last].id \in refused
           /\ e.rkey = elements[last].rkey
=============================================================================
