-------------------------- MODULE ResourceFetcher --------------------------
(***************************************************************************)
(* ResourceFetcher reads its inputs in whatever order the file system or   *)
(* watt lists them and turns the objects in them into `elements', each     *)
(* with an rkey made of the name of its input and its number in it.        *)
(*                                                                         *)
(* The inputs of a load are files of Ambassador YAML, found in a directory *)
(* tree (only their base names count), or Kubernetes objects, each with    *)
(* its `name.namespace' as the base of the rkeys of what is embedded in    *)
(* it.  Bases are numbered in string order.                                *)
(***************************************************************************)
EXTENDS ConfigStore, SequencesExt

CONSTANTS Inputs,      \* the inputs
          BaseOf,      \* BaseOf[f]: base name, as a positive number
          Contents     \* what an input may hold: sequences of objects, or
                       \* <<Unparsable>>

Kinds == {"empty", "none", "Pragma", "Service", "Mapping", "Module", "Secret",
          "KubernetesEndpointResolver", "ConsulResolver"}

Versions == {"v0", "v1", "v2", "unsupported", "knative", "foreign"}

ObjectType == [kind : Kinds,
               name : Nat, \* 0 if it has none; the new source of a Pragma
               ours : BOOLEAN, \* good_ambassador_id
               api : Versions,
               valid : BOOLEAN]

(* An input that cannot be read, or is not YAML. *)
Unparsable == [kind |-> "unparsable", name |-> 0, ours |-> TRUE, api |-> "v1", valid |-> FALSE]

MaxObjects == 99    \* rkeys number the objects of an input with two digits

ASSUME FetcherAssumption ==
    /\ BaseOf \in [Inputs -> Nat \ {0}]
    /\ \A c \in Contents : /\ c \in Seq(ObjectType \cup {Unparsable})
                           /\ Len(c) <= MaxObjects

VARIABLES k8s,      \* are the inputs Kubernetes objects?
          given,    \* what each input holds
          todo,     \* inputs not read yet
          reading,  \* the inputs being read: one or none
          at,       \* position in it
          filename, \* self.filename, as a base; 0 for None
          ocount,   \* self.ocount
          saved,    \* self.saved, the stack of locations
          elements, \* self.elements
          services, \* self.services: the object under each name
          phase     \* "fetching", "loading", "ir" or "raised"

fetchVars == <<k8s, given, todo, reading, at, filename, ocount, saved, elements, services>>

FetchInit ==
    /\ k8s \in BOOLEAN
    /\ given \in [Inputs -> Contents]
    /\ todo = Inputs
    /\ reading = {}
    /\ at = 1
    /\ filename = 0
    /\ ocount = 1
    /\ saved = <<>>
    /\ elements = <<>>
    /\ services = {}
    /\ phase = "fetching"
-----------------------------------------------------------------------------
(* "base.n" in string order: .1, .10, .11, ..., .19, .2, .20, ... *)
StringOrder(base, n) == base * 1000 + (IF n < 10 THEN 100 * n ELSE 10 * n + 1)

(* load_from_filesystem and parse_yaml, parse_watt, handle_k8s and         *)
(* handle_k8s_crd up to parse_object, which pushes the location.  A file   *)
(* that cannot be read or parsed is an error; an annotation that cannot be *)
(* parsed is passed over.                                                  *)
Open(f) ==
    /\ phase = "fetching" /\ reading = {} /\ f \in todo
    /\ todo' = todo \ {f}
    /\ IF given[f] = <<Unparsable>>
       THEN /\ IF k8s THEN UNCHANGED storeVars ELSE PostError(<<f, 1>>)
            /\ UNCHANGED <<reading, at, filename, ocount, saved>>
       ELSE /\ reading' = {f}
            /\ at' = 1
            /\ saved' = Append(saved, <<filename, ocount>>)
            /\ filename' = IF k8s THEN 0 ELSE BaseOf[f]
            /\ ocount' = 1
            /\ UNCHANGED storeVars
    /\ UNCHANGED <<k8s, given, elements, services, phase>>

(* A mistake: the location is not restored.                                *)
CloseKeeping(f) ==
    /\ reading = {f} /\ phase = "fetching"
    /\ at > Len(given[f])
    /\ reading' = {} /\ at' = 1
    /\ UNCHANGED <<k8s, given, todo, filename, ocount, saved, elements, services, phase,
                   storeVars>>

(* ...and pops it again. *)
Close(f) ==
    /\ reading = {f} /\ phase = "fetching"
    /\ at > Len(given[f])
    /\ reading' = {} /\ at' = 1
    /\ filename' = saved[Len(saved)][1]
    /\ ocount' = saved[Len(saved)][2]
    /\ saved' = SubSeq(saved, 1, Len(saved) - 1)
    /\ UNCHANGED <<k8s, given, todo, elements, services, phase, storeVars>>

Element(id, rkey, o) ==
    [id |-> id, rkey |-> rkey, kind |-> o.kind, name |-> o.name, api |-> o.api, valid |-> o.valid]

Base(f) == IF k8s THEN BaseOf[f] ELSE filename

(* What process_object makes of an object that is neither a Pragma nor a   *)
(* Service: an error for one that is no dictionary, has no kind or (from   *)
(* the constructor of ACResource) no name; nothing for one with another    *)
(* ambassador_id; an element otherwise.                                    *)
Broken(o) == o.kind = "empty" \/ (o.ours /\ (o.kind = "none" \/ o.name = 0))

process_object(f, o) ==
    LET id == <<f, at>>
    IN  IF Broken(o)
        THEN PostError(id) /\ UNCHANGED elements
        ELSE /\ elements' = IF o.ours
                            THEN Append(elements, Element(id, StringOrder(Base(f), ocount), o))
                            ELSE elements
             /\ UNCHANGED storeVars

ProcessObject(f) ==
    /\ reading = {f} /\ phase = "fetching"
    /\ at <= Len(given[f])
    /\ given[f][at].kind \notin {"Pragma", "Service"}
    /\ process_object(f, given[f][at])
    /\ at' = at + 1
    /\ ocount' = ocount + 1
    /\ UNCHANGED <<k8s, given, todo, reading, filename, saved, services, phase>>

(* A Pragma renames the rest of its input, and is not counted.             *)
ProcessPragma(f) ==
    /\ reading = {f} /\ phase = "fetching"
    /\ at <= Len(given[f])
    /\ given[f][at].kind = "Pragma"
    /\ filename' = IF given[f][at].ours /\ given[f][at].name # 0 THEN given[f][at].name ELSE filename
    /\ ocount' = IF given[f][at].ours THEN ocount ELSE ocount + 1
    /\ at' = at + 1
    /\ UNCHANGED <<k8s, given, todo, reading, saved, elements, services, phase, storeVars>>

(* A Service goes to self.services under its name, in place of another of  *)
(* that name; without a name the lookup raises, and the load is over.      *)
ProcessService(f) ==
    LET o == given[f][at]
        New == Element(<<f, at>>, 0, o)
    IN  /\ reading = {f} /\ phase = "fetching"
        /\ at <= Len(given[f])
        /\ o.kind = "Service"
        /\ phase' = IF o.ours /\ o.name = 0 THEN "raised" ELSE phase
        /\ services' = IF o.ours /\ o.name # 0
                       THEN {s \in services : s.name # o.name} \cup {New}
                       ELSE services
        /\ at' = at + 1
        /\ ocount' = ocount + 1
        /\ UNCHANGED <<k8s, given, todo, reading, filename, saved, elements, storeVars>>

(* finalize: the services become elements under rkeys of their own, the    *)
(* names themselves.                                                       *)
ServiceRkey(name) == 1000 * (MaxObjects + name)

Finalize ==
    /\ phase = "fetching" /\ todo = {} /\ reading = {}
    /\ elements' = elements \o SetToSeq({[s EXCEPT !.rkey = ServiceRkey(s.name)] : s \in services})
    /\ phase' = "loading"
    /\ UNCHANGED <<k8s, given, todo, reading, at, filename, ocount, saved, services, storeVars>>

Fetch ==
    \/ Finalize
    \/ \E f \in Inputs : Open(f) \/ ProcessObject(f) \/ ProcessPragma(f) \/ ProcessService(f)
                            \/ Close(f)
=============================================================================
