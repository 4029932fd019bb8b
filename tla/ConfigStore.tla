---------------------------- MODULE ConfigStore ----------------------------
(***************************************************************************)
(* ambassador.config.Config: the store that load_all fills with resources, *)
(* one after the other, and the errors, notices and sources that the       *)
(* diagnostics show beside it.                                             *)
(*                                                                         *)
(* A resource is known by `id', the object it was made from, and carries   *)
(* what the store looks at: its rkey, its kind and name, its apiVersion    *)
(* and what the schema of its kind would say of it.  An rkey is a number:  *)
(* its position among all rkeys in string order.                           *)
(***************************************************************************)
EXTENDS Integers, Sequences, FiniteSets

Global == 0     \* the rkey "-global-"; also stands for a missing resource

VARIABLES config,           \* the resources stored, over all storage names
          errors,           \* errors posted: the rkey they are filed under,
                            \* and the object they are about
          notices,          \* objects whose apiVersion drew a notice
          sources,          \* the resource the diagnostics show for an rkey
          current_resource, \* rkey of the resource being processed, or Global
          refused           \* history: objects that process returned an
                            \* error for

storeVars == <<config, errors, notices, sources, current_resource, refused>>

(* A Module is stored by a handler, Secrets and Services by handlers that  *)
(* use the rkey; the kinds of resolver share one storage name; any kind    *)
(* that is not known is saved under its own name.                          *)
StorageByKind(kind) ==
    CASE kind \in {"KubernetesEndpointResolver", "ConsulResolver"} -> "resolvers"
      [] OTHER                                                     -> kind

NoSchema == {"Secret", "Service", "KubernetesEndpointResolver", "ConsulResolver"}

Key(r) == IF r.kind \in {"Secret", "Service"} THEN r.rkey ELSE r.name

SameSlot(r, q) == StorageByKind(r.kind) = StorageByKind(q.kind) /\ Key(r) = Key(q)

ConfigInit ==
    /\ config = {}
    /\ errors = {}
    /\ notices = {}
    /\ sources = {}
    /\ current_resource = Global
    /\ refused = {}
-----------------------------------------------------------------------------
(* post_error without a resource goes to current_resource, and to -global- *)
(* when there is none.                                                     *)
Filed(rkey) == IF rkey # Global THEN rkey ELSE current_resource

Error(rkey, id) == [rkey |-> Filed(rkey), about |-> id]

save_source(r) == {s \in sources : s.rkey # r.rkey} \cup {r}

(* The versions for which the repository has schemas.  A version that is   *)
(* not supported draws a notice, has no schema and is not validated.       *)
HasSchema(r) == r.kind \notin NoSchema /\ r.api \in {"v0", "v1"}

validate_object(r) == r.api # "foreign" /\ (HasSchema(r) => r.valid)

(* A mistake: a duplicate is stored without a word. *)
store_silently(r) ==
    /\ config' = {q \in config : ~SameSlot(q, r)} \cup {r}
    /\ UNCHANGED errors

(* safe_store, handle_secret and handle_service: a duplicate is an error,  *)
(* and the new resource replaces the old one all the same.                 *)
safe_store(r) ==
    /\ config' = {q \in config : ~SameSlot(q, r)} \cup {r}
    /\ errors' = IF \E q \in config : SameSlot(q, r)
                 THEN errors \cup {Error(r.rkey, r.id)}
                 ELSE errors

(* A mistake: current_resource is never cleared. *)
process_leaving(r) ==
    /\ sources' = save_source(r)
    /\ notices' = IF r.api \in {"v0", "unsupported"} THEN notices \cup {r.id} ELSE notices
    /\ current_resource' = r.rkey
    /\ IF validate_object(r)
       THEN /\ safe_store(r)
            /\ UNCHANGED refused
       ELSE /\ errors' = errors \cup {Error(r.rkey, r.id)}
            /\ refused' = refused \cup {r.id}
            /\ UNCHANGED config

(* One round of load_all: process, with what it calls, and the error that  *)
(* load_all posts when it fails.  After a failure current_resource stays.  *)
process(r) ==
    /\ sources' = save_source(r)
    /\ notices' = IF r.api \in {"v0", "unsupported"} THEN notices \cup {r.id} ELSE notices
    /\ IF validate_object(r)
       THEN /\ safe_store(r)
            /\ current_resource' = Global
            /\ UNCHANGED refused
       ELSE /\ errors' = errors \cup {Error(r.rkey, r.id)}
            /\ current_resource' = r.rkey
            /\ refused' = refused \cup {r.id}
            /\ UNCHANGED config

(* post_error by somebody who names no resource. *)
PostError(id) ==
    /\ errors' = errors \cup {Error(Global, id)}
    /\ UNCHANGED <<config, notices, sources, current_resource, refused>>
=============================================================================
