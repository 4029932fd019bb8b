--------------------------- MODULE ConfigService ---------------------------
(***************************************************************************)
(* What diagd promises to whoever posts configuration updates, without its *)
(* queue, its threads and the stages of a load: updates are numbered in    *)
(* the order they are submitted, one of them at a time becomes the live    *)
(* configuration, never one older than the live one, and each gets at most *)
(* one answer: 200 while it is the live one, or 500 without ever having    *)
(* been it.  An update may also never be answered.                         *)
(***************************************************************************)
EXTENDS Naturals

CONSTANT MaxUpdates   \* bound on the number of updates

VARIABLES live,      \* the live configuration's update, 0 before the first
          submitted, \* how many updates have been submitted
          answer     \* answer[u]: 0, 200 or 500

serviceVars == <<live, submitted, answer>>

Pending(u) == u \in 1 .. submitted /\ answer[u] = 0

ServiceInit ==
    /\ live = 0
    /\ submitted = 0
    /\ answer = [u \in 1 .. MaxUpdates |-> 0]

Submit ==
    /\ submitted < MaxUpdates
    /\ submitted' = submitted + 1
    /\ UNCHANGED <<live, answer>>

(* The configuration of a pending update replaces an older one. *)
Apply(u) ==
    /\ Pending(u)
    /\ u > live
    /\ live' = u
    /\ UNCHANGED <<submitted, answer>>

Confirm(u) ==
    /\ Pending(u)
    /\ u = live
    /\ answer' = [answer EXCEPT ![u] = 200]
    /\ UNCHANGED <<live, submitted>>

Reject(u) ==
    /\ Pending(u)
    /\ u > live
    /\ answer' = [answer EXCEPT ![u] = 500]
    /\ UNCHANGED <<live, submitted>>

ServiceNext ==
    \/ Submit
    \/ \E u \in 1 .. MaxUpdates : Apply(u) \/ Confirm(u) \/ Reject(u)

ServiceSpec == ServiceInit /\ [][ServiceNext]_serviceVars
=============================================================================
