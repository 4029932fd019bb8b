---------------------------- MODULE MappingGroup ----------------------------
(***************************************************************************)
(* IRHTTPMappingGroup: the Mappings of one route are collected one by one  *)
(* (the constructor for the first, add_mapping for the others) and then    *)
(* finalize turns their weights into percentages.                          *)
(*                                                                         *)
(* A Mapping is reduced to what the group looks at: its precedence (all    *)
(* that can differ between the route weights of one group), its weight if  *)
(* it has one, its shadow and host_redirect attributes (host_redirect may  *)
(* also be present and false) and whether its core keys agree with those   *)
(* lifted from the first Mapping.  Mappings are named by their position in *)
(* `arrived'.                                                              *)
(***************************************************************************)
EXTENDS Integers, FiniteSets, Sequences, Functions

CONSTANTS Candidates,   \* the Mappings that may be offered to the group
          MaxGroup      \* bound on how many are

MemberType == [precedence : Int, weighted : BOOLEAN, weight : Int,
               shadow : BOOLEAN, host_redirect : {"absent", "false", "true"},
               matches : BOOLEAN]

ASSUME GroupAssumption ==
    /\ Candidates \subseteq MemberType
    /\ MaxGroup \in Nat

VARIABLES arrived,       \* the Mappings in the order they arrive
          mappings,      \* self.mappings
          shadows,       \* self.shadows
          host_redirect, \* self.host_redirect, 0 for None and for False
          rejected,      \* Mappings refused with an error
          group_weight,  \* precedence by which the group is ordered
          weight,        \* the weights finalize computes
          final_total,   \* their running total
          turn,          \* position of the loop that spreads the remainder
          stage          \* what the group is doing

groupVars == <<arrived, mappings, shadows, host_redirect, rejected, group_weight,
               weight, final_total, turn, stage>>

memberVars == <<arrived, mappings, shadows, host_redirect, rejected, group_weight>>

Positions == 1 .. MaxGroup

InSeq(s) == {s[i] : i \in 1 .. Len(s)}

Routed == InSeq(mappings)

GroupInit ==
    /\ arrived = <<>>
    /\ mappings = <<>>
    /\ shadows = <<>>
    /\ host_redirect = 0
    /\ rejected = {}
    /\ group_weight = 0
    /\ weight = [n \in Positions |-> 0]
    /\ final_total = 0
    /\ turn = 1
    /\ stage = "adding"
-----------------------------------------------------------------------------
(* The constructor lifts group_weight and the core keys from the first     *)
(* Mapping, which therefore never disagrees with them.                     *)
Lifted(m) == IF arrived = <<>> THEN m.precedence ELSE group_weight

Disagrees(m) == arrived # <<>> /\ ~m.matches

(* A mistake: a second shadow is dropped without an error. *)
PlaceSilent(m) ==
    CASE Disagrees(m)                                                 -> "reject"
      [] ~Disagrees(m) /\ m.shadow                                    ->
             IF shadows # <<>> THEN "drop" ELSE "shadow"
      [] ~Disagrees(m) /\ ~m.shadow /\ m.host_redirect = "true"       ->
             IF host_redirect # 0 THEN "reject" ELSE "redirect"
      [] ~Disagrees(m) /\ ~m.shadow /\ m.host_redirect # "true"       -> "route"

(* A Mapping that the group takes in without complaint goes to one place;  *)
(* shadow wins over host_redirect.                                         *)
Place(m) ==
    CASE Disagrees(m)                                                 -> "reject"
      [] ~Disagrees(m) /\ m.shadow                                    ->
             IF shadows # <<>> THEN "reject" ELSE "shadow"
      [] ~Disagrees(m) /\ ~m.shadow /\ m.host_redirect = "true"       ->
             IF host_redirect # 0 THEN "reject" ELSE "redirect"
      [] ~Disagrees(m) /\ ~m.shadow /\ m.host_redirect # "true"       -> "route"

(* add_mapping.  A routed Mapping that outranks the group is appended, and *)
(* then mapping.group_weight, which no Mapping has, raises KeyError.       *)
add_mapping(m) ==
    LET n == Len(arrived) + 1
    IN  /\ stage = "adding"
        /\ n <= MaxGroup
        /\ arrived' = Append(arrived, m)
        /\ group_weight' = Lifted(m)
        /\ rejected' = IF Place(m) = "reject" THEN rejected \cup {n} ELSE rejected
        /\ shadows' = IF Place(m) = "shadow" THEN Append(shadows, n) ELSE shadows
        /\ host_redirect' = IF Place(m) = "redirect" THEN n ELSE host_redirect
        /\ mappings' = IF Place(m) = "route" THEN Append(mappings, n) ELSE mappings
        /\ stage' = IF Place(m) = "route" /\ m.precedence > Lifted(m)
                        THEN "raised" ELSE stage
        /\ UNCHANGED <<weight, final_total, turn>>

(* finalize first flattens the routed Mappings' attributes into the group, *)
(* host_redirect among them: one that is present and false replaces the    *)
(* Mapping saved by add_mapping.                                           *)
Flattened ==
    IF \E n \in Routed : arrived[n].host_redirect = "false" THEN 0 ELSE host_redirect

Weighted == {n \in Routed : arrived[n].weighted}

Unspecified == Routed \ Weighted

total_weight == SumFunction([n \in Weighted |-> arrived[n].weight])

(* round(a / b) for b > 0: ties go to the even neighbour. *)
RoundHalfEven(a, b) ==
    LET q == a \div b
        r == a % b
    IN  IF 2 * r < b \/ (2 * r = b /\ q % 2 = 0) THEN q ELSE q + 1

(* round(weight * (100.0 / total_weight)): the product of two doubles may  *)
(* fall on either side of an exact tie (15 of 24 gives 62.50000000000001). *)
(* Weights may be negative, and so may their total.                        *)
Normalizes == Unspecified = {} /\ total_weight # 100

Sign == IF total_weight < 0 THEN -1 ELSE 1

Percent(n) == Sign * 100 * arrived[n].weight

Whole == Sign * total_weight

Tied == {n \in Routed : Normalizes /\ 2 * (Percent(n) % Whole) = Whole}

(* A mistake: the rest is divided by the number of all Mappings. *)
NormalizedByAll(n, up) ==
    CASE n \in Unspecified           ->
             RoundHalfEven(100 - total_weight, Cardinality(Routed))
      [] n \in Tied                  ->
             Percent(n) \div Whole + (IF n \in up THEN 1 ELSE 0)
      [] Normalizes /\ n \notin Tied -> RoundHalfEven(Percent(n), Whole)
      [] OTHER                       -> arrived[n].weight

(* A weight after normalisation, before the remainder is spread; `up' are  *)
(* the tied Mappings that are rounded up.                                  *)
Normalized(n, up) ==
    CASE n \in Unspecified           ->
             RoundHalfEven(100 - total_weight, Cardinality(Unspecified))
      [] n \in Tied                  ->
             Percent(n) \div Whole + (IF n \in up THEN 1 ELSE 0)
      [] Normalizes /\ n \notin Tied -> RoundHalfEven(Percent(n), Whole)
      [] OTHER                       -> arrived[n].weight

(* 100.0 / total_weight is evaluated for each routed Mapping. *)
DividesByZero == Unspecified = {} /\ Routed # {} /\ total_weight = 0

(* finalize, up to the loop that spreads the remainder. *)
Finalize ==
    /\ stage = "adding"
    /\ arrived # <<>>
    /\ host_redirect' = Flattened
    /\ \/ /\ Flattened # 0
          /\ stage' = "done"
          /\ UNCHANGED <<weight, final_total>>
       \/ /\ Flattened = 0
          /\ DividesByZero
          /\ stage' = "raised"
          /\ UNCHANGED <<weight, final_total>>
       \/ /\ Flattened = 0
          /\ ~DividesByZero
          /\ \E up \in SUBSET Tied :
                 weight' = [n \in Positions |-> IF n \in Routed THEN Normalized(n, up) ELSE 0]
          /\ final_total' = SumFunctionOnSet(weight', Routed)
          /\ stage' = "spread"
    /\ UNCHANGED <<arrived, mappings, shadows, rejected, group_weight, turn>>

(* A mistake: the remainder is only ever added. *)
SpreadOnlyUp ==
    LET step == IF final_total < 100 THEN 1 ELSE 0
    IN  /\ stage = "spread"
        /\ mappings # <<>>
        /\ final_total # 100
        /\ weight' = [weight EXCEPT ![mappings[turn]] = @ + step]
        /\ final_total' = final_total + step
        /\ turn' = IF turn = Len(mappings) THEN 1 ELSE turn + 1
        /\ UNCHANGED <<memberVars, stage>>

(* One pass of the body of `for mapping in self.mappings': one more or one *)
(* less for the next Mapping in turn.                                      *)
SpreadOne ==
    LET step == IF final_total < 100 THEN 1 ELSE -1
    IN  /\ stage = "spread"
        /\ mappings # <<>>
        /\ final_total # 100
        /\ weight' = [weight EXCEPT ![mappings[turn]] = @ + step]
        /\ final_total' = final_total + step
        /\ turn' = IF turn = Len(mappings) THEN 1 ELSE turn + 1
        /\ UNCHANGED <<memberVars, stage>>

(* A mistake: more than 100 is taken for enough. *)
SpreadDoneAbove ==
    /\ stage = "spread"
    /\ mappings = <<>> \/ final_total >= 100
    /\ stage' = "done"
    /\ UNCHANGED <<memberVars, weight, final_total, turn>>

SpreadDone ==
    /\ stage = "spread"
    /\ mappings = <<>> \/ final_total = 100
    /\ stage' = "done"
    /\ UNCHANGED <<memberVars, weight, final_total, turn>>

GroupNext ==
    \/ \E m \in Candidates : add_mapping(m)
    \/ Finalize \/ SpreadOne \/ SpreadDone

GroupSpec == GroupInit /\ [][GroupNext]_groupVars

(* finalize is one uninterrupted call: once it has begun it goes on. *)
FairGroupSpec == GroupSpec /\ WF_groupVars(SpreadOne \/ SpreadDone)
-----------------------------------------------------------------------------
Balanced == stage = "done" /\ mappings # <<>> /\ host_redirect = 0

(* docs/reference/canary.md: "Ambassador will balance weights to make sure *)
(* that, for every resource, the mappings for that resource will have      *)
(* weights adding to 100%".  The total the spreading loop keeps really is  *)
(* the sum of the weights, whatever rounding did before it.                *)
WeightsSumTo100 ==
    Balanced => SumFunctionOnSet(weight, Routed) = 100

(* What a Mapping's weight would be if it need not be an integer, times    *)
(* Shares.                                                                 *)
Shares == IF Unspecified # {} THEN Cardinality(Unspecified) ELSE Whole

ExactShare(n) ==
    CASE Unspecified = {}                    -> Percent(n)
      [] Unspecified # {} /\ n \in Weighted  -> Shares * arrived[n].weight
      [] OTHER                               -> 100 - total_weight

(* Rounding and spreading together move no Mapping by more than one and a  *)
(* half percent from its exact share: the loop comes to each Mapping at    *)
(* most once, so the remainder is never dumped on a single one.            *)
NearExactShare ==
    Balanced => \A n \in Routed :
                    /\ 2 * (weight[n] * Shares - ExactShare(n)) <= 3 * Shares
                    /\ 2 * (ExactShare(n) - weight[n] * Shares) <= 3 * Shares

(* Every Mapping offered ends in one place, and the only ones that take no *)
(* part in the group are those an error was posted for.  (Flattened may    *)
(* still take away the redirect afterwards.)                               *)
EveryMappingAccounted ==
    stage = "adding" =>
        LET redirect == IF host_redirect = 0 THEN {} ELSE {host_redirect}
        IN  /\ Routed \cup InSeq(shadows) \cup redirect \cup rejected = 1 .. Len(arrived)
            /\ Len(mappings) + Len(shadows) + Cardinality(redirect)
                   + Cardinality(rejected) = Len(arrived)

(* The spreading loop terminates. *)
SpreadTerminates == stage = "spread" ~> stage = "done"

(* docs/reference/mappings.md: "there is no way that Ambassador can ever   *)
(* sort a Mapping with a lower precedence ahead of one at a higher         *)
(* precedence": a group is ordered by the highest of its Mappings.         *)
PrecedenceRespected ==
    \A n \in Routed : arrived[n].precedence <= group_weight
=============================================================================
