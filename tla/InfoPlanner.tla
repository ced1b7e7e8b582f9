----------------------------- MODULE InfoPlanner -----------------------------
(* The greedy planner of audit probes (src/src/info.rs).  It picks probes   *)
(* one at a time: each must fit both budgets and depend on no probe already *)
(* chosen for its claim, and the pick is the best by the strategy among     *)
(* those no other candidate dominates.                                      *)
(*                                                                          *)
(* A probability is a number of Unit parts, and a joint mass of k probes is *)
(* brought to the power of Unit that a plan's largest product has, so that  *)
(* masses compare and add exactly: the rounding the code tolerates does not *)
(* arise.  Binary entropy is not a rational; a concave function of the two  *)
(* masses that is zero when one of them is stands for it (EntropyMass).     *)
EXTENDS Integers, Sequences, FiniteSets, SequencesExt

CONSTANTS
  Unit,             \* parts of a probability
  EnumerationLimit  \* EXACT_ENUMERATION_LIMIT, 20 in the code

ASSUME PlannerAssumption == Unit \in Nat \ {0} /\ EnumerationLimit \in Nat \ {0}

Smaller(a, b) == IF a < b THEN a ELSE b

(* Ids are numbers, 0 for an empty one.                                     *)
Strategies == {"max_information", "information_per_usd", "information_per_second",
               "max_risk_reduction"}

ClaimSpec == [id : Nat, prior : Int, fp : Int, fn : Int, importance : Int]

ProbeSpec ==
  [id : Nat, claim : Nat, sensitivity : Int, specificity : Int, usd : Int,
   seconds : Int, group : Nat]

PlanSpec ==
  [claims : Seq(ClaimSpec), probes : Seq(ProbeSpec), strategy : Strategies,
   independent : BOOLEAN, budget : [usd : Int, seconds : Int, probes : Nat]]

(* A claim or a probe is refused for a probability outside [0, Unit] or a   *)
(* negative amount.                                                         *)
ValidClaim(c) ==
  /\ c.id # 0
  /\ c.prior \in 0..Unit
  /\ c.fp >= 0 /\ c.fn >= 0 /\ c.importance >= 0

ValidProbe(p) ==
  /\ p.id # 0 /\ p.claim # 0 /\ p.group # 0
  /\ p.sensitivity \in 0..Unit /\ p.specificity \in 0..Unit
  /\ p.usd >= 0 /\ p.seconds >= 0

Distinct(seq) == \A i, j \in DOMAIN seq : seq[i].id = seq[j].id => i = j

ValidPlanSpec(spec) ==
  /\ spec.budget.usd >= 0 /\ spec.budget.seconds >= 0 /\ spec.budget.probes > 0
  /\ spec.claims # <<>> /\ spec.probes # <<>>
  /\ \A c \in Range(spec.claims) : ValidClaim(c)
  /\ Distinct(spec.claims)
  /\ \A p \in Range(spec.probes) :
       ValidProbe(p) /\ \E c \in Range(spec.claims) : c.id = p.claim
  /\ Distinct(spec.probes)

ClaimOf(spec, p) == CHOOSE c \in Range(spec.claims) : c.id = spec.probes[p].claim

-----------------------------------------------------------------------------
(* What probes are worth.                                                   *)

EntropyMass(t, f) == Smaller(3 * t, f) + Smaller(2 * t, 2 * f) + Smaller(t, 3 * f)

(* The loss of the better action; claiming wins only when strictly better.  *)
RiskMass(claim, t, f) == Smaller(f * claim.fp, t * claim.fn)

Acts(claim, t, f) == f * claim.fp < t * claim.fn

ProductOf(f) == FoldFunction(LAMBDA a, b : a * b, 1, f)

Power(n) == ProductOf([i \in 1..n |-> Unit])

(* The mass of an outcome, the set of the probes that answer yes, with the  *)
(* claim true, and with the claim false.                                    *)
TrueMass(claim, probes, outcome) ==
  claim.prior * ProductOf([i \in DOMAIN probes |->
    IF i \in outcome THEN probes[i].sensitivity ELSE Unit - probes[i].sensitivity])

FalseMass(claim, probes, outcome) ==
  (Unit - claim.prior) * ProductOf([i \in DOMAIN probes |->
    IF i \in outcome THEN Unit - probes[i].specificity ELSE probes[i].specificity])

(* Information and risk reduction of several probes together, over all      *)
(* their outcomes, in the units of "size" probes.                           *)
JointMetrics(claim, probes, size) ==
  LET scale == Power(size - Cardinality(DOMAIN probes))
      t == claim.prior * Power(size)
      f == (Unit - claim.prior) * Power(size)
      Entropy(o) == scale * EntropyMass(TrueMass(claim, probes, o),
                                        FalseMass(claim, probes, o))
      Risk(o) == scale * RiskMass(claim, TrueMass(claim, probes, o),
                                  FalseMass(claim, probes, o))
      outcomes == SUBSET DOMAIN probes
  IN  [information |-> EntropyMass(t, f) - SumFunction([o \in outcomes |-> Entropy(o)]),
       risk |-> RiskMass(claim, t, f) - SumFunction([o \in outcomes |-> Risk(o)])]

(* One probe on its own, outcome by outcome as metrics_for_probe does it,   *)
(* with the chance that the answer changes the decision.                    *)
MetricsForProbe(claim, p) ==
  LET tp == claim.prior * p.sensitivity
      fp == (Unit - claim.prior) * (Unit - p.specificity)
      tn == claim.prior * (Unit - p.sensitivity)
      fn == (Unit - claim.prior) * p.specificity
      t0 == claim.prior * Unit
      f0 == (Unit - claim.prior) * Unit
      now == Acts(claim, claim.prior, Unit - claim.prior)
      Flip(t, f) == IF t + f # 0 /\ Acts(claim, t, f) # now THEN t + f ELSE 0
  IN  [information |-> EntropyMass(t0, f0) - EntropyMass(tp, fp) - EntropyMass(tn, fn),
       risk |-> RiskMass(claim, t0, f0)
                  - RiskMass(claim, tp, fp) - RiskMass(claim, tn, fn),
       flips |-> Flip(tp, fp) + Flip(tn, fn)]

-----------------------------------------------------------------------------
(* Frontiers.                                                               *)

Outdoes(u, v) ==
  /\ u.information >= v.information /\ u.risk >= v.risk
  /\ u.usd <= v.usd /\ u.seconds <= v.seconds
  /\ \/ u.information > v.information \/ u.risk > v.risk
     \/ u.usd < v.usd \/ u.seconds < v.seconds

(* Doing nothing dominates what adds nothing.                               *)
FrontierIds(values) ==
  {v.id : v \in {w \in values : /\ w.information > 0 \/ w.risk > 0
                                /\ ~ \E u \in values : Outdoes(u, w)}}

SingleProbeFrontier(spec) ==
  FrontierIds({LET p == spec.probes[i]
                   c == ClaimOf(spec, i)
                   m == MetricsForProbe(c, p)
               IN  [id |-> p.id, information |-> m.information * c.importance,
                    risk |-> m.risk * c.importance,
                    usd |-> p.usd, seconds |-> p.seconds] :
                 i \in DOMAIN spec.probes})

-----------------------------------------------------------------------------
(* The loop.                                                                *)

Begin(spec) ==
  [selected |-> <<>>, usd |-> 0, seconds |-> 0, information |-> 0, risk |-> 0,
   joint |-> [c \in DOMAIN spec.claims |-> [information |-> 0, risk |-> 0]],
   steps |-> <<>>, reason |-> "none"]

OfClaim_Forgets(spec, chosen, p) == {}

OfClaim(spec, chosen, p) ==
  {q \in chosen : spec.probes[q].claim = spec.probes[p].claim}

Remaining(spec, st) == DOMAIN spec.probes \ Range(st.selected)

HasDependenceConflict(spec, st, p) ==
  \E q \in OfClaim(spec, Range(st.selected), p) :
    spec.probes[q].group = spec.probes[p].group

FitsBudget(spec, st, p) ==
  /\ st.usd + spec.probes[p].usd <= spec.budget.usd
  /\ st.seconds + spec.probes[p].seconds <= spec.budget.seconds

ClaimIndex(spec, p) ==
  CHOOSE c \in DOMAIN spec.claims : spec.claims[c].id = spec.probes[p].claim

(* A candidate: what it adds to the probes already chosen for its claim.    *)
CandidateFor(spec, st, p) ==
  LET claim == ClaimOf(spec, p)
      probe == spec.probes[p]
      with  == OfClaim(spec, Range(st.selected), p) \cup {p}
      new   == JointMetrics(claim, [q \in with |-> spec.probes[q]], Len(spec.probes))
      old   == st.joint[ClaimIndex(spec, p)]
  IN  [index |-> p, id |-> probe.id, usd |-> probe.usd, seconds |-> probe.seconds,
       new |-> new,
       information |-> (new.information - old.information) * claim.importance,
       risk |-> (new.risk - old.risk) * claim.importance]

(* The strategy's order of two candidates: -1, 0 or 1.  Value at no cost    *)
(* comes before any ratio.                                                  *)
Sign(n) == IF n < 0 THEN -1 ELSE IF n > 0 THEN 1 ELSE 0

RatioOrder(value, cost, value2, cost2) ==
  LET free(v, c) == c = 0 /\ v > 0
      Num(v, c) == IF c = 0 THEN 0 ELSE v
      Den(c) == IF c = 0 THEN 1 ELSE c
  IN  IF free(value, cost) # free(value2, cost2)
      THEN IF free(value, cost) THEN 1 ELSE -1
      ELSE IF free(value, cost) THEN 0
      ELSE Sign(Num(value, cost) * Den(cost2) - Num(value2, cost2) * Den(cost))

PrimaryOrder(a, b, strategy) ==
  CASE strategy = "max_information" -> Sign(a.information - b.information)
    [] strategy = "information_per_usd" ->
         RatioOrder(a.information, a.usd, b.information, b.usd)
    [] strategy = "information_per_second" ->
         RatioOrder(a.information, a.seconds, b.information, b.seconds)
    [] strategy = "max_risk_reduction" -> Sign(a.risk - b.risk)

(* The first comparison that is not a tie decides; ids are never tied.      *)
CandidateIsBetter(a, b, strategy) ==
  LET orders == << PrimaryOrder(a, b, strategy),
                   Sign(a.information - b.information), Sign(a.risk - b.risk),
                   Sign(b.usd - a.usd), Sign(b.seconds - a.seconds),
                   Sign(b.id - a.id) >>
  IN  \E k \in DOMAIN orders :
        orders[k] = 1 /\ \A j \in 1..(k - 1) : orders[j] = 0

(* The candidates are compared in their order, each with the best so far.   *)
BestCandidate(candidates, strategy) ==
  LET foremost == CHOOSE c \in candidates : \A d \in candidates : c.index <= d.index
      Hindmost(S) == CHOOSE c \in S : \A d \in S : c.index >= d.index
      Better(c, best) == IF CandidateIsBetter(c, best, strategy) THEN c ELSE best
  IN  MapThenFoldSet(Better, foremost, LAMBDA c : c, Hindmost, candidates \ {foremost})

HasPositiveValue(c, strategy) ==
  IF strategy = "max_risk_reduction" THEN c.risk > 0 ELSE c.information > 0

Stops(st, reason) == [st EXCEPT !.reason = reason]

Select(spec, st, chosen, frontier) ==
  LET joint == [st.joint EXCEPT ![ClaimIndex(spec, chosen.index)] = chosen.new]
      Total(field) ==
        SumFunction([c \in DOMAIN joint |-> joint[c][field] * spec.claims[c].importance])
  IN  [st EXCEPT !.selected = Append(@, chosen.index),
                 !.usd = @ + chosen.usd, !.seconds = @ + chosen.seconds,
                 !.joint = joint, !.information = Total("information"),
                 !.risk = Total("risk"),
                 !.steps = Append(@, [information |-> chosen.information,
                                      risk |-> chosen.risk,
                                      frontier |-> frontier])]

(* One turn of the loop.                                                    *)
PlanStep(spec, st) ==
  LET remaining  == Remaining(spec, st)
      free       == {p \in remaining : ~ HasDependenceConflict(spec, st, p)}
      countable  == {p \in free :
                       Cardinality(OfClaim(spec, Range(st.selected), p)) < EnumerationLimit}
      candidates == {CandidateFor(spec, st, p) :
                       p \in {q \in countable : FitsBudget(spec, st, q)}}
      frontier   == {c \in candidates : c.id \in FrontierIds(candidates)}
      best       == BestCandidate(frontier, spec.strategy)
  IN  IF Len(st.selected) >= spec.budget.probes
      THEN Stops(st, "max probes reached")
      ELSE IF ~ spec.independent /\ st.selected # <<>>
      THEN Stops(st, "dependence constraint")
      ELSE IF candidates = {}
      THEN Stops(st, CASE remaining = {} -> "no candidates"
                       [] remaining # {} /\ free = {} -> "dependence constraint"
                       [] free # {} /\ countable = {} -> "exact enumeration limit"
                       [] OTHER -> "budget exhausted")
      ELSE IF frontier = {} \/ ~ HasPositiveValue(best, spec.strategy)
      THEN Stops(st, "no positive marginal value")
      ELSE Select(spec, st, best, FrontierIds(candidates))

-----------------------------------------------------------------------------
(* What a plan promises, at every turn.                                     *)

(* The probes of the first k picks.                                         *)
Chosen(st, k) == {st.selected[j] : j \in 1..k}

SameClaim(spec, chosen, claim) == {q \in chosen : spec.probes[q].claim = claim.id}

(* What some probes are worth to all the claims together.                   *)
Worth(spec, chosen, field) ==
  SumFunction([c \in DOMAIN spec.claims |->
    spec.claims[c].importance *
      JointMetrics(spec.claims[c],
                   [q \in SameClaim(spec, chosen, spec.claims[c]) |-> spec.probes[q]],
                   Len(spec.probes))[field]])

Spent(spec, chosen, field) == SumFunction([q \in chosen |-> spec.probes[q][field]])

Allowed(spec, chosen, p) ==
  LET mine == SameClaim(spec, chosen, ClaimOf(spec, p))
  IN  /\ p \notin chosen
      /\ Spent(spec, chosen \cup {p}, "usd") <= spec.budget.usd
      /\ Spent(spec, chosen \cup {p}, "seconds") <= spec.budget.seconds
      /\ Cardinality(mine) < EnumerationLimit
      /\ \A q \in mine : spec.probes[q].group # spec.probes[p].group

Gain(spec, chosen, p, field) ==
  Worth(spec, chosen \cup {p}, field) - Worth(spec, chosen, field)

(* What the strategy maximises, as a fraction.                              *)
Value(spec, chosen, p) ==
  LET info == Gain(spec, chosen, p, "information")
      Per(cost) == IF cost > 0 THEN <<info, cost>>
                   ELSE IF info > 0 THEN <<1, 0>> ELSE <<0, 1>>
  IN  CASE spec.strategy = "max_information" -> <<info, 1>>
        [] spec.strategy = "information_per_usd" -> Per(spec.probes[p].usd)
        [] spec.strategy = "information_per_second" -> Per(spec.probes[p].seconds)
        [] spec.strategy = "max_risk_reduction" ->
             <<Gain(spec, chosen, p, "risk"), 1>>

AtLeast(v, w) == v[1] * w[2] >= w[1] * v[2]

(* Looking only at the frontier, adding up marginal values and keeping a    *)
(* running joint value for each claim change nothing: each pick is the best *)
(* of all the probes still allowed, the totals are what the chosen probes   *)
(* are worth together and what was spent, and a plan that stops for want of *)
(* value really has none left to gain.                                      *)
PickSound(spec, st, k) ==
  LET before == Chosen(st, k - 1)
      p == st.selected[k]
  IN  /\ Allowed(spec, before, p)
      /\ Value(spec, before, p)[1] > 0
      /\ \A q \in DOMAIN spec.probes :
           Allowed(spec, before, q) =>
             AtLeast(Value(spec, before, p), Value(spec, before, q))
      /\ st.steps[k].information = Gain(spec, before, p, "information")
      /\ st.steps[k].risk = Gain(spec, before, p, "risk")

TotalsSound(spec, st, chosen) ==
  /\ Len(st.selected) <= spec.budget.probes
  /\ st.usd = Spent(spec, chosen, "usd") /\ st.seconds = Spent(spec, chosen, "seconds")
  /\ st.information = Worth(spec, chosen, "information")
  /\ st.risk = Worth(spec, chosen, "risk")

ReasonSound(spec, st, chosen) ==
  /\ st.reason \in {"budget exhausted", "no candidates", "exact enumeration limit"}
       => ~ \E p \in DOMAIN spec.probes : Allowed(spec, chosen, p)
  /\ st.reason = "no positive marginal value" =>
       \A p \in DOMAIN spec.probes :
         Allowed(spec, chosen, p) => Value(spec, chosen, p)[1] <= 0
  /\ st.reason = "dependence constraint" =>
       \/ ~ spec.independent
       \/ \A p \in DOMAIN spec.probes \ chosen :
            \E q \in SameClaim(spec, chosen, ClaimOf(spec, p)) :
              spec.probes[q].group = spec.probes[p].group

PlanSound(spec, st) ==
  /\ \A k \in DOMAIN st.selected : PickSound(spec, st, k)
  /\ TotalsSound(spec, st, Range(st.selected))
  /\ ReasonSound(spec, st, Range(st.selected))

(* The two ways a single probe is valued agree, and a probe that lowers the *)
(* risk is one that may change the decision.                                *)
MetricsAgree(spec) ==
  \A i \in DOMAIN spec.probes :
    LET p == spec.probes[i]
        c == ClaimOf(spec, i)
        m == MetricsForProbe(c, p)
        j == JointMetrics(c, <<p>>, 1)
    IN  /\ m.information = j.information /\ m.risk = j.risk
        /\ m.information >= 0 /\ m.risk >= 0
        /\ m.risk > 0 => m.flips > 0
=============================================================================
