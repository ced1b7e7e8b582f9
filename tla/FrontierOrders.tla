--------------------------- MODULE FrontierOrders ---------------------------
(* The analyses of partial orders, each over any inputs of its own: models  *)
(* of probes, pairs of profiles, specifications of plans.  A case starts    *)
(* as an input; the step that follows is the analysis, and a plan goes on   *)
(* turn by turn until it stops.  An input that validation refuses is        *)
(* answered with an error and goes nowhere.                                 *)
EXTENDS OrderProbes, IdentifiedOrders, InfoPlanner

CONSTANTS
  Problems,      \* questions about probes, each with a model
  ProfilePairs,  \* pairs of what two profiles are made from
  PlanSpecs,     \* specifications of plans
  Top            \* where the values of a signal open above are cut off

(* What the types of the code say of a model; its names and labels may be   *)
(* anything.                                                                *)
IsModel(m) ==
  /\ m.worlds \in Seq([name : Nat, order : PossibleOrders])
  /\ \A f \in m.priors : f \in [DOMAIN f -> Int] /\ m.priors = {f}
  /\ Len(m.probes) \in Nat /\ DOMAIN m.probes = 1..Len(m.probes)
  /\ \A i \in DOMAIN m.probes : m.probes[i].cost \in [1..3 -> Int]

ASSUME ProblemsAssumption == \A problem \in Problems : IsModel(problem.model)

(* An analyzer that delivers names itself.                                  *)
ASSUME ProfilesAssumption ==
  \A pair \in ProfilePairs : \A i \in 1..2 :
    /\ ValidReports(pair[i].reports) /\ ValidConfig(pair[i].config)
    /\ pair[i].implementation # ""

ASSUME PlansAssumption == PlanSpecs \subseteq PlanSpec

(* Top is far above every bound of a signal: a value that is not the same   *)
(* within the tolerance lies between.                                       *)
ASSUME TopAssumption ==
  /\ Top \in Nat
  /\ \A pair \in ProfilePairs : \A i \in 1..2 :
       LET clones == pair[i].reports.numbers[CloneDensity]
       IN  \A v \in Quotient(clones.numerator, clones.denominator) :
             \E y \in v..Top : ~ ApproximatelyEqual(v, y)

VARIABLE case

ProfileOf(of) == Profile(of.reports, of.config, of.implementation, of.artifact)

CompareProbes ==
  /\ case.kind = "problem"
  /\ ModelError(case.problem.model) = "ok"
  /\ case' = [kind |-> "probes", problem |-> case.problem]

CompareBoth ==
  /\ case.kind = "pair"
  /\ case' = [kind |-> "profiles", left |-> ProfileOf(case.pair[1]),
              right |-> ProfileOf(case.pair[2])]

StartPlan ==
  /\ case.kind = "spec"
  /\ ValidPlanSpec(case.spec)
  /\ case' = [kind |-> "plan", spec |-> case.spec, state |-> Begin(case.spec)]

TakeProbe ==
  /\ case.kind = "plan"
  /\ case.state.reason = "none"
  /\ case' = [case EXCEPT !.state = PlanStep(case.spec, case.state)]

OrdersInit ==
  case \in {[kind |-> "problem", problem |-> problem] : problem \in Problems}
             \cup {[kind |-> "pair", pair |-> pair] : pair \in ProfilePairs}
             \cup {[kind |-> "spec", spec |-> spec] : spec \in PlanSpecs}

OrdersNext == CompareProbes \/ CompareBoth \/ StartPlan \/ TakeProbe

OrdersSpec == OrdersInit /\ [][OrdersNext]_case

-----------------------------------------------------------------------------
(* A dominated probe has a better one on the frontier, without a prior      *)
(* (analyze_model).                                                         *)
ProbesComparedRight ==
  case.kind = "probes" => ProbesCompared(case.problem.model)

(* Profiles pass their own contract (project, valid_signal_registry).       *)
ProfilesValid ==
  case.kind = "profiles" => /\ ProjectionMeetsContract(case.left)
                            /\ ProjectionMeetsContract(case.right)

(* The orders reported possible are the ones some values in the intervals   *)
(* attain, no more and no fewer, and the two comparisons of profiles agree  *)
(* (derive_sharp_order_set; compare_profiles in both modules).              *)
OrdersRight ==
  case.kind = "profiles" => /\ SharpSet(case.left, case.right, Top)
                            /\ ComparisonsAgree(case.left, case.right)

(* A plan picks the best there is and adds it up right (plan).              *)
PlansSound ==
  case.kind = "plan" => PlanSound(case.spec, case.state) /\ MetricsAgree(case.spec)
=============================================================================
