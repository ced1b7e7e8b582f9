---------------------------- MODULE OrderProbes ----------------------------
(* The comparison of candidate probes (src/src/frontier_probes.rs).  A      *)
(* model declares worlds, the Pareto order each of them induces, perhaps a  *)
(* prior, and probes that map every world to an outcome at a cost.  The     *)
(* analysis drops a probe only when another one dominates it, under two     *)
(* readings of dominance.                                                   *)
(*                                                                          *)
(* A world's name is a number, so that names sort; an outcome's label is    *)
(* any value.  A cost is a triple of integers, and a number the code        *)
(* rejects (negative, infinite, NaN) is a negative one.                     *)
EXTENDS Integers, Sequences, FiniteSets, SequencesExt

PossibleOrders == {"RightDominates", "LeftDominates", "Tradeoff", "Equivalent",
                   "NoComparableSignals"}

(* A model: worlds and probes in the order they are declared.  "priors" is  *)
(* a set of at most one function from names to masses.                      *)
NamesOf(m) == {w.name : w \in Range(m.worlds)}

OrdersOf(m) ==
  [n \in NamesOf(m) |-> (CHOOSE w \in Range(m.worlds) : w.name = n).order]

-----------------------------------------------------------------------------
(* Validation: the first complaint, in the order the code looks.            *)

FirstOf(complaints) ==
  LET i == SelectInSeq(complaints, LAMBDA c : c[1])
  IN  IF i = 0 THEN "ok" ELSE complaints[i][2]

ValidateWorlds(m) ==
  FirstOf(<< <<m.worlds = <<>>, "EmptyWorlds">>,
             <<Cardinality(NamesOf(m)) < Len(m.worlds), "DuplicateWorld">> >>)

ValidatePriors(m) ==
  IF m.priors = {} THEN "ok"
  ELSE LET prior == CHOOSE f \in m.priors : TRUE
       IN  FirstOf(<<
             <<DOMAIN prior \ NamesOf(m) # {}, "UnknownPriorWorld">>,
             <<NamesOf(m) \ DOMAIN prior # {}, "PartialPriors">>,
             <<\E n \in DOMAIN prior : prior[n] < 0, "InvalidPrior">>,
             <<\A n \in DOMAIN prior : prior[n] = 0, "ZeroPriorMass">> >>)

ValidateProbe(m, i) ==
  LET p == m.probes[i]
  IN  FirstOf(<<
        <<\E j \in 1..(i - 1) : m.probes[j].name = p.name, "DuplicateProbe">>,
        <<\E k \in 1..3 : p.cost[k] < 0, "InvalidCost">>,
        <<DOMAIN p.observations \ NamesOf(m) # {}, "UnknownObservedWorld">>,
        <<NamesOf(m) \ DOMAIN p.observations # {},
          "IncompleteObservations">> >>)

ValidateProbes(m) ==
  IF m.probes = <<>> THEN "EmptyProbes"
  ELSE FirstOf([i \in 1..Len(m.probes) |->
                  <<ValidateProbe(m, i) # "ok", ValidateProbe(m, i)>>])

ModelError(m) ==
  IF ValidateWorlds(m) # "ok" THEN ValidateWorlds(m)
  ELSE IF ValidatePriors(m) # "ok" THEN ValidatePriors(m)
  ELSE ValidateProbes(m)

-----------------------------------------------------------------------------
(* Costs have no combined magnitude: they are compared by component.        *)

Leq(a, b) == \A k \in 1..3 : a[k] <= b[k]

StrictlyCheaperSomewhere(a, b) == \E k \in 1..3 : a[k] < b[k]

-----------------------------------------------------------------------------
(* One probe: its outcomes are told apart only by the worlds they hold.     *)

Partition(observations) ==
  {{w \in DOMAIN observations : observations[w] = label} :
     label \in Range(observations)}

OrdersIn(m, worlds) == {OrdersOf(m)[w] : w \in worlds}

WorstCaseRemainingOrders(m, partition) ==
  Max({Cardinality(OrdersIn(m, block)) : block \in partition})

(* The expected number of orders left, times the total mass, which is the   *)
(* same for every probe of a model.  Worlds of no mass count for nothing.   *)
ExpectedRemainingOrders(m, prior, partition) ==
  LET Mass(block) == MapThenSumSet(LAMBDA w : prior[w], block)
      Carried(block) == OrdersIn(m, {w \in block : prior[w] # 0})
  IN  MapThenSumSet(LAMBDA block : Mass(block) * Cardinality(Carried(block)),
                    partition)

AnalyzeProbe(m, p) ==
  LET partition == Partition(p.observations)
  IN  [name      |-> p.name,
       cost      |-> p.cost,
       partition |-> partition,
       worst     |-> WorstCaseRemainingOrders(m, partition),
       expected  |-> {ExpectedRemainingOrders(m, prior, partition) :
                        prior \in m.priors}]

-----------------------------------------------------------------------------
(* Dominance.                                                               *)

Refines(finer, coarser) == \A b \in finer : \E c \in coarser : b \subseteq c

(* More blocks are not yet a finer partition.                               *)
BlackwellDominates_CountsBlocks(q, p) ==
  /\ Cardinality(q.partition) >= Cardinality(p.partition)
  /\ Leq(q.cost, p.cost)
  /\ \/ Cardinality(q.partition) > Cardinality(p.partition)
     \/ StrictlyCheaperSomewhere(q.cost, p.cost)

BlackwellDominates(q, p) ==
  LET strictlyFiner == q.partition # p.partition
  IN  /\ Refines(q.partition, p.partition)
      /\ Leq(q.cost, p.cost)
      /\ strictlyFiner \/ StrictlyCheaperSomewhere(q.cost, p.cost)

OrderDominates(q, p) ==
  /\ q.worst <= p.worst
  /\ Leq(q.cost, p.cost)
  /\ \A e \in q.expected, f \in p.expected : e <= f
  /\ \/ q.worst < p.worst
     \/ StrictlyCheaperSomewhere(q.cost, p.cost)
     \/ \E e \in q.expected, f \in p.expected : e < f

(* The nondominated probes, and for each other probe the first one that     *)
(* dominates it.                                                            *)
FrontierBy(dominators) ==
  LET dominated == {i \in DOMAIN dominators : dominators[i] # {}}
  IN  [frontier  |-> DOMAIN dominators \ dominated,
       dominance |-> [i \in dominated |-> Min(dominators[i])]]

AnalyzeModel(m) ==
  LET reports == [i \in DOMAIN m.probes |-> AnalyzeProbe(m, m.probes[i])]
      DominatorsBy(Dominates(_, _)) ==
        [i \in DOMAIN reports |-> {j \in DOMAIN reports \ {i} :
                                     Dominates(reports[j], reports[i])}]
  IN  [orders    |-> OrdersIn(m, NamesOf(m)),
       probes    |-> reports,
       blackwell |-> FrontierBy(DominatorsBy(BlackwellDominates)),
       order     |-> FrontierBy(DominatorsBy(OrderDominates))]

-----------------------------------------------------------------------------
(* What the two frontiers promise.                                          *)

(* Nothing is lost by reading only a frontier: the evictions of a scan      *)
(* never go round in a circle, so that each evicted probe is dominated by a *)
(* probe that stays.                                                        *)
EvictedByAKeptProbe(reports, scan, Dominates(_, _)) ==
  \A i \in DOMAIN scan.dominance :
    \E j \in scan.frontier : Dominates(reports[j], reports[i])

(* The Blackwell order needs no prior: whatever mass the worlds have, the   *)
(* probe that dominates leaves no more orders, neither in the worst case    *)
(* nor on average, and so no prior brings the evicted one back to a         *)
(* frontier of order information ahead of it.                               *)
PriorFree(m, q, p) ==
  /\ q.worst <= p.worst
  /\ \A prior \in [NamesOf(m) -> 0..2] :
       ExpectedRemainingOrders(m, prior, q.partition)
         <= ExpectedRemainingOrders(m, prior, p.partition)

ProbesCompared(m) ==
  LET a == AnalyzeModel(m)
  IN  /\ EvictedByAKeptProbe(a.probes, a.blackwell, BlackwellDominates)
      /\ EvictedByAKeptProbe(a.probes, a.order, OrderDominates)
      /\ \A i \in DOMAIN a.blackwell.dominance :
           PriorFree(m, a.probes[a.blackwell.dominance[i]], a.probes[i])

=============================================================================
