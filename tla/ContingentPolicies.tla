------------------------- MODULE ContingentPolicies -------------------------
(* The exact solver of adaptive probe policies                              *)
(* (src/src/frontier_policies.rs).  A policy stops, or runs a probe and     *)
(* goes on by its outcome; its signature is what it guarantees in the worst *)
(* case.  The solver answers with the nondominated signatures and one       *)
(* policy tree for each of them, or with the limit it would have exceeded.  *)
(*                                                                          *)
(* A problem is a model of OrderProbes, a budget for each path (a set of at *)
(* most one cost) and the four limits.  Probes are known by their index.    *)
EXTENDS OrderProbes, Ordering

Signature(orders, probes, cost) ==
  [orders |-> orders, probes |-> probes, cost |-> cost]

ZeroCost == <<0, 0, 0>>
CostAdd(a, b) == [k \in 1..3 |-> a[k] + b[k]]
CostMax(a, b) == [k \in 1..3 |-> Max({a[k], b[k]})]

SignatureDominates(s, t) ==
  /\ s.orders <= t.orders
  /\ s.probes <= t.probes
  /\ Leq(s.cost, t.cost)
  /\ \/ s.orders < t.orders
     \/ s.probes < t.probes
     \/ StrictlyCheaperSomewhere(s.cost, t.cost)

(* One signature for both of two continuations: the worst of each part.     *)
WorstOf(s, t) ==
  Signature(Max({s.orders, t.orders}), Max({s.probes, t.probes}),
            CostMax(s.cost, t.cost))

-----------------------------------------------------------------------------
(* A state of the solver is what may still be the world and what may still  *)
(* be run.                                                                  *)

(* What is left of the budget is a function of the probes already used.     *)
RemainingBudget(pb, unused) ==
  LET used == DOMAIN pb.model.probes \ unused
      Spent(k) == MapThenSumSet(LAMBDA p : pb.model.probes[p].cost[k], used)
  IN  {[k \in 1..3 |-> budget[k] - Spent(k)] : budget \in pb.budget}

WithinBudget(pb, p, remaining) ==
  \A left \in remaining : Leq(pb.model.probes[p].cost, left)

(* The outcomes of a probe that the survivors can produce, by label: labels *)
(* are numbered as the worlds, sorted by name, first show them.             *)
OutcomeCells(pb, p, survivors) ==
  LET labels == InOrder(Partition(pb.model.probes[p].observations),
                             LAMBDA b, c : Min(b) < Min(c))
  IN  SelectSeq([i \in DOMAIN labels |-> labels[i] \cap survivors],
                LAMBDA cell : cell # {})

InformativeProbes(pb, survivors, unused) ==
  {p \in unused : Len(OutcomeCells(pb, p, survivors)) >= 2}

PrunedBy_IgnoresCost(pb, survivors, p, q) ==
  LET fine   == OutcomeCells(pb, q, survivors)
      coarse == OutcomeCells(pb, p, survivors)
  IN  Refines(Range(fine), Range(coarse)) /\ Len(fine) > Len(coarse)

(* q makes p pointless here: finer on the survivors, no dearer, and better  *)
(* in one of the two.                                                       *)
PrunedBy(pb, survivors, p, q) ==
  LET fine   == OutcomeCells(pb, q, survivors)
      coarse == OutcomeCells(pb, p, survivors)
      cost   == [i \in {p, q} |-> pb.model.probes[i].cost]
  IN  /\ q # p
      /\ Refines(Range(fine), Range(coarse))
      /\ Leq(cost[q], cost[p])
      /\ \/ Len(fine) > Len(coarse)
         \/ StrictlyCheaperSomewhere(cost[q], cost[p])

BlackwellPrune(pb, survivors, admissible) ==
  {p \in admissible :
     ~ \E q \in admissible : PrunedBy(pb, survivors, p, q)}

(* The certificate of each pruned probe names the first that dominates it.  *)
Certificates(pb, survivors, admissible) ==
  {[survivors |-> survivors, pruned |-> p,
    by |-> Min({q \in admissible : PrunedBy(pb, survivors, p, q)})] :
     p \in admissible \ BlackwellPrune(pb, survivors, admissible)}

StopStatus(orders, informative, admissible) ==
  CASE Cardinality(orders) = 1 -> "Identified"
    [] Cardinality(orders) # 1 /\ informative = {} ->
         "ObservationallyIndistinguishable"
    [] Cardinality(orders) # 1 /\ informative # {} /\ admissible = {} ->
         "BudgetExhausted"
    [] OTHER -> "ElectiveStop"

-----------------------------------------------------------------------------
(* Records are pairs of a signature and a tree, kept in the order found: a  *)
(* later one that is dominated by a kept one, or has its signature, is      *)
(* dropped, and one that dominates kept ones replaces them.                 *)

ParetoPrune(records) ==
  FoldLeft(LAMBDA kept, r :
             IF \E i \in DOMAIN kept :
                  \/ SignatureDominates(kept[i].signature, r.signature)
                  \/ kept[i].signature = r.signature
             THEN kept
             ELSE Append(SelectSeq(kept, LAMBDA k :
                           ~ SignatureDominates(r.signature, k.signature)), r),
           <<>>, records)

Stop(status, orders, survivors) ==
  [action |-> "stop", status |-> status, orders |-> orders,
   worlds |-> survivors]

Probe(p, outcomes) == [action |-> "probe", probe |-> p, outcomes |-> outcomes]

(* The product of the partial combinations with the frontier of one more    *)
(* cell, pruned at once.                                                    *)
Product(combos, cell, frontier) ==
  ParetoPrune(FlattenSeq([i \in DOMAIN combos |->
    [j \in DOMAIN frontier |->
       [signature |-> WorstOf(combos[i].signature, frontier[j].signature),
        tree      |-> combos[i].tree @@ (cell :> frontier[j].tree)]]]))

Fail(st, error) == [st EXCEPT !.error = error]

(* The solver threads its memo, its certificates and the first error.  The  *)
(* frontier of a state is its entry in the memo.                            *)
RECURSIVE Solve(_, _, _, _)

Combine(pb, cells, st, unused) ==
  FoldLeft(LAMBDA acc, cell :
             IF acc.st.error # "ok" THEN acc
             ELSE LET next == Product(acc.combos, cell, st.memo[<<cell, unused>>])
                  IN  IF Len(next) > pb.limits.width
                      THEN [acc EXCEPT !.st = Fail(@, "FrontierWidthExceeded")]
                      ELSE [acc EXCEPT !.combos = next],
           [st |-> st,
            combos |-> <<[signature |-> Signature(0, 0, ZeroCost),
                          tree |-> <<>>]>>],
           cells)

(* Every policy that opens with p.                                          *)
Open(pb, survivors, unused, p, acc) ==
  LET Opened(c) ==
        [signature |-> Signature(c.signature.orders, c.signature.probes + 1,
                         CostAdd(pb.model.probes[p].cost, c.signature.cost)),
         tree      |-> Probe(p, c.tree)]
      With(solved, combined) ==
        IF solved.error # "ok" THEN [acc EXCEPT !.st = solved]
        ELSE IF combined.st.error # "ok" THEN [acc EXCEPT !.st = combined.st]
        ELSE [st |-> solved,
              records |-> acc.records
                            \o [i \in DOMAIN combined.combos |->
                                  Opened(combined.combos[i])]]
      Combined(cells, solved) == With(solved, Combine(pb, cells, solved, unused \ {p}))
      Solved(cells) ==
        Combined(cells, FoldLeft(LAMBDA s, cell : Solve(pb, cell, unused \ {p}, s),
                                 acc.st, cells))
  IN  Solved(OutcomeCells(pb, p, survivors))

Remember(pb, survivors, unused, opened) ==
  LET records == ParetoPrune(opened.records)
  IN  IF opened.st.error # "ok" THEN opened.st
      ELSE IF Len(records) > pb.limits.width
      THEN Fail(opened.st, "FrontierWidthExceeded")
      ELSE [opened.st EXCEPT !.memo = @ @@ (<<survivors, unused>> :> records)]

Solve(pb, survivors, unused, st) ==
  IF st.error # "ok" \/ <<survivors, unused>> \in DOMAIN st.memo THEN st
  ELSE IF Cardinality(DOMAIN st.memo) >= pb.limits.memo
  THEN Fail(st, "Truncated")
  ELSE
    LET orders      == OrdersIn(pb.model, survivors)
        informative == InformativeProbes(pb, survivors, unused)
        affordable  == {p \in informative :
                          WithinBudget(pb, p, RemainingBudget(pb, unused))}
        admissible  == BlackwellPrune(pb, survivors, affordable)
        stop == [signature |-> Signature(Cardinality(orders), 0, ZeroCost),
                 tree |-> Stop(StopStatus(orders, informative, admissible),
                               orders, survivors)]
        opened == FoldLeft(LAMBDA acc, p :
                             IF acc.st.error # "ok" THEN acc
                             ELSE Open(pb, survivors, unused, p, acc),
                    [st |-> [st EXCEPT !.certificates =
                               @ \cup Certificates(pb, survivors, affordable)],
                     records |-> <<stop>>],
                    Ascending(admissible))
    IN  Remember(pb, survivors, unused, opened)

SolveModel(pb) ==
  LET worlds == NamesOf(pb.model)
      probes == DOMAIN pb.model.probes
      error  == FirstOf(<<
        <<ModelError(pb.model) # "ok", ModelError(pb.model)>>,
        <<\E b \in pb.budget : \E k \in 1..3 : b[k] < 0, "InvalidBudget">>,
        <<Cardinality(worlds) > pb.limits.worlds, "TooManyWorlds">>,
        <<Cardinality(probes) > pb.limits.probes, "TooManyProbes">> >>)
      start  == [memo |-> <<>>, certificates |-> {}, error |-> error]
      Answer(solved) ==
        [error        |-> solved.error,
         frontier     |-> IF solved.error = "ok"
                          THEN solved.memo[<<worlds, probes>>] ELSE <<>>,
         certificates |-> solved.certificates]
  IN  Answer(Solve(pb, worlds, probes, start))

-----------------------------------------------------------------------------
(* What the answer promises, said without pruning, without a memo and with  *)
(* the budget spent along the path.                                         *)

(* The signatures of all the policies there are, the pointless ones too.    *)
RECURSIVE Achievable(_, _, _, _)
Achievable(pb, survivors, unused, left) ==
  LET Opening(p) ==
        LET cost  == pb.model.probes[p].cost
            after == {[k \in 1..3 |-> b[k] - cost[k]] : b \in left}
            ends  == FoldLeft(LAMBDA sigs, cell :
                       {WorstOf(s, t) : s \in sigs,
                          t \in Achievable(pb, cell, unused \ {p}, after)},
                       {Signature(0, 0, ZeroCost)},
                       OutcomeCells(pb, p, survivors))
        IN  {Signature(s.orders, s.probes + 1, CostAdd(cost, s.cost)) :
               s \in ends}
      here == Cardinality(OrdersIn(pb.model, survivors))
  IN  {Signature(here, 0, ZeroCost)}
        \cup UNION {Opening(p) : p \in {q \in unused : WithinBudget(pb, q, left)}}

Nondominated(sigs) ==
  {s \in sigs : ~ \E t \in sigs : SignatureDominates(t, s)}

(* What a tree really guarantees, and whether its leaves say why they stop. *)
RECURSIVE Realised(_, _, _)
Realised(pb, survivors, tree) ==
  IF tree.action = "stop"
  THEN Signature(Cardinality(OrdersIn(pb.model, survivors)), 0, ZeroCost)
  ELSE LET cells == Range(OutcomeCells(pb, tree.probe, survivors))
           ends  == {Realised(pb, c, tree.outcomes[c]) : c \in cells}
           Worst(k) == Max({s.cost[k] : s \in ends})
       IN  Signature(Max({s.orders : s \in ends}),
                     1 + Max({s.probes : s \in ends}),
                     CostAdd(pb.model.probes[tree.probe].cost,
                             [k \in 1..3 |-> Worst(k)]))

RECURSIVE LeavesTrue(_, _, _, _, _)
LeavesTrue(pb, survivors, unused, left, tree) ==
  LET splits == {p \in unused : \E b \in Partition(pb.model.probes[p].observations) :
                   b \cap survivors # {} /\ survivors \ b # {}}
      cost(p) == pb.model.probes[p].cost
  IN  IF tree.action = "probe"
      THEN \A c \in Range(OutcomeCells(pb, tree.probe, survivors)) :
             LeavesTrue(pb, c, unused \ {tree.probe},
                        {[k \in 1..3 |-> b[k] - cost(tree.probe)[k]] : b \in left},
                        tree.outcomes[c])
      ELSE /\ tree.worlds = survivors
           /\ \A b \in left : \A k \in 1..3 : b[k] >= 0
           /\ tree.status = "Identified"
                <=> Cardinality(OrdersIn(pb.model, survivors)) = 1
           /\ tree.status = "ObservationallyIndistinguishable"
                => splits = {}
           /\ tree.status = "BudgetExhausted"
                => /\ splits # {}
                   /\ \A p \in splits : \E b \in left : ~ Leq(cost(p), b)
           /\ tree.status = "ElectiveStop"
                => \E p \in splits : \A b \in left : Leq(cost(p), b)

(* The answer is complete or it is refused: dropping dominated probes under *)
(* a hard budget, pruning partial combinations and answering from the memo  *)
(* lose no nondominated policy, and each policy listed achieves what it     *)
(* claims within the budget of every path.                                  *)
AnswerExact(pb, answer) ==
  LET worlds == NamesOf(pb.model)
      probes == DOMAIN pb.model.probes
  IN  answer.error = "ok" =>
        /\ {answer.frontier[i].signature : i \in DOMAIN answer.frontier}
             = Nondominated(Achievable(pb, worlds, probes, pb.budget))
        /\ \A i \in DOMAIN answer.frontier :
             LET r == answer.frontier[i]
             IN  /\ Realised(pb, worlds, r.tree) = r.signature
                 /\ LeavesTrue(pb, worlds, probes, pb.budget, r.tree)

SolverExact(pb) == AnswerExact(pb, SolveModel(pb))
=============================================================================
