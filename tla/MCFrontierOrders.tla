-------------------------- MODULE MCFrontierOrders --------------------------
(* Small inputs for the analyses of partial orders, and the policies that   *)
(* are found for the same models of probes.                                 *)
EXTENDS ContingentPolicies, FrontierOrders

(* Probe problems over four worlds.                                         *)
Observations == << <<1, 1, 1, 1>>, <<1, 1, 2, 2>>, <<1, 2, 1, 2>>,
                   <<1, 2, 2, 2>>, <<4, 3, 2, 1>> >>

WithCost(cost, observations) ==
  [i \in DOMAIN observations |-> [cost |-> cost, observations |-> observations[i]]]

CandidateProbes ==
  WithCost(<<1, 0, 1>>, Observations) \o WithCost(<<0, 1, 1>>, Observations)
    \o WithCost(<<2, 1, 1>>, SubSeq(Observations, 4, 5))

WorldOrders == {<<"RightDominates", "LeftDominates", "Tradeoff", "Equivalent">>,
                <<"RightDominates", "Tradeoff", "RightDominates", "Tradeoff">>}

Worlds(orders) == [w \in 1..4 |-> [name |-> w, order |-> orders[w]]]

Wide == [worlds |-> 4, probes |-> 3, memo |-> 100, width |-> 64]
Narrow == [Wide EXCEPT !.memo = 9, !.width = 2]

Named(i, name) == [name |-> name] @@ CandidateProbes[i]

Asked ==
  {<<Wide, {}>>, <<Wide, {<<2, 1, 2>>}>>, <<Wide, {<<1, 1, 2>>}>>, <<Narrow, {}>>}

ProblemsHere ==
  {[model |-> [worlds |-> Worlds(orders), priors |-> prior,
               probes |-> <<Named(i, "p"), Named(j, "q"), Named(k, "r")>>],
    limits |-> asked[1], budget |-> asked[2]] :
     orders \in WorldOrders, asked \in Asked, prior \in {{}, {<<1, 0, 2, 1>>}},
     <<i, j, k>> \in {t \in (DOMAIN CandidateProbes) \X (DOMAIN CandidateProbes)
                             \X (DOMAIN CandidateProbes) : t[1] <= t[2] /\ t[2] <= t[3]}}

(* Profiles: one signal that is always exact, and the two that may be       *)
(* bounded, over all their statuses.                                        *)
Readings ==
  LET Exact(v, d) == [value |-> v, denominator |-> d]
      Ratio(n, d) == [numerator |-> n, denominator |-> d]
  IN  {[id \in Range(SignalIds) |->
          CASE id = "cognitive"      -> Exact({c}, {3})
            [] id = SymbolWorkingSet ->
                 [p90 |-> {k[1]}, nodes |-> {k[2]}, sampled |-> {k[2]},
                  resolution |-> {k[3]}]
            [] id = "shallow"        -> Ratio({1}, {2})
            [] id = "pure"           -> Exact({k[1]}, {3})
            [] id = "mutable-range"  -> Exact({2}, {3})
            [] id = CloneDensity     ->
                 Ratio({d[1]}, {d[2]}) @@ [groups |-> {d[3]}, cap |-> {5}]] :
          c \in {2, 4},
          k \in {<<0, 1, 1>>, <<0, 4, 6>>, <<2, 4, 6>>, <<1, 4, 1>>, <<3, 4, 1>>},
          d \in {<<1, 0, 1>>, <<1, 3, 1>>, <<2, 3, 1>>, <<1, 3, 5>>, <<3, 3, 7>>}}

Config == [min_tokens |-> 40, min_lines |-> 5, max_groups |-> 9, gate |-> 3]

Pinned == [identity_error |-> FALSE,
           git |-> {[kind |-> "git-repository", absolute |-> TRUE,
                     revision |-> 40, tree |-> 40]}]

Of(numbers, delivered, gate, git) ==
  [reports |-> [delivered |-> delivered, numbers |-> numbers],
   config |-> [Config EXCEPT !.gate = gate], implementation |-> "v1",
   artifact |-> [Pinned EXCEPT !.git = git]]

PairsHere ==
  LET All == Range(Analyzers)
  IN  {<<Of(left, All, 3, Pinned.git), Of(right, delivered, how[1], how[2])>> :
         left \in Readings, right \in Readings, delivered \in {All, All \ {"symbols"}},
         how \in {<<3, Pinned.git>>, <<3, {}>>, <<2, Pinned.git>>}}

-----------------------------------------------------------------------------
(* Plans: two claims and three probes, some of them worthless, free or of   *)
(* one dependence group.                                                    *)
ProbePool ==
  LET P(claim, sensitivity, specificity, usd, seconds, group) ==
        [claim |-> claim, sensitivity |-> sensitivity,
         specificity |-> specificity, usd |-> usd, seconds |-> seconds,
         group |-> group]
  IN  << P(1, 3, 3, 1, 1, 1), P(1, 4, 2, 2, 1, 1), P(1, 3, 4, 0, 2, 2),
         P(1, 2, 2, 0, 0, 2), P(2, 3, 3, 1, 2, 1), P(2, 2, 4, 1, 1, 2),
         P(2, 1, 1, 2, 0, 3) >>

Claims(prior) ==
  << [id |-> 1, prior |-> prior, fp |-> 1, fn |-> 2, importance |-> 2],
     [id |-> 2, prior |-> 2, fp |-> 1, fn |-> 1, importance |-> 1] >>

SpecsHere ==
  LET Id(k, id) == [id |-> id] @@ ProbePool[k]
  IN  {[claims |-> Claims(prior), strategy |-> strategy,
        probes |-> <<Id(i, 1), Id(j, 2), Id(k, 3)>>, independent |-> independent,
        budget |-> [usd |-> budget[1], seconds |-> budget[2], probes |-> budget[3]]] :
         prior \in {1, 2, 4}, strategy \in Strategies, independent \in BOOLEAN,
         i \in DOMAIN ProbePool, j \in DOMAIN ProbePool, k \in DOMAIN ProbePool,
         budget \in {<<9, 9, 2>>, <<2, 9, 3>>, <<9, 3, 3>>}}

-----------------------------------------------------------------------------
(* The policies found are all the nondominated ones (solve_model).          *)
PoliciesExact == case.kind = "probes" => SolverExact(case.problem)
=============================================================================
