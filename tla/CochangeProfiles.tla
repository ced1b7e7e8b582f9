-------------------------- MODULE CochangeProfiles --------------------------
(* What files change together: the mass of pairs (src/src/cochange.rs), how *)
(* directories cut it, how far declared dependencies support it             *)
(* (src/src/cochange_support.rs), and the changes of each file              *)
(* (src/src/change_profile.rs).                                             *)
(*                                                                          *)
(* Files are numbers, in the order of their paths.  A history is a sequence *)
(* of commits, each with its time and, for each of its files, whether it    *)
(* changed as text and as a binary and by how many lines.                   *)
EXTENDS DependencyGraph, CochangeMass

CONSTANT DaySeconds  \* the seconds of a day

ASSUME DayAssumption == DaySeconds \in Nat \ {0}

JaccardMinCooccurrence == 2

SumOver(S, F(_)) == MapThenSumSet(F, S)

-----------------------------------------------------------------------------
(* Whether declared dependencies support the pairs.                         *)

MassBin(history, pairs) ==
  [pairs |-> Cardinality(pairs), mass |-> SumOver(pairs, LAMBDA e : history[e].mass)]

(* Pairs an edge joins, pairs only a walk joins, and pairs nothing joins;   *)
(* the last two are not told apart when the graph is too large to walk.     *)
SupportCrossTab(history, universe, adjacency) ==
  LET direct == {e \in DOMAIN history : \E p \in adjacency : e = {p[1], p[2]}}
      others == DOMAIN history \ direct
      reachable == QueriedUndirectedReachability(adjacency, others)
  IN  IF ReachabilityBudget(universe, adjacency) = "Computed"
      THEN [direct |-> MassBin(history, direct),
            transitive |-> MassBin(history, reachable),
            unrelated |-> MassBin(history, others \ reachable)]
      ELSE [direct |-> MassBin(history, direct), uncomputed |-> MassBin(history, others)]

(* How many of the edges between directories have a history.                *)
ReverseStaticEdgeSupport(history, adjacency, directory) ==
  LET crossing == {p \in adjacency : directory[p[1]] # directory[p[2]]}
  IN  [supported |-> Cardinality({p \in crossing : {p[1], p[2]} \in DOMAIN history}),
       edges |-> Cardinality(crossing)]

RatioBelow(x, y) == x[1] * y[2] < y[1] * x[2]

JaccardRanked ==
  LET history == support.pairs
      ratio == [e \in DOMAIN history |-> JaccardOf(e)]
      First(e) == CHOOSE f \in e : \A g \in e : f <= g
      Second(e) == CHOOSE f \in e : \A g \in e : g <= f
      Earlier(d, e) ==
        \/ First(d) < First(e) \/ (First(d) = First(e) /\ Second(d) < Second(e))
  IN  InOrder(DOMAIN history, LAMBDA d, e :
        \/ RatioBelow(ratio[e], ratio[d])
        \/ ~RatioBelow(ratio[d], ratio[e])
             /\ \/ history[d].cooccurrence > history[e].cooccurrence
                \/ history[d].cooccurrence = history[e].cooccurrence /\ Earlier(d, e))

(* The percentiles are taken of the pairs that met more than once.          *)
MetOften ==
  {e \in DOMAIN support.pairs : support.pairs[e].cooccurrence >= JaccardMinCooccurrence}

JaccardDistribution ==
  LET ranked == SelectSeq(JaccardRanked, LAMBDA e : e \in MetOften)
      Nth(percentile) ==
        LET rank == (Len(ranked) * percentile + 99) \div 100
        IN  IF ranked = <<>> THEN {} ELSE {JaccardOf(ranked[Len(ranked) + 1 - rank])}
  IN  [p50 |-> Nth(50), p90 |-> Nth(90), max |-> Nth(100)]

(* What is made of the pairs when the loop over the commits is done.  Only  *)
(* files that both sides know are compared: they are the universe.          *)
AnalyzeCochangeSupport(source, analyzed, edges, directory, top) ==
  LET universe == asked.universe
      adjacency == {p \in edges : p[1] \in universe /\ p[2] \in universe}
      ranked == JaccardRanked
  IN  [tab |-> SupportCrossTab(support.pairs, universe, adjacency),
       reverse |-> ReverseStaticEdgeSupport(support.pairs, adjacency, directory),
       distribution |-> JaccardDistribution,
       pairs |-> SubSeq(ranked, 1, IF top < Len(ranked) THEN top ELSE Len(ranked)),
       staticOnly |-> Cardinality(analyzed \ source),
       cochangeOnly |-> Cardinality(source \ analyzed),
       never |-> Cardinality(universe) - Cardinality(accumulation.touched)]

-----------------------------------------------------------------------------
(* The changes of each file.                                                *)

HistoryFields(commits, f) ==
  LET in == {i \in DOMAIN commits : f \in DOMAIN commits[i].files}
      text == {i \in in : commits[i].files[f].text}
      binary == {i \in in : commits[i].files[f].binary}
      times == {commits[i].time : i \in in}
  IN  [touched |-> Cardinality(in), text |-> Cardinality(text), binary |-> Cardinality(binary),
       days |-> Cardinality({t \div DaySeconds : t \in times}),
       mass |-> SumOver(text, LAMBDA i : commits[i].files[f].mass),
       complete |-> binary = {},
       first |-> {t \in times : \A u \in times : t <= u},
       last |-> {t \in times : \A u \in times : u <= t},
       status |-> CASE text # {} /\ binary # {} -> "TextAndBinary"
                    [] text # {} /\ binary = {} -> "Text"
                    [] text = {} /\ binary # {} -> "BinaryOnly"
                    [] OTHER -> "None"]

(* Current files, with their history if it reaches them, and files that     *)
(* only the history knows.  Mass per line is not told of a file that was    *)
(* ever binary in the window, nor of an empty one.                          *)
AnalyzeChangeProfile(commits, current, sloc) ==
  LET changed == UNION {DOMAIN commits[i].files : i \in DOMAIN commits}
      fields == [f \in current \cup changed |-> HistoryFields(commits, f)]
  IN  [rows |-> [f \in current |->
                   [fields |-> fields[f],
                    join |-> IF f \in changed THEN "Matched" ELSE "CurrentWithoutHistory",
                    perLine |-> IF fields[f].binary > 0 \/ sloc[f] = 0 THEN {}
                                ELSE {<<fields[f].mass, sloc[f]>>}]],
       historyOnly |-> [f \in changed \ current |-> fields[f]],
       matched |-> Cardinality(current \cap changed),
       without |-> Cardinality(current) - Cardinality(current \cap changed),
       binaryCurrent |-> Cardinality({f \in current : fields[f].binary > 0})]

-----------------------------------------------------------------------------
(* The comparison with declared dependencies is of the files both sides     *)
(* know, its bins hold every pair once, its list is sorted, and its         *)
(* percentiles are of that list.                                            *)
SupportRanked(source, analyzed, edges, directory) ==
  LET report == AnalyzeCochangeSupport(source, analyzed, edges, directory, 2)
      all == DOMAIN support.pairs
      listed == report.pairs
      tab == report.tab
  IN  /\ \A e \in all : e \subseteq source \cap analyzed
      /\ SumOver(DOMAIN tab, LAMBDA b : tab[b].mass) = accumulation.total
      /\ SumOver(DOMAIN tab, LAMBDA b : tab[b].pairs) = Cardinality(all)
      /\ \A i \in DOMAIN listed : \A e \in all \ {listed[j] : j \in 1..i} :
           ~RatioBelow(JaccardOf(listed[i]), JaccardOf(e))
      /\ \A m \in report.distribution.max, e \in MetOften : ~RatioBelow(m, JaccardOf(e))
      /\ \A l \in report.distribution.p50, h \in report.distribution.p90 : ~RatioBelow(h, l)
      /\ report.reverse.supported <= report.reverse.edges
      /\ report.staticOnly + report.cochangeOnly
           = Cardinality((source \cup analyzed) \ (source \cap analyzed))
      /\ report.never =
           Cardinality({f \in asked.universe :
             \A i \in DOMAIN asked.commits : f \notin DOMAIN asked.commits[i].files})

(* The join keeps every file of either side once, and what it says of a     *)
(* file's history is what the commits say.                                  *)
ProfileJoinCloses(commits, current, sloc) ==
  LET changed == UNION {DOMAIN commits[i].files : i \in DOMAIN commits}
      all == current \cup changed
      FieldsClose(fields) ==
        /\ SumOver(all, LAMBDA f : fields[f].touched)
             = SumOver(DOMAIN commits, LAMBDA i : Cardinality(DOMAIN commits[i].files))
        /\ \A f \in all :
             /\ fields[f].days <= fields[f].touched
             /\ (fields[f].status = "None") = (f \notin changed)
             /\ fields[f].text + fields[f].binary >= fields[f].touched
      Closes(profile) ==
        /\ profile.matched + profile.without = Cardinality(current)
        /\ profile.matched + Cardinality(DOMAIN profile.historyOnly) = Cardinality(changed)
        /\ FieldsClose([f \in all |-> IF f \in current THEN profile.rows[f].fields
                                      ELSE profile.historyOnly[f]])
  IN  Closes(AnalyzeChangeProfile(commits, current, sloc))
=============================================================================
