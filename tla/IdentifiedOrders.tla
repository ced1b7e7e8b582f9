-------------------------- MODULE IdentifiedOrders --------------------------
(* The comparison of two frontier profiles.  The plain one is a partial     *)
(* order and the conditions under which it is more than an observation      *)
(* (src/src/frontier/compare.rs).  The other holds whatever the unknown     *)
(* part of a signal is (src/src/frontier_identified.rs): a censored or      *)
(* gated signal stands for an interval, and the answer is every order that  *)
(* some choice of values inside the intervals induces.                      *)
EXTENDS FrontierSignals

(* Two numbers are the same within Absolute and Relative parts of Scale     *)
(* (10^-12 and 10^-9 in the code): a tolerance that grows with the numbers, *)
(* so that being the same is not transitive.                                *)
CONSTANTS Scale, Absolute, Relative
ASSUME ToleranceAssumption ==
  Scale \in Nat \ {0} /\ Absolute \in Nat /\ Relative \in 0..(Scale - 1)

Abs(v) == IF v < 0 THEN -v ELSE v

ApproximatelyEqual(l, r) ==
  Scale * Abs(l - r) <= Absolute + Relative * Max({Abs(l), Abs(r)})

(* Two signals that say the same thing about two artifacts.                 *)
Matching(l, r) ==
  \A field \in {"family", "polarity", "analyzer", "projection"} :
    l[field] = r[field]

OutcomeOf(l, r, polarity) ==
  IF ApproximatelyEqual(l, r) THEN "Equivalent"
  ELSE IF (polarity = "lower") = (r < l) THEN "RightBetter" ELSE "LeftBetter"

CompareSignal(l, r) ==
  IF ~ Matching(l, r) THEN "Incompatible"
  ELSE IF \/ l.status # "Observed" \/ r.status # "Observed"
          \/ l.value = {} \/ r.value = {}
  THEN "Unavailable"
  ELSE OutcomeOf(Max(l.value), Max(r.value), l.polarity)

(* The last signal of a name stands for it, and a name only one side has    *)
(* compares with nothing.                                                   *)
CompareSignalSets(left, right) ==
  LET Ids(signals) == {s.id : s \in Range(signals)}
      Of(signals, id) == signals[Max({i \in DOMAIN signals : signals[i].id = id})]
  IN  [id \in Ids(left) \cup Ids(right) |->
         IF id \in Ids(left) \cap Ids(right)
         THEN CompareSignal(Of(left, id), Of(right, id)) ELSE "Incompatible"]

Directions == {"RightBetter", "LeftBetter", "Equivalent"}

PartialOrder(outcomes) ==
  CASE outcomes = {} -> "NoComparableSignals"
    [] {"RightBetter", "LeftBetter"} \subseteq outcomes -> "Tradeoff"
    [] "RightBetter" \in outcomes /\ "LeftBetter" \notin outcomes ->
         "RightDominates"
    [] "LeftBetter" \in outcomes /\ "RightBetter" \notin outcomes ->
         "LeftDominates"
    [] OTHER -> "Equivalent"

ComparisonSlice(comparisons, ids) ==
  LET usable == {id \in Range(ids) : id \in DOMAIN comparisons
                                       /\ comparisons[id] \in Directions}
  IN  [complete |-> usable = Range(ids),
       order    |-> PartialOrder({comparisons[id] : id \in usable})]

CompareProfiles(left, right) ==
  LET comparisons == CompareSignalSets(left.signals, right.signals)
      overall     == ComparisonSlice(comparisons, SignalIds)
      registries  == ValidSignalRegistry(left) /\ ValidSignalRegistry(right)
      readiness   ==
        [schema   |-> left.schema = right.schema
                        /\ left.schema = "seval.frontier.v1",
         config   |-> CompatibleConfig(left.config, right.config),
         analyzers |-> CompatibleImplementations(left, right),
         pinned   |-> ArtifactIsPinned(left) /\ ArtifactIsPinned(right),
         complete |-> overall.complete /\ registries]
      qualified   == \A field \in DOMAIN readiness : readiness[field]
  IN  [readiness |-> readiness,
       qualified |-> qualified,
       order     |-> overall.order,
       qualified_order |-> IF qualified THEN {overall.order} ELSE {},
       families  |-> [i \in DOMAIN left.families |->
                        ComparisonSlice(comparisons, left.families[i][2])]]

-----------------------------------------------------------------------------
(* An interval [lower, upper]; upper = {} is no bound.                      *)
Interval(lower, upper) == [lower |-> lower, upper |-> upper]

Overlaps(a, b) ==
  /\ \A u \in b.upper : a.lower <= u
  /\ \A u \in a.upper : b.lower <= u

(* The interval a signal identifies, or none.                               *)
IntervalEvidence(s) ==
  LET usable == {v \in s.value : v >= 0}
  IN  CASE s.status = "Observed" -> {Interval(v, {v}) : v \in usable}
        [] s.status = "Censored" /\ s.id = CloneDensity ->
             {Interval(v, {}) : v \in usable}
        [] s.status = "InsufficientCoverage" /\ s.id = SymbolWorkingSet ->
             {Interval(v, {One}) : v \in {w \in usable : w <= One}}
        [] OTHER -> {}

StrictLessPossible(lower, upper) ==
  \A u \in upper : lower < u /\ ~ ApproximatelyEqual(lower, u)

EquivalentPossible(l, r) ==
  \/ Overlaps(l, r)
  \/ \E u \in l.upper : u < r.lower /\ ApproximatelyEqual(u, r.lower)
  \/ \E u \in r.upper : u < l.lower /\ ApproximatelyEqual(u, l.lower)

LocalPossibleOutcomes_AnyPolarity(l, r, polarity) ==
  (IF StrictLessPossible(r.lower, l.upper) THEN {"RightBetter"} ELSE {})
    \cup (IF StrictLessPossible(l.lower, r.upper) THEN {"LeftBetter"} ELSE {})
    \cup (IF EquivalentPossible(l, r) THEN {"Equivalent"} ELSE {})

LocalPossibleOutcomes(l, r, polarity) ==
  LET leftLess  == StrictLessPossible(l.lower, r.upper)
      rightLess == StrictLessPossible(r.lower, l.upper)
  IN  (IF polarity = "lower"
       THEN (IF rightLess THEN {"RightBetter"} ELSE {})
              \cup (IF leftLess THEN {"LeftBetter"} ELSE {})
       ELSE (IF leftLess THEN {"RightBetter"} ELSE {})
              \cup (IF rightLess THEN {"LeftBetter"} ELSE {}))
        \cup (IF EquivalentPossible(l, r) THEN {"Equivalent"} ELSE {})

PossibleOutcomes(l, r) ==
  UNION {LocalPossibleOutcomes(a, b, l.polarity) :
           a \in {x \in IntervalEvidence(l) : Matching(l, r) /\ l.id = r.id},
           b \in IntervalEvidence(r)}

(* By registered signal: what its intervals allow, and nothing where a side *)
(* has it not exactly once.                                                 *)
CompareSignalIntervals(left, right) ==
  LET Unique(p, id) ==
        {k \in DOMAIN p.signals :
           {j \in DOMAIN p.signals : p.signals[j].id = id} = {k}}
  IN  [i \in DOMAIN SignalIds |->
         UNION {PossibleOutcomes(left.signals[j], right.signals[k]) :
                  j \in Unique(left, SignalIds[i]), k \in Unique(right, SignalIds[i])}]

(* The directions seen so far, over all choices: a signal at a time.        *)
Extend(states, outcomes) ==
  {CASE o = "RightBetter" -> [st EXCEPT !.right = TRUE]
     [] o = "LeftBetter"  -> [st EXCEPT !.left = TRUE]
     [] OTHER             -> st : st \in states, o \in outcomes}

OrderOfDirections(st) ==
  CASE st.right /\ ~ st.left -> "RightDominates"
    [] ~ st.right /\ st.left -> "LeftDominates"
    [] st.right /\ st.left   -> "Tradeoff"
    [] OTHER                 -> "Equivalent"

DeriveSharpOrderSet(possible, registries) ==
  LET complete == registries /\ \A i \in DOMAIN possible : possible[i] # {}
      states   == FoldLeft(Extend, {[right |-> FALSE, left |-> FALSE]}, possible)
      orders   == IF complete THEN {OrderOfDirections(st) : st \in states} ELSE {}
      NotWorse(order) == orders # {} /\ orders \subseteq {order, "Equivalent"}
  IN  [complete  |-> complete,
       orders    |-> orders,
       necessary |-> IF Cardinality(orders) = 1 THEN orders ELSE {},
       right_not_worse |-> NotWorse("RightDominates"),
       left_not_worse  |-> NotWorse("LeftDominates")]

CompareIdentified(left, right) ==
  LET registries == ValidSignalRegistry(left) /\ ValidSignalRegistry(right)
      sharp == DeriveSharpOrderSet(CompareSignalIntervals(left, right), registries)
      base  == CompareProfiles(left, right)
      qualified == /\ \A field \in {"schema", "config", "analyzers", "pinned"} :
                        base.readiness[field]
                   /\ registries /\ sharp.complete
  IN  [base |-> base, sharp |-> sharp, qualified |-> qualified,
       qualified_necessary |-> IF qualified THEN sharp.necessary ELSE {}]

-----------------------------------------------------------------------------
(* What the identified comparison promises.                                 *)

(* The values a signal may really have, up to a bound above which nothing   *)
(* changes any more.                                                        *)
Attainable(s, top) ==
  UNION {a.lower .. (IF a.upper = {} THEN top ELSE Max(a.upper)) :
           a \in IntervalEvidence(s)}

(* The set of orders is sharp: an order is listed exactly when some choice  *)
(* of values, compared as two plain observations are, induces it.  Neither  *)
(* the bounds at the ends of the intervals, nor the tolerance, nor the fold *)
(* over six signals adds an order or loses one.                             *)
SharpSet(left, right, top) ==
  LET answer == CompareIdentified(left, right)
      Outcomes(i) ==
        {OutcomeOf(l, r, left.signals[i].polarity) :
           l \in Attainable(left.signals[i], top),
           r \in Attainable(right.signals[i], top)}
      choices == {f \in [1..6 -> Directions] : \A i \in 1..6 : f[i] \in Outcomes(i)}
  IN  answer.sharp.complete =>
        answer.sharp.orders = {PartialOrder(Range(f)) : f \in choices}

(* The two comparisons never contradict each other: an order the plain one  *)
(* qualifies is the one the identified one finds necessary, and seen from   *)
(* the other side every answer is the mirror image.                         *)
Mirror(order) ==
  CASE order = "RightDominates" -> "LeftDominates"
    [] order = "LeftDominates"  -> "RightDominates"
    [] OTHER                    -> order

ComparisonsAgree(left, right) ==
  LET there == CompareIdentified(left, right)
      back  == CompareIdentified(right, left)
  IN  /\ there.base.qualified =>
           /\ there.qualified
           /\ there.qualified_necessary = there.base.qualified_order
      /\ back.base.order = Mirror(there.base.order)
      /\ back.base.qualified_order = {Mirror(o) : o \in there.base.qualified_order}
      /\ back.qualified_necessary = {Mirror(o) : o \in there.qualified_necessary}
      /\ back.sharp.right_not_worse = there.sharp.left_not_worse
=============================================================================
