-------------------------- MODULE FrontierSignals --------------------------
(* The six directional signals of a frontier profile: how they are read out *)
(* of the reports of the four analyzers (src/src/frontier/signals.rs), and  *)
(* the contract a profile is held to before it is compared                  *)
(* (src/src/frontier_contract.rs).  The two are written twice in the code,  *)
(* by the side that produces a profile and by the side that trusts it.      *)
(*                                                                          *)
(* What may be absent is a set of at most one member.  A number is an       *)
(* integer that counts parts of One, so that a fraction is a number too;    *)
(* the unit and the JSON pointers of a signal are one value, its            *)
(* "projection", and its reason is only there or not.                       *)
EXTENDS Integers, Sequences, FiniteSets, SequencesExt

CONSTANT One
ASSUME OneAssumption == One \in Nat \ {0}

Analyzers == <<"shape", "symbols", "discipline", "duplicates">>

SymbolWorkingSet == "symbol-working-set"
CloneDensity     == "clone-density"

(* The table the contract checks against.                                   *)
SignalContracts ==
  LET Row(id, family, polarity, analyzer, bounded) ==
        [id |-> id, family |-> family, polarity |-> polarity,
         analyzer |-> analyzer, projection |-> id, bounded |-> bounded]
  IN  << Row("cognitive", "reader-load", "lower", "shape", FALSE),
         Row(SymbolWorkingSet, "reader-load", "lower", "symbols", TRUE),
         Row("shallow", "interface-depth", "lower", "shape", TRUE),
         Row("pure", "effect-locality", "higher", "discipline", TRUE),
         Row("mutable-range", "effect-locality", "lower", "discipline", FALSE),
         Row(CloneDensity, "uniformity", "lower", "duplicates", FALSE) >>

SignalIds == [i \in DOMAIN SignalContracts |-> SignalContracts[i].id]

FamilyContracts ==
  << <<"reader-load", <<"cognitive", SymbolWorkingSet>> >>,
     <<"interface-depth", <<"shallow">> >>,
     <<"effect-locality", <<"pure", "mutable-range">> >>,
     <<"uniformity", <<CloneDensity>> >> >>

-----------------------------------------------------------------------------
(* Projection: one signal from the report of its analyzer.                  *)

Signal(id, family, polarity, analyzer, status, value, numerator, denominator) ==
  [id |-> id, family |-> family, polarity |-> polarity, analyzer |-> analyzer,
   projection |-> id, status |-> status, value |-> value,
   numerator |-> numerator, denominator |-> denominator,
   reason |-> status # "Observed"]

(* A quotient where both parts are there and the divisor is above zero.     *)
Quotient(numerator, denominator) ==
  {(n * One) \div d : n \in numerator, d \in {e \in denominator : e > 0}}

(* A value the analyzer computed, with the count that supports it.          *)
ScalarOf(report) ==
  [status |-> IF report.value = {} \/ ~ \E d \in report.denominator : d > 0
              THEN "Missing" ELSE "Observed",
   value |-> report.value, numerator |-> {}, denominator |-> report.denominator]

(* A fraction the projection computes.                                      *)
RatioOf(report) ==
  LET value == Quotient(report.numerator, report.denominator)
  IN  [status |-> IF value = {} THEN "Missing" ELSE "Observed",
       value |-> value, numerator |-> report.numerator,
       denominator |-> report.denominator]

WorkingSetOf_GatesFirst(report, config) ==
  LET others == {n - 1 : n \in {k \in report.nodes : k >= 2}}
      value  == Quotient(report.p90, others)
      gated  == \A r \in report.resolution : r < config.gate
  IN  [status |-> IF gated THEN "InsufficientCoverage"
                  ELSE IF value = {} THEN "Missing" ELSE "Observed",
       value |-> value, numerator |-> report.p90, denominator |-> others]

(* The tail of the reachable sets over the other nodes; below the coverage  *)
(* gate the value stays to be seen but decides nothing.                     *)
WorkingSetOf(report, config) ==
  LET others == {n - 1 : n \in {k \in report.nodes : k >= 2}}
      value  == Quotient(report.p90, others)
      absent == value = {} \/ report.sampled \subseteq {0}
      gated  == \A r \in report.resolution : r < config.gate
  IN  [status |-> IF absent THEN "Missing"
                  ELSE IF gated THEN "InsufficientCoverage" ELSE "Observed",
       value |-> value, numerator |-> report.p90, denominator |-> others]

(* Clone mass over considered tokens: at the cap on groups it is a lower    *)
(* bound.                                                                   *)
CloneDensityOf(report, config) ==
  LET value  == Quotient(report.numerator, report.denominator)
      Or(option, default) == IF option = {} THEN default ELSE Max(option)
      capped == Or(report.groups, 0) >= Or(report.cap, config.max_groups)
  IN  [status |-> IF value = {} THEN "Missing"
                  ELSE IF capped THEN "Censored" ELSE "Observed",
       value |-> value, numerator |-> report.numerator,
       denominator |-> report.denominator]

(* What an analyzer may report: a number it found, or none; parts that are  *)
(* not more than their whole.                                               *)
Given(o) == o \subseteq Nat /\ \A x, y \in o : x = y

ValidReports(reports) ==
  /\ DOMAIN reports.numbers = Range(SignalIds)
  /\ \A id \in {"cognitive", "pure", "mutable-range"} :
       /\ Given(reports.numbers[id].value) /\ Given(reports.numbers[id].denominator)
       /\ id = "pure" => \A v \in reports.numbers[id].value : v <= One
  /\ \A id \in {"shallow", CloneDensity} :
       /\ Given(reports.numbers[id].numerator) /\ Given(reports.numbers[id].denominator)
       /\ id = "shallow" => \A n \in reports.numbers[id].numerator,
                              d \in reports.numbers[id].denominator : n <= d
  /\ LET symbols == reports.numbers[SymbolWorkingSet]
     IN  /\ Given(symbols.p90) /\ Given(symbols.nodes)
         /\ \A p \in symbols.p90, n \in symbols.nodes : p <= n /\ (p = n => n = 0)

Failed == [status |-> "SourceFailed", value |-> {}, numerator |-> {},
           denominator |-> {}]

(* reports: the analyzers that delivered one, and the numbers each signal    *)
(* takes from them.                                                         *)
Project(reports, config) ==
  LET Read(id, analyzer, Of(_)) ==
        IF analyzer \in reports.delivered THEN Of(reports.numbers[id]) ELSE Failed
      Full(id, family, polarity, analyzer, s) ==
        Signal(id, family, polarity, analyzer, s.status, s.value, s.numerator,
               s.denominator)
      WorkingSet(r) == WorkingSetOf(r, config)
      Clones(r)     == CloneDensityOf(r, config)
  IN << Full("cognitive", "reader-load", "lower", "shape",
             Read("cognitive", "shape", ScalarOf)),
        Full(SymbolWorkingSet, "reader-load", "lower", "symbols",
             Read(SymbolWorkingSet, "symbols", WorkingSet)),
        Full("shallow", "interface-depth", "lower", "shape",
             Read("shallow", "shape", RatioOf)),
        Full("pure", "effect-locality", "higher", "discipline",
             Read("pure", "discipline", ScalarOf)),
        Full("mutable-range", "effect-locality", "lower", "discipline",
             Read("mutable-range", "discipline", ScalarOf)),
        Full(CloneDensity, "uniformity", "lower", "duplicates",
             Read(CloneDensity, "duplicates", Clones)) >>

Families ==
  << <<"reader-load", SubSeq(SignalIds, 1, 2)>>,
     <<"interface-depth", SubSeq(SignalIds, 3, 3)>>,
     <<"effect-locality", SubSeq(SignalIds, 4, 5)>>,
     <<"uniformity", SubSeq(SignalIds, 6, 6)>> >>

Coverage(signals) ==
  LET unusable == SelectSeq(signals, LAMBDA s : s.status # "Observed")
  IN  [declared |-> Len(SignalIds),
       observed |-> Len(SignalIds) - Len(unusable),
       unusable |-> [i \in DOMAIN unusable |-> unusable[i].id]]

-----------------------------------------------------------------------------
(* The contract.                                                            *)

ValidValues(s, c) ==
  /\ \A v \in s.value \cup s.numerator \cup s.denominator : v >= 0
  /\ c.bounded => \A v \in s.value : v <= One

ValidStatus(s) ==
  LET supported == s.value # {} /\ \E d \in s.denominator : d > 0
  IN  CASE s.status = "Observed" -> supported /\ ~ s.reason
        [] s.status = "Censored" ->
             s.id = CloneDensity /\ supported /\ s.reason
        [] s.status = "InsufficientCoverage" ->
             s.id = SymbolWorkingSet /\ supported /\ s.reason
        [] s.status = "Missing" -> s.reason
        [] s.status = "SourceFailed" ->
             s.value \cup s.numerator \cup s.denominator = {} /\ s.reason

ValidSignalContract(s, c) ==
  /\ \A field \in {"id", "family", "polarity", "analyzer", "projection"} :
       s[field] = c[field]
  /\ ValidValues(s, c)
  /\ ValidStatus(s)

ValidCoverageLedger(profile) ==
  profile.coverage =
    LET unusable == SelectSeq(profile.signals, LAMBDA s : s.status # "Observed")
    IN  [declared |-> Len(SignalContracts),
         observed |-> Len(SignalContracts) - Len(unusable),
         unusable |-> [i \in DOMAIN unusable |-> unusable[i].id]]

ValidSignalRegistry(profile) ==
  /\ Len(profile.signals) = Len(SignalContracts)
  /\ \A i \in DOMAIN profile.signals :
       ValidSignalContract(profile.signals[i], SignalContracts[i])
  /\ profile.families = FamilyContracts
  /\ ValidCoverageLedger(profile)

ValidConfig(config) ==
  /\ config.min_tokens > 0 /\ config.min_lines > 0 /\ config.max_groups > 0
  /\ config.gate \in 0..One

CompatibleConfig(left, right) ==
  ValidConfig(left) /\ ValidConfig(right) /\ left = right

(* The implementation of an analyzer that delivered, or none.               *)
CompleteImplementation(profile, analyzer) ==
  {e.implementation :
     e \in {f \in Range(profile.analyzers) :
              f.id = analyzer /\ f.status = "Complete" /\ f.digested
                /\ f.implementation # ""}}

ValidAnalyzerRegistry(profile) ==
  [i \in DOMAIN profile.analyzers |-> profile.analyzers[i].id] = Analyzers

CompatibleImplementations(left, right) ==
  /\ ValidAnalyzerRegistry(left)
  /\ ValidAnalyzerRegistry(right)
  /\ \A a \in Range(Analyzers) :
       LET l == CompleteImplementation(left, a)
       IN  l # {} /\ l = CompleteImplementation(right, a)

(* A Git identity: the lengths of its two object names, or 0 for a name     *)
(* that is not one.                                                         *)
ArtifactIsPinned(profile) ==
  \E git \in profile.artifact.git :
    /\ ~ profile.artifact.identity_error
    /\ git.kind = "git-repository" /\ git.absolute
    /\ git.revision \in {40, 64} /\ git.tree = git.revision

-----------------------------------------------------------------------------
(* A profile as profile_path puts it together: an analyzer that delivered   *)
(* has complete evidence, and another one none.                             *)
Profile(reports, config, implementation, artifact) ==
  LET signals == Project(reports, config)
      Evidence(a) ==
        IF a \in reports.delivered
        THEN [id |-> a, status |-> "Complete", digested |-> TRUE,
              implementation |-> implementation]
        ELSE [id |-> a, status |-> "Failed", digested |-> FALSE,
              implementation |-> ""]
  IN  [schema |-> "seval.frontier.v1", config |-> config, artifact |-> artifact,
       analyzers |-> [i \in DOMAIN Analyzers |-> Evidence(Analyzers[i])],
       signals |-> signals, families |-> Families,
       coverage |-> Coverage(signals)]

(* The producer keeps the contract of the consumer: whatever the analyzers  *)
(* count and whichever of them fail, the profile passes the checks that let *)
(* it be compared.  A profile this program wrote and then refused would     *)
(* block every comparison of that repository.                               *)
ProjectionMeetsContract(profile) ==
  /\ ValidSignalRegistry(profile)
  /\ ValidAnalyzerRegistry(profile)
  /\ \A s \in Range(profile.signals) :
       s.status = "SourceFailed" <=> CompleteImplementation(profile, s.analyzer) = {}
=============================================================================
