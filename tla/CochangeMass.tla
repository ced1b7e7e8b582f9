---------------------------- MODULE CochangeMass ----------------------------
(* The mass that commits spread over pairs of files: the loop over a        *)
(* history (accumulate, src/src/cochange.rs), and the two analyses that go  *)
(* through the commits it keeps, one at a time: how a partition of files    *)
(* cuts the mass (PartitionAccumulator) and what pairs of files have in     *)
(* common (analyze_cochange_support, src/src/cochange_support.rs).          *)
(*                                                                          *)
(* Files are numbers.  A history is a sequence of commits, each with its    *)
(* time and its files.  Sums are exact, so that no checked_add fails; each  *)
(* check that the code makes of its own sums is an error it may end with.   *)
EXTENDS Integers, Sequences, FiniteSets, Functions

CONSTANTS
  WeightScale,     \* WEIGHT_SCALE, the mass a commit spreads over its pairs
  BroadCommitCap,  \* BROAD_COMMIT_CAP, the files of a commit that still counts
  MassInputs       \* histories to analyze

ASSUME WeightAssumption ==
  WeightScale \in Nat \ {0} /\ BroadCommitCap \in Nat \ {0, 1}

(* The files of the universe are finitely many; commits may have others.    *)
ASSUME HistoriesAssumption ==
  \A h \in MassInputs :
    /\ IsFiniteSet(h.universe)
    /\ DOMAIN h.community = h.universe
    /\ h.analysis \in {"layout", "support"}
    /\ Len(h.commits) \in Nat /\ DOMAIN h.commits = 1..Len(h.commits)

VARIABLES
  asked,         \* commits, universe, the community of each file, the analysis
  stage,         \* reading, then the analysis, then how it ended
  accumulation,  \* what the loop over the history has
  folded,        \* the kept commits that the analysis is past
  cut,           \* the partition: mass within communities, and incident to them
  support        \* the commits of each file, and the history of each pair

massVars == <<asked, stage, accumulation, folded, cut, support>>

Half(n) == (n * (n - 1)) \div 2

UnorderedPairs(S) == {e \in SUBSET S : Cardinality(e) = 2}

-----------------------------------------------------------------------------
(* The loop over the history.  A commit is told by the files of the         *)
(* universe in it: fewer than two make no pair, too many say nothing of any.*)

Members(commit) == DOMAIN commit.files \cap asked.universe

Disposition(members) ==
  LET k == Cardinality(members)
  IN  CASE k < 2 -> "BelowPairThreshold"
        [] k > BroadCommitCap -> "Broad"
        [] OTHER -> "Eligible"

(* Shares are cut off, so that some of a commit's mass is lost.             *)
UnitMass(members) == WeightScale \div Half(Cardinality(members))

Spanned(span, time) ==
  LET times == span \cup {time}
  IN  {t \in times : (\A u \in times : t <= u) \/ (\A u \in times : u <= t)}

Tallied(acc, members) ==
  LET kind == Disposition(members)
      unit == UnitMass(members)
  IN  CASE kind = "BelowPairThreshold" -> [acc EXCEPT !.below = @ + 1]
        [] kind = "Broad" -> [acc EXCEPT !.broad = @ + 1]
        [] kind = "Eligible" ->
             [acc EXCEPT !.total = @ + unit * Half(Cardinality(members)),
                         !.ideal = @ + WeightScale,
                         !.eligible = Append(@, [members |-> members, unit |-> unit])]

ReadCommit ==
  /\ stage = "reading" /\ accumulation.read < Len(asked.commits)
  /\ LET commit == asked.commits[accumulation.read + 1]
         seen == [accumulation EXCEPT !.read = @ + 1,
                                      !.span = Spanned(@, commit.time),
                                      !.touched = @ \cup Members(commit)]
     IN  accumulation' = Tallied(seen, Members(commit))
  /\ UNCHANGED <<asked, stage, folded, cut, support>>

(* "commit disposition counts do not close to the streamed total"           *)
DispositionsClose ==
  Len(accumulation.eligible) + accumulation.broad + accumulation.below = Len(asked.commits)

EndHistory ==
  /\ stage = "reading" /\ accumulation.read = Len(asked.commits)
  /\ stage' = IF DispositionsClose THEN asked.analysis ELSE "invariant"
  /\ UNCHANGED <<asked, accumulation, folded, cut, support>>

-----------------------------------------------------------------------------
(* How a partition cuts the mass.  A community's strength counts each pair  *)
(* within it twice and each that crosses its border once.                   *)

Directories == {asked.community[f] : f \in asked.universe}

FilesOf(c) == {f \in asked.universe : asked.community[f] = c}

StrengthOf_WithinOnly(n, k) == n * (n - 1)

StrengthOf(n, k) == n * (k - 1)

NextCommit == accumulation.eligible[folded + 1]

AddCommit ==
  /\ stage = "layout" /\ folded < Len(accumulation.eligible)
  /\ LET k == Cardinality(NextCommit.members)
         Count(c) == Cardinality(NextCommit.members \cap FilesOf(c))
         Inside(c) == NextCommit.unit * Half(Count(c))
     IN  cut' =
           [masses |-> [c \in Directories |->
              [intra |-> cut.masses[c].intra + Inside(c),
               strength |-> cut.masses[c].strength
                              + NextCommit.unit * StrengthOf(Count(c), k)]],
            intra |-> cut.intra + SumFunction([c \in Directories |-> Inside(c)])]
  /\ folded' = folded + 1
  /\ UNCHANGED <<asked, stage, accumulation, support>>

Cross == accumulation.total - cut.intra

Crossing(c) == cut.masses[c].strength - 2 * cut.masses[c].intra

ModularityNumerator ==
  SumFunction([c \in Directories |->
    4 * accumulation.total * cut.masses[c].intra
      - cut.masses[c].strength * cut.masses[c].strength])

(* "intra mass exceeded total", "strength was below twice its intra mass"   *)
PartitionCloses == Cross >= 0 /\ \A c \in Directories : Crossing(c) >= 0

FinishPartition ==
  /\ stage = "layout" /\ folded = Len(accumulation.eligible)
  /\ stage' = IF PartitionCloses THEN "partitioned" ELSE "invariant"
  /\ UNCHANGED <<asked, accumulation, folded, cut, support>>

-----------------------------------------------------------------------------
(* The mass and the number of commits of each pair that changed together.   *)

NoHistory == [mass |-> 0, cooccurrence |-> 0]

AddPairs ==
  /\ stage = "support" /\ folded < Len(accumulation.eligible)
  /\ LET pairs == support.pairs
         Before(e) == IF e \in DOMAIN pairs THEN pairs[e] ELSE NoHistory
         After(e) == [mass |-> Before(e).mass + NextCommit.unit,
                      cooccurrence |-> Before(e).cooccurrence + 1]
         added == UnorderedPairs(NextCommit.members)
     IN  support' =
           [commits |-> [f \in asked.universe |->
                           support.commits[f] + IF f \in NextCommit.members THEN 1 ELSE 0],
            pairs |-> [e \in DOMAIN pairs \cup added |->
                         IF e \in added THEN After(e) ELSE pairs[e]]]
  /\ folded' = folded + 1
  /\ UNCHANGED <<asked, stage, accumulation, cut>>

(* Of the commits either file is in, the share that has both.               *)
JaccardOf(e) ==
  LET both == support.pairs[e].cooccurrence
  IN  <<both, SumFunction([f \in e |-> support.commits[f]]) - both>>

(* "pair masses did not close to total intersected mass", "Jaccard union    *)
(* count overflowed or underflowed"                                         *)
PairsClose ==
  /\ SumFunction([e \in DOMAIN support.pairs |-> support.pairs[e].mass]) = accumulation.total
  /\ \A e \in DOMAIN support.pairs : JaccardOf(e)[2] >= 0

FinishPairs ==
  /\ stage = "support" /\ folded = Len(accumulation.eligible)
  /\ stage' = IF PairsClose THEN "supported" ELSE "invariant"
  /\ UNCHANGED <<asked, accumulation, folded, cut, support>>

-----------------------------------------------------------------------------
MassInit(inputs) ==
  /\ asked \in inputs
  /\ stage = "reading"
  /\ accumulation = [read |-> 0, eligible |-> <<>>, total |-> 0, ideal |-> 0,
                     broad |-> 0, below |-> 0, touched |-> {}, span |-> {}]
  /\ folded = 0
  /\ cut = [masses |-> [c \in Directories |-> [intra |-> 0, strength |-> 0]], intra |-> 0]
  /\ support = [commits |-> [f \in asked.universe |-> 0], pairs |-> <<>>]

MassNext ==
  ReadCommit \/ EndHistory \/ AddCommit \/ FinishPartition \/ AddPairs \/ FinishPairs

MassSpec == MassInit(MassInputs) /\ [][MassNext]_massVars

-----------------------------------------------------------------------------
(* What a history says, without the loop: every commit of two files or more *)
(* that is not too broad gives each of its pairs an equal share.            *)

Telling ==
  {i \in 1..Len(asked.commits) :
     Cardinality(Members(asked.commits[i])) \in 2..BroadCommitCap}

Sharing(e) == {i \in Telling : e \subseteq Members(asked.commits[i])}

MassOf(e) == SumFunction([i \in Sharing(e) |-> UnitMass(Members(asked.commits[i]))])

MassOfAll(E) == SumFunction([e \in E |-> MassOf(e)])

AllPairs == UnorderedPairs(asked.universe)

(* Nothing is lost but what cutting off shares loses, less than one unit    *)
(* for each pair of a commit.                                               *)
LossBounded ==
  /\ accumulation.total = MassOfAll(AllPairs)
  /\ accumulation.ideal = WeightScale * Cardinality(Telling)
  /\ LET lost == accumulation.ideal - accumulation.total
         pairs == SumFunction([i \in Telling |->
                     Half(Cardinality(Members(asked.commits[i])))])
     IN  0 <= lost /\ lost + Cardinality(Telling) <= pairs

(* The cut is that of the graph whose edges are the pairs, and so is the    *)
(* modularity.                                                              *)
PairsWithin(c) == {e \in AllPairs : e \subseteq FilesOf(c)}

PairsLeaving(c) == {e \in AllPairs : e \cap FilesOf(c) # {} /\ ~(e \subseteq FilesOf(c))}

PairsDivided == {e \in AllPairs : \A c \in Directories : ~(e \subseteq FilesOf(c))}

DegreeOf(c) == 2 * MassOfAll(PairsWithin(c)) + MassOfAll(PairsLeaving(c))

CutTrue ==
  /\ \A c \in Directories :
       cut.masses[c].intra = MassOfAll(PairsWithin(c)) /\ Crossing(c) = MassOfAll(PairsLeaving(c))
  /\ Cross = MassOfAll(PairsDivided)
  /\ SumFunction([c \in Directories |-> Crossing(c)]) = 2 * Cross
  /\ ModularityNumerator =
       SumFunction([c \in Directories |->
         4 * MassOfAll(AllPairs) * MassOfAll(PairsWithin(c)) - DegreeOf(c) * DegreeOf(c)])

(* Each pair of files that ever changed together is there, with all of its  *)
(* commits, and none other.                                                 *)
PairsTrue ==
  /\ DOMAIN support.pairs = {e \in AllPairs : Sharing(e) # {}}
  /\ \A e \in DOMAIN support.pairs :
       /\ support.pairs[e].mass = MassOf(e)
       /\ support.pairs[e].cooccurrence = Cardinality(Sharing(e))
       /\ JaccardOf(e)[1] \in 1..JaccardOf(e)[2]
       /\ JaccardOf(e)[2] =
            Cardinality({i \in Telling : e \cap Members(asked.commits[i]) # {}})

(* Mass is neither made nor lost but by cutting off shares: none of the     *)
(* checks the analyses make of their own sums can fail, and what they       *)
(* report, computed a commit at a time, is what the whole history says      *)
(* (accumulate, add_commit, finish and analyze_cochange_support).           *)
MassKept ==
  /\ stage # "invariant"
  /\ stage # "reading" => LossBounded
  /\ stage = "partitioned" => CutTrue
  /\ stage = "supported" => PairsTrue
=============================================================================
