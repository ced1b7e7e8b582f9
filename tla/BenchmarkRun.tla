---------------------------- MODULE BenchmarkRun ----------------------------
(* A benchmark: a program run again and again, one run at a time, each      *)
(* under a deadline and with its output captured (run_benchmark, run_once,  *)
(* src/src/benchmark.rs).                                                   *)
EXTENDS Integers, Sequences, FiniteSets, SequencesExt

CONSTANTS
  WarmupRuns,    \* runs that are not measured
  MeasuredRuns,  \* runs that are
  TimeLimit,     \* the deadline of a run, in ticks of the clock
  LongestRun,    \* bound on what the clock shows of a run
  MaxProduced    \* bound on the output of a run

ASSUME SpecAssumption ==
  /\ WarmupRuns \in Nat /\ MeasuredRuns \in Nat \ {0} /\ TimeLimit \in Nat \ {0}
  /\ LongestRun \in Nat /\ LongestRun >= TimeLimit

VARIABLES
  attestations, \* of the runs that are over, warmups first
  phase,        \* "spawning", "polling", "comparing", "killing", "waiting",
                \* "joining" or "reported"
  clock,        \* since the run began, until its program was found ended
  program,      \* "none", "running", or how it ended: with status "0" or "1",
                \* of a "signal" of its own, or "killed" by the benchmark
  holders,      \* who has the program's output open
  produced,     \* how much they have produced
  captured,     \* how much of it has been read
  run           \* what is known of the run

benchVars == <<attestations, phase, clock, program, holders, produced, captured, run>>

Runs == WarmupRuns + MeasuredRuns

BenchInit ==
  /\ attestations = <<>> /\ phase = "spawning" /\ clock = 0
  /\ program = "none" /\ holders = {} /\ produced = 0 /\ captured = 0
  /\ run = <<>>

After(list) == IF Len(list) = Runs THEN "reported" ELSE "spawning"

-----------------------------------------------------------------------------
(* The program, which may leave a descendant behind with its output open.   *)

Produce ==
  /\ holders # {} /\ produced < MaxProduced
  /\ produced' = produced + 1
  /\ UNCHANGED <<attestations, phase, clock, program, holders, captured, run>>

Fork ==
  /\ program = "running"
  /\ holders' = holders \cup {"descendant"}
  /\ UNCHANGED <<attestations, phase, clock, program, produced, captured, run>>

ProgramExits ==
  /\ program = "running"
  /\ program' \in {"0", "1", "signal"} /\ holders' = holders \ {"program"}
  /\ UNCHANGED <<attestations, phase, clock, produced, captured, run>>

DescendantExits ==
  /\ "descendant" \in holders
  /\ holders' = holders \ {"descendant"}
  /\ UNCHANGED <<attestations, phase, clock, program, produced, captured, run>>

-----------------------------------------------------------------------------
(* run_once.                                                                *)

Spawn ==
  /\ phase = "spawning"
  /\ produced' = 0 /\ captured' = 0
  /\ UNCHANGED <<clock, run>>
  /\ \/ /\ program' = "running" /\ holders' = {"program"} /\ phase' = "polling"
        /\ UNCHANGED attestations
     \/ /\ attestations' = Append(attestations,
             [success |-> FALSE, timed |-> FALSE, terminated |-> FALSE, elapsed |-> 0,
              ended |-> "none"])
        /\ phase' = After(attestations')
        /\ program' = "none" /\ holders' = {}

(* Time passes while the runner sleeps, polls or waits.                     *)
Tick ==
  /\ phase \in {"polling", "comparing", "waiting"}
  /\ clock < LongestRun
  /\ clock' = clock + 1
  /\ UNCHANGED <<attestations, phase, program, holders, produced, captured, run>>

Capture ==
  /\ captured < produced
  /\ captured' = captured + 1
  /\ UNCHANGED <<attestations, phase, clock, program, holders, produced, run>>

Known(timed) ==
  [timed |-> timed, terminated |-> FALSE, waited |-> TRUE]

(* A program found ended has made it, however late it is found.             *)
FindEnded ==
  /\ phase = "polling" /\ program # "running"
  /\ run' = Known(FALSE) /\ phase' = "joining"
  /\ UNCHANGED <<attestations, clock, program, holders, produced, captured>>

(* It may end before the clock is looked at.                                *)
FindRunning ==
  /\ phase = "polling" /\ program = "running"
  /\ phase' = "comparing"
  /\ UNCHANGED <<attestations, clock, program, holders, produced, captured, run>>

InTime ==
  /\ phase = "comparing" /\ clock < TimeLimit
  /\ phase' = "polling"
  /\ UNCHANGED <<attestations, clock, program, holders, produced, captured, run>>

FindLate ==
  /\ phase = "comparing" /\ clock >= TimeLimit
  /\ run' = Known(TRUE) /\ phase' = "killing"
  /\ UNCHANGED <<attestations, clock, program, holders, produced, captured>>

(* The program cannot be asked about; it is killed as a late one is.        *)
PollFails ==
  /\ phase = "polling"
  /\ run' = Known(FALSE) /\ phase' = "killing"
  /\ UNCHANGED <<attestations, clock, program, holders, produced, captured>>

(* Not killed, only given up.                                               *)
KillBench_Detaches ==
  /\ phase = "killing"
  /\ phase' = "joining"
  /\ UNCHANGED <<attestations, clock, program, holders, produced, captured, run>>

(* The signal may be refused, which is only recorded, and the program may   *)
(* have ended since, and then it keeps its own status.                      *)
KillBench ==
  /\ phase = "killing"
  /\ \E sent \in BOOLEAN :
       /\ run' = [run EXCEPT !.terminated = sent]
       /\ IF sent /\ program = "running"
          THEN program' = "killed" /\ holders' = holders \ {"program"}
          ELSE UNCHANGED <<program, holders>>
  /\ phase' = "waiting"
  /\ UNCHANGED <<attestations, clock, produced, captured>>

(* The wait has no bound; if it fails, no status is known.                  *)
WaitBench ==
  /\ phase = "waiting" /\ program # "running"
  /\ \E waited \in BOOLEAN : run' = [run EXCEPT !.waited = waited]
  /\ phase' = "joining"
  /\ UNCHANGED <<attestations, clock, program, holders, produced, captured>>

Success == ~run.timed /\ run.waited /\ program = "0"

Attest(closed) ==
  /\ phase = "joining" /\ closed
  /\ attestations' = Append(attestations,
       [success |-> Success, timed |-> run.timed, terminated |-> run.terminated,
        elapsed |-> clock, ended |-> program])
  /\ phase' = After(attestations')
  /\ clock' = 0 /\ run' = <<>>
  /\ UNCHANGED <<program, holders, produced, captured>>

(* As soon as the program is gone.                                          *)
JoinCapture_OfProgramAlone == Attest("program" \notin holders)

(* The output is all there when everyone who had it open has closed it.     *)
JoinCapture == Attest(holders = {} /\ captured = produced)

Program == Produce \/ Fork \/ ProgramExits
Runner == Spawn \/ Capture \/ FindEnded \/ FindRunning \/ InTime \/ FindLate
            \/ KillBench \/ WaitBench \/ JoinCapture

BenchNext == Program \/ DescendantExits \/ Tick \/ Runner \/ PollFails

BenchSpec == BenchInit /\ [][BenchNext]_benchVars

(* The runner goes on and time passes; nothing is assumed of the program or *)
(* of what it leaves behind.                                                *)
BenchFairness == WF_benchVars(Runner) /\ WF_benchVars(Tick)

-----------------------------------------------------------------------------
(* The distribution of the measured runs after the first.                   *)

(* The k-th value is the one that comes k-th, in ascending order and of     *)
(* equal ones the first first.                                              *)
Place(values, i) ==
  Cardinality({j \in DOMAIN values : \/ values[j] < values[i]
                                     \/ values[j] = values[i] /\ j <= i})

Sorted(values) ==
  [k \in DOMAIN values |->
     values[CHOOSE i \in DOMAIN values : Place(values, i) = k]]

NearestRankOf(sorted, percentile) ==
  IF sorted = <<>> THEN {}
  ELSE {sorted[IF percentile = 0 THEN 1 ELSE (percentile * Len(sorted) + 99) \div 100]}

Sum(values) == FoldSeq(+, 0, values)

(* Quotients and remainders apart, so that no sum is too large.             *)
IntegerMean(values) ==
  LET n == Len(values)
      quotients == [k \in DOMAIN values |-> values[k] \div n]
      remainders == [k \in DOMAIN values |-> values[k] % n]
  IN  IF n = 0 THEN {} ELSE {Sum(quotients) + (Sum(remainders) \div n)}

LatencyDistribution(latencies) ==
  LET values == Sorted(latencies)
  IN  [count |-> Len(values), p50 |-> NearestRankOf(values, 50),
       p95 |-> NearestRankOf(values, 95), p99 |-> NearestRankOf(values, 99),
       mean |-> IntegerMean(values)]

(* Of all measured runs but the first, whatever became of them.             *)
Warmed == SubSeq(attestations, WarmupRuns + 2, Len(attestations))

Latencies == [i \in DOMAIN Warmed |-> Warmed[i].elapsed]

Successful == \A i \in DOMAIN attestations : attestations[i].success

-----------------------------------------------------------------------------
(* A run has the machine to itself, for whoever ran before it and had its   *)
(* output open has ended; a success is a program that ended well by itself, *)
(* with all of its output, and in time as far as the poll could tell; one   *)
(* that is called late was; a death at the benchmark's hand is never taken  *)
(* for the program's own; and the distribution is of every warmed run, slow *)
(* and failed ones as well.                                                 *)
AttestationsHonest ==
  LET d == LatencyDistribution(Latencies)
      Below(v) == Cardinality({i \in DOMAIN Latencies : Latencies[i] <= v})
  IN  /\ phase = "spawning" => program # "running" /\ holders = {}
      /\ \A i \in DOMAIN attestations :
           LET a == attestations[i]
           IN  /\ a.success => a.ended = "0" /\ ~a.timed
               /\ a.timed => a.elapsed >= TimeLimit
               /\ a.ended = "killed" => a.terminated
      /\ phase \in {"spawning", "reported"} =>
           captured = produced
      /\ phase = "reported" =>
           /\ d.count = MeasuredRuns - 1
           /\ \A v \in d.p50 : 100 * Below(v) >= 50 * d.count
           /\ \A v \in d.p95 : 100 * Below(v) >= 95 * d.count
           /\ \A v \in d.p99 : 100 * Below(v) >= 99 * d.count
           /\ \A m \in d.mean : m * d.count <= Sum(Latencies)
                                /\ Sum(Latencies) < (m + 1) * d.count

(* Every benchmark ends, even of a program that never does, except where    *)
(* the deadline does not reach: a descendant with the output open keeps the *)
(* captures waiting (docs/canonicality.md:51), and a program that could not *)
(* be killed the wait for its end.                                          *)
BenchmarkEnds ==
  \/ <>(phase = "reported")
  \/ <>[](phase = "joining" /\ "descendant" \in holders)
  \/ <>[](phase = "waiting" /\ program = "running" /\ ~run.terminated)
=============================================================================
