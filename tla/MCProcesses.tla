----------------------------- MODULE MCProcesses -----------------------------
(* The three ways the code runs another program: the worker of the service, *)
(* the git that answers for blobs, the program of a benchmark.  They share  *)
(* nothing, so each goes on while the two others have not begun.            *)
EXTENDS WorkerChild, BlobBatch, BenchmarkRun

VARIABLE subject  \* the one that goes on

processVars == <<vars, batchVars, benchVars, subject>>

Worker(A) == subject = "worker" /\ A /\ UNCHANGED <<batchVars, benchVars, subject>>
Batch(A) == subject = "batch" /\ A /\ UNCHANGED <<vars, benchVars, subject>>
Benchmark(A) == subject = "benchmark" /\ A /\ UNCHANGED <<vars, batchVars, subject>>

ProcessesInit ==
  /\ subject \in {"worker", "batch", "benchmark"}
  /\ Init /\ BatchInit /\ BenchInit
  /\ subject # "worker" => size = 0 /\ valid
  /\ subject # "batch" => sizes = <<>>

ProcessesNext ==
  \/ Worker(Next)
  \/ Batch(BatchNext)
  \/ Benchmark(BenchNext)

(* The fairness of each: see WorkerChild!Spec, BlobBatch!BatchFairness and  *)
(* BenchmarkRun!BenchFairness.                                              *)
ProcessesFairness ==
  /\ WF_processVars(Worker(Child))
  /\ WF_processVars(Worker(Collector))
  /\ WF_processVars(Worker(Parent))
  /\ WF_processVars(Batch(Writing))
  /\ WF_processVars(Batch(Git))
  /\ WF_processVars(Batch(Reading))
  /\ WF_processVars(Benchmark(Runner))
  /\ WF_processVars(Benchmark(Tick))

ProcessesSpec ==
  ProcessesInit /\ [][ProcessesNext]_processVars /\ ProcessesFairness

(* run_child returns and its collecting task ends, deadline or not          *)
(* (worker.rs).                                                             *)
WorkerEnds == subject = "worker" => EndsWithoutDeadline

(* read_committed_blobs returns, however little the pipes hold (repo.rs).   *)
BlobsEnd == subject = "batch" => BatchEnds

(* run_benchmark returns unless a descendant holds on or a program cannot   *)
(* be killed (benchmark.rs).                                                *)
BenchEnds == subject = "benchmark" => BenchmarkEnds
=============================================================================
