------------------------------- MODULE MCCalls -------------------------------
(* The calls that go on by themselves: the three that run another program,  *)
(* the download and extraction of an archive, a pipeline of criterion       *)
(* programs.  They share nothing, so each goes on while the others have not *)
(* begun.                                                                   *)
EXTENDS MCProcesses, MCArchiveExtract, MCCriterionPipeline

callsVars == <<processVars, archiveVars, pipelineVars>>

Process(A) == A /\ UNCHANGED <<archiveVars, pipelineVars>>
Archive(A) == subject = "archive" /\ A /\ UNCHANGED <<processVars, pipelineVars>>
Pipeline(A) == subject = "pipeline" /\ A /\ UNCHANGED <<processVars, archiveVars>>

(* The input of a call that does not begin is one of them.                  *)
CallsInit ==
  /\ \/ ProcessesInit
     \/ /\ subject \in {"archive", "pipeline"}
        /\ Init /\ BatchInit /\ BenchInit /\ size = 0 /\ valid /\ sizes = <<>>
  /\ ExtractInit
  /\ subject # "archive" => sent = 0 /\ ~announced
  /\ PipelineInit
  /\ subject # "pipeline" =>
       /\ programs = 0 /\ unnamed = "nothing" /\ decision = <<>>
       /\ budget = Use(1, 2, 2) /\ prior = Belief({}, 0)

(* Whether a process stops short of its end is a question of its liveness,  *)
(* whether an extraction or a pipeline does is one of deadlock.             *)
Halted ==
  subject \in {"worker", "batch", "benchmark"} /\ UNCHANGED callsVars

CallsNext ==
  \/ Process(ProcessesNext)
  \/ Archive(ExtractNext)
  \/ Pipeline(PipelineNext)
  \/ Halted

CallsSpec == CallsInit /\ [][CallsNext]_callsVars /\ ProcessesFairness
=============================================================================
