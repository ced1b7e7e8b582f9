------------------------- MODULE CriterionPipeline -------------------------
(***************************************************************************)
(* evaluate_pipeline: criterion programs are evaluated one after another   *)
(* against the beliefs and the resources the earlier ones left.            *)
(*                                                                         *)
(* A program is what its trait methods answer: whether it applies, what it *)
(* estimates, and what it returns after how long.  Every answer is a       *)
(* choice, so every program is covered.  A resource vector is [usd, wall,  *)
(* programs], the dimensions a budget limits; a negative usd stands for    *)
(* every value validate_usd refuses.  A probability is valid in 0 .. 1.    *)
(* An observation is its own digest.  The clock can be read and an         *)
(* observation serialized: a step in which that fails makes the whole      *)
(* evaluation an error without a report, and is left out.                  *)
(***************************************************************************)
EXTENDS Integers, Sequences

CONSTANTS
  Claim,        \* claim ids
  Observation,  \* what programs may observe
  CounterMax,   \* u32::MAX, of the invocation counters
  Elapsed,      \* wall times a program may take
  Reported,     \* resource vectors programs may estimate or report
  Update,       \* belief updates: sequences of [claim, p]
  Decision,     \* decisions: sequences of claim ids
  Prior,        \* beliefs the caller holds
  Budget,       \* budgets of the caller
  MaxPrograms   \* bound on the length of the pipelines checked

Vector == [usd : Int, wall : Nat, programs : Nat]

IsBeliefs(b) ==
  /\ b = [probabilities |-> b.probabilities, digests |-> b.digests]
  /\ DOMAIN b.probabilities \subseteq Claim
  /\ b.probabilities \in [DOMAIN b.probabilities -> Int]
  /\ b.digests \in Seq(Observation)

ASSUME InputsTyped ==
  /\ CounterMax \in Nat /\ CounterMax > 0
  /\ MaxPrograms \in Nat
  /\ \A v \in Reported \cup Budget :
       v \in Vector /\ v.programs <= CounterMax
  /\ Elapsed \subseteq Nat

ASSUME BeliefsTyped ==
  /\ \A b \in Prior : IsBeliefs(b)
  /\ \A u \in Update : u \in Seq([claim : Claim, p : Int])
  /\ \A d \in Decision : d \in Seq(Claim)

VARIABLES
  programs,   \* how many programs the pipeline has
  unnamed,    \* "artifact" or "program" if one has an empty identity field
  decision,
  budget,
  prior,
  stage,      \* "entry", "screening", "running" or "returned"
  estimate,   \* of the program that runs, its own invocation included
  posterior,
  remaining,
  steps,      \* one record per evaluated program
  runResult   \* "none", the run's stopped_reason or a KernelError

pipelineVars ==
  <<programs, unnamed, decision, budget, prior, stage, estimate, posterior,
    remaining, steps, runResult>>

inputs == <<programs, unnamed, decision, budget, prior>>

Status == {"Completed", "Inapplicable", "Unsupported", "BudgetBlocked",
           "Failed"}

StopReason == {"BudgetExhausted", "ProgramLimit", "ProgramFailed",
               "Inapplicable", "Unsupported", "Complete"}

KernelError == {"InvalidPrograms", "InvalidArtifact", "InvalidDecision",
                "InvalidBeliefs", "InvalidBudget",
                "InvalidProgramDescriptor"}

Zero == [usd |-> 0, wall |-> 0, programs |-> 0]

NoObservation == "no observation"

-----------------------------------------------------------------------------
(* Resources                                                               *)

ValidUsd(resources) == resources.usd >= 0

(* saturating_sub, and the comparison that does the same for dollars.      *)
Less(a, b) == IF b >= a THEN 0 ELSE a - b

DecrementedBy(left, actual) ==
  [usd |-> Less(left.usd, actual.usd),
   wall |-> Less(left.wall, actual.wall),
   programs |-> Less(left.programs, actual.programs)]

(* The invocation itself counts; a counter that cannot count it is an error. *)
Countable(resources) ==
  ValidUsd(resources) /\ resources.programs < CounterMax

WithInvocation(resources) ==
  [resources EXCEPT !.programs = @ + 1]

(* The measured time replaces the reported one.                            *)
ActualResources(reported, elapsed) ==
  [usd |-> reported.usd, wall |-> elapsed, programs |-> reported.programs + 1]

ExecutedFailureResources(elapsed) ==
  [usd |-> 0, wall |-> elapsed, programs |-> 1]

ExceedsBudget(resources) ==
  resources.usd > remaining.usd \/ resources.wall > remaining.wall

ExceedsLimit(resources) == resources.programs > remaining.programs

-----------------------------------------------------------------------------
(* Entry                                                                   *)

ValidProbability(p) == p \in 0 .. 1

ValidDecision ==
  /\ decision # <<>>
  /\ \A i, j \in DOMAIN decision : decision[i] = decision[j] => i = j

ValidBeliefs ==
  \A c \in DOMAIN prior.probabilities :
    ValidProbability(prior.probabilities[c])

PipelineInit ==
  /\ programs \in 0 .. MaxPrograms
  /\ unnamed \in {"nothing", "artifact", "program"}
  /\ decision \in Decision
  /\ budget \in Budget
  /\ prior \in Prior
  /\ stage = "entry"
  /\ estimate = Zero
  /\ posterior = prior
  /\ remaining = budget
  /\ steps = <<>>
  /\ runResult = "none"

ReturnWith(answer) == stage' = "returned" /\ runResult' = answer

(* The first check that fails names the error.                             *)
Enter ==
  /\ stage = "entry"
  /\ \/ programs = 0 /\ ReturnWith("InvalidPrograms")
     \/ programs > 0 /\ unnamed = "artifact" /\ ReturnWith("InvalidArtifact")
     \/ /\ programs > 0 /\ unnamed # "artifact"
        /\ \/ ~ValidDecision /\ ReturnWith("InvalidDecision")
           \/ ValidDecision /\ ~ValidBeliefs /\ ReturnWith("InvalidBeliefs")
           \/ /\ ValidDecision /\ ValidBeliefs /\ ~ValidUsd(budget)
              /\ ReturnWith("InvalidBudget")
           \/ /\ ValidDecision /\ ValidBeliefs /\ ValidUsd(budget)
              /\ \/ unnamed = "program" /\ ReturnWith("InvalidProgramDescriptor")
                 \/ /\ unnamed = "nothing"
                    /\ stage' = "screening" /\ UNCHANGED runResult
  /\ UNCHANGED <<inputs, estimate, posterior, remaining, steps>>

-----------------------------------------------------------------------------
(* One step of the pipeline                                                *)

(* The loop carries the step's beliefs and resources on and breaks at a    *)
(* step that stops; stop is "none" for Continue.                           *)
Record(step) ==
  /\ steps' = Append(steps, step)
  /\ posterior' = step.posterior
  /\ remaining' = step.remaining
  /\ estimate' = Zero
  /\ IF step.stop = "none"
     THEN stage' = "screening" /\ UNCHANGED runResult
     ELSE ReturnWith(step.stop)
  /\ UNCHANGED inputs

(* A program that does not run costs nothing and changes no belief.        *)
NonExecuted(status, reason, estimated) ==
  Record([status |-> status, stop |-> reason, estimate |-> estimated,
          actual |-> Zero, observation |-> NoObservation,
          posterior |-> posterior, remaining |-> remaining])

(* Inapplicable, or unsupported; without a reason that is a failure.       *)
DoesNotApply ==
  /\ stage = "screening"
  /\ \/ NonExecuted("Inapplicable", "Inapplicable", Zero)
     \/ NonExecuted("Unsupported", "Unsupported", Zero)
     \/ NonExecuted("Failed", "ProgramFailed", Zero)

(* The estimate is an error, or is not valid.                              *)
EstimateFails ==
  /\ stage = "screening"
  /\ NonExecuted("Failed", "ProgramFailed", Zero)

EstimateInvalid ==
  /\ stage = "screening"
  /\ \E reported \in Reported :
       /\ ~Countable(reported)
       /\ NonExecuted("Failed", "ProgramFailed", Zero)

BlockProgram ==
  /\ stage = "screening"
  /\ \E reported \in Reported :
       /\ Countable(reported)
       /\ LET estimated == WithInvocation(reported)
          IN  \/ /\ ExceedsLimit(estimated)
                 /\ NonExecuted("BudgetBlocked", "ProgramLimit", estimated)
              \/ /\ ~ExceedsLimit(estimated) /\ ExceedsBudget(estimated)
                 /\ NonExecuted("BudgetBlocked", "BudgetExhausted", estimated)

Begin_TrustsInvocations ==
  /\ stage = "screening"
  /\ \E reported \in Reported :
       /\ Countable(reported)
       /\ ~ExceedsBudget(reported) /\ ~ExceedsLimit(reported)
       /\ estimate' = WithInvocation(reported)
  /\ stage' = "running"
  /\ UNCHANGED <<inputs, posterior, remaining, steps, runResult>>

Begin ==
  /\ stage = "screening"
  /\ \E reported \in Reported :
       /\ Countable(reported)
       /\ estimate' = WithInvocation(reported)
       /\ ~ExceedsLimit(estimate') /\ ~ExceedsBudget(estimate')
  /\ stage' = "running"
  /\ UNCHANGED <<inputs, posterior, remaining, steps, runResult>>

-----------------------------------------------------------------------------
(* Execution                                                               *)

ExecutedFailure_Free(actual) ==
  Record([status |-> "Failed", stop |-> "ProgramFailed",
          estimate |-> estimate, actual |-> actual,
          observation |-> NoObservation, posterior |-> posterior,
          remaining |-> remaining])

ExecutedFailure(actual) ==
  Record([status |-> "Failed", stop |-> "ProgramFailed",
          estimate |-> estimate, actual |-> actual,
          observation |-> NoObservation, posterior |-> posterior,
          remaining |-> DecrementedBy(remaining, actual)])

(* The program fails, or reports resources that are not valid: its time    *)
(* and one invocation are charged, its dollars are not known.              *)
RunFails ==
  /\ stage = "running"
  /\ \E elapsed \in Elapsed :
       ExecutedFailure(ExecutedFailureResources(elapsed))

ResourcesInvalid ==
  /\ stage = "running"
  /\ \E elapsed \in Elapsed, reported \in Reported :
       /\ ~Countable(reported)
       /\ ExecutedFailure(ExecutedFailureResources(elapsed))

ValidUpdates_AnyClaim(updates) ==
  \A i \in DOMAIN updates :
    /\ ValidProbability(updates[i].p)
    /\ \A j \in DOMAIN updates : updates[i].claim = updates[j].claim => i = j

(* Each update is of a declared claim, of each at most one, and valid.     *)
ValidUpdates(updates) ==
  \A i \in DOMAIN updates :
    /\ \E j \in DOMAIN decision : decision[j] = updates[i].claim
    /\ ValidProbability(updates[i].p)
    /\ \A j \in DOMAIN updates : updates[i].claim = updates[j].claim => i = j

(* The resources are valid, and something else in the output is not: an    *)
(* update, or an empty field of its evidence, hints or limitations.        *)
OutputInvalid ==
  /\ stage = "running"
  /\ \E elapsed \in Elapsed, reported \in Reported :
       /\ Countable(reported)
       /\ ExecutedFailure(ActualResources(reported, elapsed))

Updated(beliefs, updates, observation) ==
  [probabilities |->
     [c \in DOMAIN beliefs.probabilities
              \cup {updates[i].claim : i \in DOMAIN updates} |->
        IF \E i \in DOMAIN updates : updates[i].claim = c
        THEN updates[CHOOSE i \in DOMAIN updates : updates[i].claim = c].p
        ELSE beliefs.probabilities[c]],
   digests |-> Append(beliefs.digests, observation)]

(* A dimension that was used and is used up.                               *)
UsedUp(actual) ==
  LET next == DecrementedBy(remaining, actual)
  IN  \/ actual.usd > 0 /\ next.usd = 0
      \/ actual.wall > 0 /\ next.wall = 0

ContinuationStop(actual) ==
  IF ExceedsBudget(actual) THEN "BudgetExhausted"
  ELSE IF actual.programs >= remaining.programs THEN "ProgramLimit"
  ELSE IF UsedUp(actual) THEN "BudgetExhausted"
  ELSE "none"

IsLast == Len(steps) + 1 = programs

Stop_LastCompletes(actual) ==
  IF IsLast THEN "Complete" ELSE ContinuationStop(actual)

(* The last program completes the run unless it overran what it was given; *)
(* to use it up is no overrun.                                             *)
Stop(actual) ==
  IF IsLast /\ ~ExceedsBudget(actual) /\ ~ExceedsLimit(actual)
  THEN "Complete" ELSE ContinuationStop(actual)

FinishProgramOutput ==
  /\ stage = "running"
  /\ \E elapsed \in Elapsed, reported \in Reported, updates \in Update,
        observation \in Observation :
       /\ Countable(reported) /\ ValidUpdates(updates)
       /\ LET actual == ActualResources(reported, elapsed)
          IN  Record([status |-> "Completed", stop |-> Stop(actual),
                      estimate |-> estimate, actual |-> actual,
                      observation |-> observation,
                      posterior |-> Updated(posterior, updates, observation),
                      remaining |-> DecrementedBy(remaining, actual)])

Returned == stage = "returned" /\ UNCHANGED pipelineVars

PipelineNext ==
  \/ Enter \/ DoesNotApply \/ EstimateFails \/ EstimateInvalid
  \/ BlockProgram \/ Begin \/ RunFails \/ ResourcesInvalid \/ OutputInvalid
  \/ FinishProgramOutput \/ Returned

PipelineSpec == PipelineInit /\ [][PipelineNext]_pipelineVars

-----------------------------------------------------------------------------
(* Properties                                                              *)

PipelineTypeOK ==
  /\ stage \in {"entry", "screening", "running", "returned"}
  /\ \A d \in {"wall", "programs"} : remaining[d] \in 0 .. budget[d]
  /\ stage # "entry" /\ runResult \notin KernelError =>
       remaining.usd \in 0 .. budget.usd
  /\ runResult \in {"none"} \cup StopReason \cup KernelError
  /\ \A i \in DOMAIN steps : steps[i].status \in Status
  /\ Len(steps) <= programs

(* What step i was given, and what it returned with.                       *)
Before(i) == IF i = 1 THEN budget ELSE steps[i - 1].remaining

BeliefsBefore(i) == IF i = 1 THEN prior ELSE steps[i - 1].posterior

(* No program runs on resources it said it would exceed, its own           *)
(* invocation included, so the declared budget can be passed by the last   *)
(* step only, and by no more than that step's own error of estimation.     *)
AdmittedWithinBudget ==
  /\ stage = "running" => ~ExceedsBudget(estimate) /\ ~ExceedsLimit(estimate)
  /\ \A i \in DOMAIN steps :
       LET s == steps[i]  b == Before(i)
       IN  /\ s.actual.programs > 0 =>
                /\ s.estimate.usd <= b.usd
                /\ s.estimate.wall <= b.wall
                /\ s.estimate.programs <= b.programs
           /\ i < Len(steps) =>
                /\ s.actual.usd <= b.usd
                /\ s.actual.wall <= b.wall
                /\ s.actual.programs <= b.programs

(* The ledger: what remains after every step is what the budget had less   *)
(* everything the attestations charge, never below zero, so the run can be *)
(* recomputed from its attestations.                                       *)
Spent(d) ==
  LET total[n \in 0 .. Len(steps)] ==
        IF n = 0 THEN 0 ELSE total[n - 1] + steps[n].actual[d]
  IN  total[Len(steps)]

LedgerBalances ==
  \A d \in {"usd", "wall", "programs"} :
    steps # <<>> => remaining[d] = Less(budget[d], Spent(d))

(* A run called complete evaluated every program to completion and stayed  *)
(* inside its budget; a comparison of two runs relies on it.               *)
CompleteIsComplete ==
  runResult = "Complete" =>
    /\ Len(steps) = programs
    /\ \A i \in DOMAIN steps :
         /\ steps[i].status = "Completed"
         /\ steps[i].actual.usd <= Before(i).usd
         /\ steps[i].actual.wall <= Before(i).wall
         /\ steps[i].actual.programs <= Before(i).programs

(* Beliefs move by completed programs only, one digest each in the order   *)
(* of the programs, and only on the claims the decision declares; whatever *)
(* failed, was refused or was blocked left them as they were.              *)
BeliefsAccounted ==
  /\ \A i \in DOMAIN steps :
       LET s == steps[i]  b == BeliefsBefore(i)
       IN  IF s.status = "Completed"
           THEN /\ s.posterior.digests = Append(b.digests, s.observation)
                /\ \A c \in DOMAIN s.posterior.probabilities :
                     \/ \E j \in DOMAIN decision : decision[j] = c
                     \/ /\ c \in DOMAIN b.probabilities
                        /\ s.posterior.probabilities[c] = b.probabilities[c]
           ELSE s.posterior = b
  /\ steps # <<>> => posterior = steps[Len(steps)].posterior

(* A run stopped for its budget really had none left of something it       *)
(* wanted; a budget of zero dollars alone stops no program that is free.   *)
StopsForCause ==
  runResult = "BudgetExhausted" =>
    LET s == steps[Len(steps)]
    IN  \E d \in {"usd", "wall"} :
          IF s.status = "BudgetBlocked"
          THEN s.estimate[d] > remaining[d]
          ELSE s.actual[d] > 0 /\ remaining[d] = 0

(* The reason a run gives for its end is the true one, of both kinds.      *)
StopReasonTrue == CompleteIsComplete /\ StopsForCause
=============================================================================
