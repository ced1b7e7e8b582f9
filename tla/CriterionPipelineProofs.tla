----------------------- MODULE CriterionPipelineProofs -----------------------
(***************************************************************************)
(* Proofs about evaluate_pipeline, for pipelines, budgets and programs of  *)
(* any size.  The argument: every step the loop records fits what it was   *)
(* given (Fits), and the loop only appends while steps go on, so the       *)
(* recorded steps are a chain from the budget and the prior to what the    *)
(* run returns.                                                            *)
(***************************************************************************)
EXTENDS CriterionPipeline, TLAPS

(* The lemmas on induction are those of the folds.                         *)
Running == INSTANCE Folding WITH
  Op <- LAMBDA v, total : v + total, Base <- 0, Value <- LAMBDA v : v,
  Choice <- LAMBDA S : CHOOSE v \in S : TRUE

Beliefs == [probabilities : UNION {[S -> Int] : S \in SUBSET Claim},
            digests : Seq(Observation)]

Step == [status : Status, stop : StopReason \cup {"none"},
         estimate : Vector, actual : Vector,
         observation : Observation \cup {NoObservation},
         posterior : Beliefs, remaining : Vector]

Within(used, left) ==
  used.usd <= left.usd /\ used.wall <= left.wall /\ used.programs <= left.programs

(* What the beliefs of a step owe to those it was given.                   *)
BeliefsFollow(s, b) ==
  IF s.status = "Completed"
  THEN /\ s.posterior.digests = Append(b.digests, s.observation)
       /\ \A c \in DOMAIN s.posterior.probabilities :
            \/ \E j \in DOMAIN decision : decision[j] = c
            \/ /\ c \in DOMAIN b.probabilities
               /\ s.posterior.probabilities[c] = b.probabilities[c]
  ELSE s.posterior = b

(* Why a step stops, or does not, the n-th of the pipeline.                *)
StopFollows(s, n, left) ==
  /\ s.stop \in {"none", "Complete"} =>
       s.status = "Completed" /\ Within(s.actual, left)
  /\ s.stop = "none" => n < programs
  /\ s.stop = "Complete" => n = programs
  /\ s.stop = "BudgetExhausted" =>
       \E d \in {"usd", "wall"} :
         IF s.status = "BudgetBlocked"
         THEN s.estimate[d] > s.remaining[d]
         ELSE s.actual[d] > 0 /\ s.remaining[d] = 0

(* The step fits the resources and the beliefs it was given.               *)
Fits(s, n, left, b) ==
  /\ s.remaining = DecrementedBy(left, s.actual)
  /\ s.actual.usd >= 0
  /\ s.actual.programs > 0 => Within(s.estimate, left)
  /\ BeliefsFollow(s, b)
  /\ StopFollows(s, n, left)

TypeInv ==
  /\ programs \in Nat
  /\ decision \in Seq(Claim)
  /\ budget \in Vector /\ remaining \in Vector /\ estimate \in Vector
  /\ prior \in Beliefs /\ posterior \in Beliefs
  /\ stage \in {"entry", "screening", "running", "returned"}
  /\ runResult \in {"none"} \cup StopReason \cup KernelError
  /\ steps \in Seq(Step)

(* Nothing is owed, and nothing is more than the budget gave.              *)
RemainingInv ==
  /\ remaining.wall <= budget.wall /\ remaining.programs <= budget.programs
  /\ remaining.usd <= budget.usd
  /\ stage # "entry" /\ runResult \notin KernelError => remaining.usd >= 0

(* The recorded steps are a chain.                                         *)
ChainInv ==
  /\ \A i \in 1 .. Len(steps) :
       Fits(steps[i], i, Before(i), BeliefsBefore(i))
  /\ \A i \in 1 .. Len(steps) : i < Len(steps) => steps[i].stop = "none"
  /\ Len(steps) <= programs
  /\ IF steps = <<>>
     THEN remaining = budget /\ posterior = prior
     ELSE /\ remaining = steps[Len(steps)].remaining
          /\ posterior = steps[Len(steps)].posterior

(* The chain is open exactly while the pipeline works.                     *)
StageInv ==
  /\ stage = "entry" => steps = <<>> /\ runResult = "none"
  /\ stage \in {"screening", "running"} =>
       /\ Len(steps) < programs /\ runResult = "none"
       /\ steps # <<>> => steps[Len(steps)].stop = "none"
  /\ stage = "running" => Within(estimate, remaining)
  /\ stage = "returned" =>
       IF steps = <<>> THEN runResult \in KernelError
       ELSE runResult = steps[Len(steps)].stop

IInv == TypeInv /\ RemainingInv /\ ChainInv /\ StageInv

-----------------------------------------------------------------------------
(* Resources                                                               *)

(* A decrement never goes below zero and never adds.                       *)
LEMMA DecrementBounded ==
  ASSUME NEW left \in Vector, NEW actual \in Vector,
         left.usd >= 0, actual.usd >= 0
  PROVE  LET d == DecrementedBy(left, actual)
         IN  /\ d \in Vector /\ d.usd >= 0
             /\ d.usd <= left.usd /\ d.wall <= left.wall
             /\ d.programs <= left.programs
  BY DEF Vector, DecrementedBy, Less

(* Nothing used leaves everything.                                         *)
LEMMA DecrementZero ==
  ASSUME NEW left \in Vector, left.usd >= 0
  PROVE  DecrementedBy(left, Zero) = left
  BY DEF Vector, DecrementedBy, Less, Zero

(* Zero, estimates and charges are resource vectors.                       *)
LEMMA ChargesTyped ==
  /\ Zero \in Vector /\ Zero.usd = 0
  /\ \A r \in Reported : r \in Vector /\ WithInvocation(r) \in Vector
  /\ \A r \in Reported, e \in Elapsed :
       /\ ActualResources(r, e) \in Vector
       /\ ActualResources(r, e).usd = r.usd
       /\ ActualResources(r, e).wall = e
  /\ \A e \in Elapsed :
       /\ ExecutedFailureResources(e) \in Vector
       /\ ExecutedFailureResources(e).usd = 0
<1>1. Zero \in Vector /\ Zero.usd = 0
  BY DEF Vector, Zero
<1>2. ASSUME NEW r \in Reported
      PROVE  r \in Vector /\ WithInvocation(r) \in Vector
  BY InputsTyped DEF Vector, WithInvocation
<1>3. ASSUME NEW r \in Reported, NEW e \in Elapsed
      PROVE  /\ ActualResources(r, e) \in Vector
             /\ ActualResources(r, e).usd = r.usd
             /\ ActualResources(r, e).wall = e
  <2>1. r \in Vector /\ e \in Nat
    BY InputsTyped
  <2> QED BY <2>1 DEF Vector, ActualResources
<1>4. ASSUME NEW e \in Elapsed
      PROVE  /\ ExecutedFailureResources(e) \in Vector
             /\ ExecutedFailureResources(e).usd = 0
  <2>1. e \in Nat
    BY InputsTyped
  <2> QED BY <2>1 DEF Vector, ExecutedFailureResources
<1> QED BY <1>1, <1>2, <1>3, <1>4

-----------------------------------------------------------------------------
(* The loop                                                                *)

(* Recording a step that fits keeps the chain.                             *)
LEMMA RecordKeeps ==
  ASSUME IInv, stage \in {"screening", "running"},
         NEW s \in Step, s.remaining.usd >= 0,
         s.remaining.usd <= remaining.usd,
         s.remaining.wall <= remaining.wall,
         s.remaining.programs <= remaining.programs,
         Fits(s, Len(steps) + 1, remaining, posterior),
         Record(s)
  PROVE  IInv'
<1>0. PICK n \in Nat : n = Len(steps)
  BY DEF IInv, TypeInv
<1>1. /\ steps' = Append(steps, s) /\ posterior' = s.posterior
      /\ remaining' = s.remaining /\ estimate' = Zero
      /\ UNCHANGED <<programs, unnamed, decision, budget, prior>>
      /\ IF s.stop = "none" THEN stage' = "screening" /\ runResult' = runResult
         ELSE stage' = "returned" /\ runResult' = s.stop
  BY DEF Record, inputs, ReturnWith
<1>2. /\ n \in Nat /\ Len(steps') = n + 1
      /\ steps' \in Seq(Step)
      /\ \A i \in 1 .. n : steps'[i] = steps[i]
      /\ steps'[n + 1] = s
      /\ steps' # <<>>
  BY <1>0, <1>1 DEF IInv, TypeInv
<1>3. TypeInv'
  BY <1>1, <1>2, ChargesTyped DEF IInv, TypeInv, Step
<1>4. RemainingInv'
  <2>1. remaining \in Vector /\ budget \in Vector /\ s.remaining \in Vector
    BY DEF IInv, TypeInv, Step
  <2> QED
    BY <2>1, <1>1 DEF IInv, RemainingInv, Vector
<1>5. \A i \in 1 .. n : Before(i)' = Before(i) /\ BeliefsBefore(i)' = BeliefsBefore(i)
  BY <1>1, <1>2 DEF Before, BeliefsBefore
<1>6. Before(n + 1)' = remaining /\ BeliefsBefore(n + 1)' = posterior
  <2>1. CASE steps = <<>>
    <3>1. n = 0
      BY <2>1, <1>0
    <3> QED BY <3>1, <2>1, <1>1 DEF IInv, ChainInv, Before, BeliefsBefore
  <2>2. CASE steps # <<>>
    <3>1. n # 0 /\ n \in 1 .. n /\ n + 1 # 1 /\ (n + 1) - 1 = n
      BY <2>2, <1>0, <1>2 DEF IInv, TypeInv
    <3>2. remaining = steps[n].remaining /\ posterior = steps[n].posterior
      BY <2>2, <1>0 DEF IInv, ChainInv
    <3> QED BY <3>1, <3>2, <1>2 DEF Before, BeliefsBefore
  <2> QED BY <2>1, <2>2
<1>7. \A i \in 1 .. n : Fits(steps[i], i, Before(i), BeliefsBefore(i))'
  <2> SUFFICES ASSUME NEW i \in 1 .. n
               PROVE  Fits(steps[i], i, Before(i), BeliefsBefore(i))'
    OBVIOUS
  <2>1. Fits(steps[i], i, Before(i), BeliefsBefore(i))
    BY <1>0 DEF IInv, ChainInv
  <2> QED
    BY <2>1, <1>1, <1>2, <1>5 DEF Fits, BeliefsFollow, StopFollows
<1>8. Fits(steps[n + 1], n + 1, Before(n + 1), BeliefsBefore(n + 1))'
  BY <1>1, <1>2, <1>6 DEF Fits, BeliefsFollow, StopFollows
<1>9. \A i \in 1 .. n : steps[i].stop = "none"
  <2>1. CASE n = 0
    BY <2>1
  <2>2. CASE n # 0
    <3>1. n \in 1 .. n /\ steps # <<>>
      BY <2>2, <1>0
    <3>2. steps[n].stop = "none"
      BY <3>1, <1>0 DEF IInv, StageInv
    <3> QED BY <3>2, <1>0 DEF IInv, ChainInv
  <2> QED BY <2>1, <2>2
<1>10. ChainInv'
  <2>1. \A i \in (1 .. Len(steps))' : i \in 1 .. n \/ i = n + 1
    BY <1>2
  <2>2. \A i \in (1 .. Len(steps))' :
          Fits(steps[i], i, Before(i), BeliefsBefore(i))'
    BY <2>1, <1>7, <1>8
  <2>3. \A i \in (1 .. Len(steps))' : i < n + 1 => steps'[i].stop = "none"
    BY <1>2, <1>9
  <2>4. n + 1 <= programs
    BY <1>0 DEF IInv, StageInv, TypeInv
  <2> QED BY <2>2, <2>3, <2>4, <1>1, <1>2 DEF ChainInv
<1>11. StageInv'
  BY <1>0, <1>1, <1>2 DEF IInv, StageInv, TypeInv, Fits, StopFollows
<1> QED BY <1>3, <1>4, <1>10, <1>11 DEF IInv

(* While the pipeline works it owes nothing.                               *)
LEMMA Solvent ==
  ASSUME IInv, stage \in {"screening", "running"}
  PROVE  remaining \in Vector /\ remaining.usd >= 0
  BY DEF IInv, TypeInv, RemainingInv, StageInv, KernelError

(* A step that did not run keeps the invariant.                            *)
LEMMA NonExecutedKeeps ==
  ASSUME IInv, stage = "screening",
         NEW status \in Status \ {"Completed"},
         NEW reason \in StopReason \ {"Complete"},
         NEW estimated \in Vector,
         reason = "BudgetExhausted" =>
           status = "BudgetBlocked" /\ ExceedsBudget(estimated),
         NonExecuted(status, reason, estimated)
  PROVE  IInv'
<1> DEFINE s == [status |-> status, stop |-> reason, estimate |-> estimated,
                 actual |-> Zero, observation |-> NoObservation,
                 posterior |-> posterior, remaining |-> remaining]
<1>1. remaining \in Vector /\ remaining.usd >= 0 /\ posterior \in Beliefs
  BY Solvent DEF IInv, TypeInv
<1>2. s \in Step
  BY <1>1, ChargesTyped DEF Step
<1>3. s.remaining = DecrementedBy(remaining, s.actual)
  BY <1>1, DecrementZero
<1>4. BeliefsFollow(s, posterior)
  BY DEF BeliefsFollow
<1>5. StopFollows(s, Len(steps) + 1, remaining)
  <2>1. reason \notin {"none", "Complete"}
    BY DEF StopReason
  <2>2. reason = "BudgetExhausted" =>
          \E d \in {"usd", "wall"} : estimated[d] > remaining[d]
    BY DEF ExceedsBudget, Vector
  <2> QED
    BY <2>1, <2>2 DEF StopFollows
<1>6. s.actual.programs = 0 /\ s.actual.usd = 0
  BY DEF Zero
<1>7. Fits(s, Len(steps) + 1, remaining, posterior)
  BY <1>3, <1>4, <1>5, <1>6 DEF Fits
<1>8. Record(s)
  BY DEF NonExecuted
<1> HIDE DEF s
<1>9. s.remaining = remaining
  BY <1>3, <1>6 DEF s
<1> QED
  BY <1>1, <1>2, <1>7, <1>8, <1>9, RecordKeeps DEF Vector

(* A program that ran and failed keeps it.                                 *)
LEMMA FailureKeeps ==
  ASSUME IInv, stage = "running", NEW actual \in Vector, actual.usd >= 0,
         ExecutedFailure(actual)
  PROVE  IInv'
<1> DEFINE s == [status |-> "Failed", stop |-> "ProgramFailed",
                 estimate |-> estimate, actual |-> actual,
                 observation |-> NoObservation, posterior |-> posterior,
                 remaining |-> DecrementedBy(remaining, actual)]
<1>1. /\ remaining \in Vector /\ remaining.usd >= 0 /\ posterior \in Beliefs
      /\ estimate \in Vector
  BY Solvent DEF IInv, TypeInv
<1>2. LET d == DecrementedBy(remaining, actual)
      IN  /\ d \in Vector /\ d.usd >= 0
          /\ d.usd <= remaining.usd /\ d.wall <= remaining.wall
          /\ d.programs <= remaining.programs
  BY <1>1, DecrementBounded
<1>3. s \in Step
  BY <1>1, <1>2 DEF Step, Status, StopReason
<1>4. BeliefsFollow(s, posterior)
  BY DEF BeliefsFollow
<1>5. StopFollows(s, Len(steps) + 1, remaining)
  BY DEF StopFollows
<1>6. Within(s.estimate, remaining)
  BY DEF IInv, StageInv
<1>7. Fits(s, Len(steps) + 1, remaining, posterior)
  BY <1>4, <1>5, <1>6 DEF Fits
<1>8. Record(s)
  BY DEF ExecutedFailure
<1>9. s.remaining = DecrementedBy(remaining, actual)
  OBVIOUS
<1> HIDE DEF s
<1> QED
  BY <1>2, <1>3, <1>7, <1>8, <1>9, RecordKeeps

(* Beliefs change by valid updates into beliefs, on declared claims only.  *)
LEMMA UpdatedFollows ==
  ASSUME decision \in Seq(Claim), NEW b \in Beliefs,
         NEW updates \in Seq([claim : Claim, p : Int]),
         NEW observation \in Observation, ValidUpdates(updates)
  PROVE  LET u == Updated(b, updates, observation)
         IN  /\ u \in Beliefs
             /\ u.digests = Append(b.digests, observation)
             /\ \A c \in DOMAIN u.probabilities :
                  \/ \E j \in DOMAIN decision : decision[j] = c
                  \/ /\ c \in DOMAIN b.probabilities
                     /\ u.probabilities[c] = b.probabilities[c]
<1> DEFINE D == DOMAIN b.probabilities
                  \cup {updates[i].claim : i \in DOMAIN updates}
           P(c) == IF \E i \in DOMAIN updates : updates[i].claim = c
                   THEN updates[CHOOSE i \in DOMAIN updates :
                                  updates[i].claim = c].p
                   ELSE b.probabilities[c]
<1>1. PICK S \in SUBSET Claim : b.probabilities \in [S -> Int]
  BY DEF Beliefs
<1>2. \A i \in DOMAIN updates : updates[i].claim \in Claim /\ updates[i].p \in Int
  <2> SUFFICES ASSUME NEW i \in DOMAIN updates
               PROVE  updates[i].claim \in Claim /\ updates[i].p \in Int
    OBVIOUS
  <2>1. \A U : updates \in Seq(U) => updates[i] \in U
    OBVIOUS
  <2>2. updates[i] \in [claim : Claim, p : Int]
    BY <2>1
  <2> QED BY <2>2
<1>3. D \in SUBSET Claim
  BY <1>1, <1>2
<1>4. \A c \in D : P(c) \in Int
  <2> SUFFICES ASSUME NEW c \in D PROVE P(c) \in Int
    OBVIOUS
  <2>1. CASE \E i \in DOMAIN updates : updates[i].claim = c
    BY <2>1, <1>2
  <2>2. CASE ~ \E i \in DOMAIN updates : updates[i].claim = c
    BY <2>2, <1>1
  <2> QED BY <2>1, <2>2
<1>5. Updated(b, updates, observation) =
        [probabilities |-> [c \in D |-> P(c)],
         digests |-> Append(b.digests, observation)]
  BY DEF Updated
<1>6. \A c \in D : \/ \E j \in DOMAIN decision : decision[j] = c
                   \/ c \in DOMAIN b.probabilities /\ P(c) = b.probabilities[c]
  BY DEF ValidUpdates
<1>7. b.digests \in Seq(Observation)
  BY DEF Beliefs
<1> HIDE DEF D, P
<1>8. [c \in D |-> P(c)] \in [D -> Int]
  BY <1>4
<1>9. [c \in D |-> P(c)] \in UNION {[R -> Int] : R \in SUBSET Claim}
  BY <1>3, <1>8
<1>10. Updated(b, updates, observation) \in Beliefs
  BY <1>5, <1>7, <1>9 DEF Beliefs
<1> QED BY <1>5, <1>6, <1>10

(* A program that completed keeps the invariant: the run goes on, stops    *)
(* for its budget, or is complete, and each for its cause.                 *)
LEMMA FinishKeeps ==
  ASSUME IInv, FinishProgramOutput
  PROVE  IInv'
<1>1. PICK elapsed \in Elapsed, reported \in Reported, updates \in Update,
           observation \in Observation :
        /\ Countable(reported) /\ ValidUpdates(updates)
        /\ LET actual == ActualResources(reported, elapsed)
           IN  Record([status |-> "Completed", stop |-> Stop(actual),
                       estimate |-> estimate, actual |-> actual,
                       observation |-> observation,
                       posterior |-> Updated(posterior, updates, observation),
                       remaining |-> DecrementedBy(remaining, actual)])
  BY DEF FinishProgramOutput
<1>2. PICK actual \in Vector : /\ actual = ActualResources(reported, elapsed)
                               /\ actual.usd >= 0
  BY <1>1, ChargesTyped DEF Countable, ValidUsd
<1> DEFINE u == Updated(posterior, updates, observation)
           s == [status |-> "Completed", stop |-> Stop(actual),
                 estimate |-> estimate, actual |-> actual,
                 observation |-> observation, posterior |-> u,
                 remaining |-> DecrementedBy(remaining, actual)]
<1>3. stage = "running"
  BY DEF FinishProgramOutput
<1>4. /\ remaining \in Vector /\ remaining.usd >= 0 /\ posterior \in Beliefs
      /\ estimate \in Vector /\ decision \in Seq(Claim)
  BY <1>3, Solvent DEF IInv, TypeInv
<1>5. LET d == DecrementedBy(remaining, actual)
      IN  /\ d \in Vector /\ d.usd >= 0
          /\ d.usd <= remaining.usd /\ d.wall <= remaining.wall
          /\ d.programs <= remaining.programs
  BY <1>2, <1>4, DecrementBounded
<1>6. updates \in Seq([claim : Claim, p : Int])
  BY BeliefsTyped
<1>7. /\ u \in Beliefs
      /\ u.digests = Append(posterior.digests, observation)
      /\ \A c \in DOMAIN u.probabilities :
           \/ \E j \in DOMAIN decision : decision[j] = c
           \/ /\ c \in DOMAIN posterior.probabilities
              /\ u.probabilities[c] = posterior.probabilities[c]
  BY <1>1, <1>4, <1>6, UpdatedFollows
<1> HIDE DEF u
<1>8. Stop(actual) \in StopReason \cup {"none"}
  BY DEF Stop, ContinuationStop, StopReason
<1>9. s \in Step
  BY <1>4, <1>5, <1>7, <1>8 DEF Step, Status
<1>10. BeliefsFollow(s, posterior)
  BY <1>7 DEF BeliefsFollow
<1>11. StopFollows(s, Len(steps) + 1, remaining)
  <2>1. /\ Len(steps) \in Nat /\ programs \in Nat
        /\ Len(steps) + 1 <= programs
    BY <1>3 DEF IInv, TypeInv, StageInv
  <2>2. Stop(actual) \in {"none", "Complete"} => Within(actual, remaining)
    BY <1>2, <1>4 DEF Stop, ContinuationStop, ExceedsBudget, ExceedsLimit,
                      Within, Vector
  <2>3. Stop(actual) = "Complete" => Len(steps) + 1 = programs
    BY DEF Stop, ContinuationStop, IsLast
  <2>4. Stop(actual) = "none" => Len(steps) + 1 < programs
    <3>1. ASSUME Stop(actual) = "none", IsLast
          PROVE  FALSE
      BY <3>1, <1>2, <1>4
      DEF Stop, ContinuationStop, ExceedsBudget, ExceedsLimit, Vector
    <3> QED BY <3>1, <2>1 DEF IsLast
  <2>5. Stop(actual) = "BudgetExhausted" =>
          \E d \in {"usd", "wall"} :
            actual[d] > 0 /\ DecrementedBy(remaining, actual)[d] = 0
    <3>1. ASSUME Stop(actual) = "BudgetExhausted"
          PROVE  ExceedsBudget(actual) \/ UsedUp(actual)
      BY <3>1 DEF Stop, ContinuationStop
    <3>2. ASSUME ExceedsBudget(actual)
          PROVE  \E d \in {"usd", "wall"} :
                   actual[d] > 0 /\ DecrementedBy(remaining, actual)[d] = 0
      BY <3>2, <1>2, <1>4 DEF ExceedsBudget, DecrementedBy, Less, Vector
    <3>3. ASSUME UsedUp(actual)
          PROVE  \E d \in {"usd", "wall"} :
                   actual[d] > 0 /\ DecrementedBy(remaining, actual)[d] = 0
      BY <3>3 DEF UsedUp
    <3> QED BY <3>1, <3>2, <3>3
  <2> QED
    BY <2>2, <2>3, <2>4, <2>5 DEF StopFollows
<1>12. Within(s.estimate, remaining)
  BY <1>3 DEF IInv, StageInv
<1>13. Fits(s, Len(steps) + 1, remaining, posterior)
  BY <1>2, <1>10, <1>11, <1>12 DEF Fits
<1>14. Record(s)
  BY <1>1, <1>2 DEF u
<1>15. s.remaining = DecrementedBy(remaining, actual)
  OBVIOUS
<1> HIDE DEF s
<1> QED
  BY <1>3, <1>5, <1>9, <1>13, <1>14, <1>15, RecordKeeps

-----------------------------------------------------------------------------
(* The invariant                                                           *)

(* The prior of the caller is one of the proof's beliefs.                  *)
LEMMA PriorTyped ==
  ASSUME NEW b \in Prior
  PROVE  b \in Beliefs
<1>1. IsBeliefs(b)
  BY BeliefsTyped
<1>2. b.probabilities \in UNION {[S -> Int] : S \in SUBSET Claim}
  BY <1>1 DEF IsBeliefs
<1> QED BY <1>1, <1>2 DEF IsBeliefs, Beliefs

LEMMA InitIInv == PipelineInit => IInv
<1> SUFFICES ASSUME PipelineInit PROVE IInv
  OBVIOUS
<1>1. programs \in Nat /\ budget \in Vector /\ decision \in Seq(Claim)
  BY InputsTyped, BeliefsTyped DEF PipelineInit
<1>2. TypeInv
  BY <1>1, PriorTyped, ChargesTyped DEF PipelineInit, TypeInv
<1>3. RemainingInv
  BY <1>1 DEF PipelineInit, RemainingInv, Vector
<1>4. ChainInv
  BY <1>1 DEF PipelineInit, ChainInv
<1>5. StageInv
  BY DEF PipelineInit, StageInv
<1> QED BY <1>2, <1>3, <1>4, <1>5 DEF IInv

LEMMA NextIInv == IInv /\ [PipelineNext]_pipelineVars => IInv'
<1> SUFFICES ASSUME IInv, [PipelineNext]_pipelineVars PROVE IInv'
  OBVIOUS
<1>1. CASE Enter
  <2>1. /\ UNCHANGED <<programs, decision, budget, prior, estimate,
                       posterior, remaining, steps>>
        /\ stage = "entry"
        /\ \/ stage' = "returned" /\ runResult' \in KernelError
           \/ stage' = "screening" /\ runResult' = runResult /\ programs > 0
                /\ budget.usd >= 0
    BY <1>1 DEF Enter, ReturnWith, inputs, KernelError, ValidUsd
  <2>2. steps = <<>> /\ runResult = "none" /\ remaining = budget /\ Len(steps) = 0
    BY <2>1 DEF IInv, StageInv, ChainInv
  <2>3. TypeInv'
    BY <2>1 DEF IInv, TypeInv
  <2>4. RemainingInv'
    BY <2>1, <2>2 DEF IInv, RemainingInv
  <2>5. ChainInv'
    BY <2>1, <2>2 DEF IInv, ChainInv
  <2>6. StageInv'
    BY <2>1, <2>2 DEF IInv, TypeInv, StageInv
  <2> QED BY <2>3, <2>4, <2>5, <2>6 DEF IInv
<1>2. CASE DoesNotApply
  BY <1>2, NonExecutedKeeps, ChargesTyped DEF DoesNotApply, Status, StopReason
<1>3. CASE EstimateFails
  BY <1>3, NonExecutedKeeps, ChargesTyped DEF EstimateFails, Status, StopReason
<1>4. CASE EstimateInvalid
  BY <1>4, NonExecutedKeeps, ChargesTyped DEF EstimateInvalid, Status, StopReason
<1>5. CASE BlockProgram
  BY <1>5, NonExecutedKeeps, ChargesTyped DEF BlockProgram, Status, StopReason
<1>6. CASE Begin
  <2>1. PICK reported \in Reported :
          /\ estimate' = WithInvocation(reported)
          /\ ~ExceedsLimit(estimate') /\ ~ExceedsBudget(estimate')
    BY <1>6 DEF Begin
  <2>2. estimate' \in Vector
    BY <2>1, ChargesTyped
  <2>3. /\ UNCHANGED <<programs, decision, budget, prior, posterior, remaining,
                       steps, runResult>>
        /\ stage = "screening" /\ stage' = "running"
    BY <1>6 DEF Begin, inputs
  <2>4. Within(estimate', remaining)
    BY <2>1, <2>2 DEF IInv, TypeInv, ExceedsLimit, ExceedsBudget, Within, Vector
  <2>5. TypeInv'
    BY <2>2, <2>3 DEF IInv, TypeInv
  <2>6. RemainingInv'
    BY <2>3 DEF IInv, RemainingInv
  <2>7. ChainInv'
    BY <2>3 DEF IInv, ChainInv, Before, BeliefsBefore, Fits, BeliefsFollow,
                StopFollows
  <2>8. StageInv'
    BY <2>3, <2>4 DEF IInv, StageInv, Within
  <2> QED BY <2>5, <2>6, <2>7, <2>8 DEF IInv
<1>7. CASE RunFails
  BY <1>7, FailureKeeps, ChargesTyped DEF RunFails
<1>8. CASE ResourcesInvalid
  BY <1>8, FailureKeeps, ChargesTyped DEF ResourcesInvalid
<1>9. CASE OutputInvalid
  BY <1>9, FailureKeeps, ChargesTyped DEF OutputInvalid, Countable, ValidUsd
<1>10. CASE FinishProgramOutput
  BY <1>10, FinishKeeps
<1>11. CASE UNCHANGED pipelineVars
  BY <1>11 DEF pipelineVars, IInv, TypeInv, RemainingInv, ChainInv, StageInv,
               Before, BeliefsBefore, Fits, BeliefsFollow, StopFollows, Within
<1>12. CASE Returned
  BY <1>11, <1>12 DEF Returned
<1> QED
  BY <1>1, <1>2, <1>3, <1>4, <1>5, <1>6, <1>7, <1>8, <1>9, <1>10, <1>11,
     <1>12 DEF PipelineNext

THEOREM Inductive == PipelineSpec => []IInv
  BY InitIInv, NextIInv, PTL DEF PipelineSpec

-----------------------------------------------------------------------------
(* The theorems                                                            *)

(* Every value stays in its range; what remains stays between zero and     *)
(* what the budget had.                                                    *)
THEOREM TypeCorrect == PipelineSpec => []PipelineTypeOK
<1>1. IInv => PipelineTypeOK
  <2> SUFFICES ASSUME IInv PROVE PipelineTypeOK
    OBVIOUS
  <2>1. remaining \in Vector /\ budget \in Vector
    BY DEF IInv, TypeInv
  <2>2. \A d \in {"wall", "programs"} : remaining[d] \in 0 .. budget[d]
    BY <2>1 DEF IInv, RemainingInv, Vector
  <2>3. stage # "entry" /\ runResult \notin KernelError =>
          remaining.usd \in 0 .. budget.usd
    BY <2>1 DEF IInv, RemainingInv, Vector
  <2>4. \A i \in DOMAIN steps : steps[i].status \in Status
    <3> SUFFICES ASSUME NEW i \in DOMAIN steps
                 PROVE  steps[i].status \in Status
      OBVIOUS
    <3>1. steps[i] \in Step
      BY DEF IInv, TypeInv
    <3> QED BY <3>1 DEF Step
  <2> QED BY <2>2, <2>3, <2>4 DEF IInv, TypeInv, ChainInv, PipelineTypeOK
<1> QED BY <1>1, Inductive, PTL

(* No program starts on an estimate beyond what remains, and only the last *)
(* step of a run can have used more than it was given.                     *)
THEOREM OverrunsAtMostOnce == PipelineSpec => []AdmittedWithinBudget
<1>1. IInv => AdmittedWithinBudget
  <2> SUFFICES ASSUME IInv PROVE AdmittedWithinBudget
    OBVIOUS
  <2>1. /\ estimate \in Vector /\ remaining \in Vector
        /\ DOMAIN steps = 1 .. Len(steps)
    BY DEF IInv, TypeInv
  <2>2. stage = "running" => ~ExceedsBudget(estimate) /\ ~ExceedsLimit(estimate)
    BY <2>1 DEF IInv, StageInv, Within, ExceedsBudget, ExceedsLimit, Vector
  <2>3. ASSUME NEW i \in DOMAIN steps
        PROVE  /\ steps[i].actual.programs > 0 =>
                    Within(steps[i].estimate, Before(i))
               /\ i < Len(steps) => Within(steps[i].actual, Before(i))
    BY <2>1 DEF IInv, ChainInv, Fits, StopFollows
  <2> QED BY <2>2, <2>3 DEF AdmittedWithinBudget, Within
<1> QED BY <1>1, Inductive, PTL

(* A complete run evaluated every program to completion within its budget. *)
THEOREM CompleteSound == PipelineSpec => []CompleteIsComplete
<1>1. IInv => CompleteIsComplete
  <2> SUFFICES ASSUME IInv, runResult = "Complete" PROVE CompleteIsComplete
    BY DEF CompleteIsComplete
  <2>1. /\ DOMAIN steps = 1 .. Len(steps) /\ Len(steps) \in Nat
        /\ steps = <<>> \/ Len(steps) \in 1 .. Len(steps)
    BY DEF IInv, TypeInv
  <2>2. /\ stage = "returned" /\ steps # <<>>
        /\ steps[Len(steps)].stop = "Complete"
    BY DEF IInv, TypeInv, StageInv, KernelError
  <2>3. Len(steps) = programs
    BY <2>1, <2>2 DEF IInv, ChainInv, Fits, StopFollows
  <2>4. ASSUME NEW i \in DOMAIN steps
        PROVE  steps[i].status = "Completed" /\ Within(steps[i].actual, Before(i))
    <3>1. steps[i].stop \in {"none", "Complete"}
      BY <2>1, <2>2 DEF IInv, ChainInv
    <3> QED BY <2>1, <3>1 DEF IInv, ChainInv, Fits, StopFollows
  <2> QED BY <2>3, <2>4 DEF CompleteIsComplete, Within
<1> QED BY <1>1, Inductive, PTL

(* Beliefs move by completed programs only and on declared claims only.    *)
THEOREM BeliefsSound == PipelineSpec => []BeliefsAccounted
<1>1. IInv => BeliefsAccounted
  BY DEF IInv, TypeInv, ChainInv, Fits, BeliefsFollow, BeliefsAccounted
<1> QED BY <1>1, Inductive, PTL

(* A run stopped for its budget had none left of something it wanted.      *)
THEOREM StopsSound == PipelineSpec => []StopsForCause
<1>1. IInv => StopsForCause
  <2> SUFFICES ASSUME IInv, runResult = "BudgetExhausted" PROVE StopsForCause
    BY DEF StopsForCause
  <2>1. steps = <<>> \/ Len(steps) \in 1 .. Len(steps)
    BY DEF IInv, TypeInv
  <2>2. /\ steps # <<>> /\ steps[Len(steps)].stop = "BudgetExhausted"
        /\ remaining = steps[Len(steps)].remaining
    BY DEF IInv, TypeInv, StageInv, ChainInv, KernelError
  <2>3. StopFollows(steps[Len(steps)], Len(steps), Before(Len(steps)))
    BY <2>1, <2>2 DEF IInv, ChainInv, Fits
  <2> QED BY <2>2, <2>3 DEF StopsForCause, StopFollows
<1> QED BY <1>1, Inductive, PTL

(* The reason a run gives for its end is true.                             *)
THEOREM StopReasonSound == PipelineSpec => []StopReasonTrue
BY CompleteSound, StopsSound, PTL DEF StopReasonTrue

-----------------------------------------------------------------------------
(* The ledger                                                              *)

Charge(list, d, total, n) ==
  IF n = 0 THEN 0 ELSE total[n - 1] + list[n].actual[d]

Total(list, d) ==
  CHOOSE total : total = [n \in 0 .. Len(list) |-> Charge(list, d, total, n)]

(* The running total of a list of charges exists: by induction.            *)
LEMMA TotalExists ==
  ASSUME NEW list, Len(list) \in Nat, NEW d
  PROVE  \A n \in 0 .. Len(list) : Total(list, d)[n] = Charge(list, d, Total(list, d), n)
<1> DEFINE P == {m \in Nat : \E total :
                   total = [n \in 0 .. m |-> Charge(list, d, total, n)]}
<1>1. 0 \in P
  <2> DEFINE g == [n \in 0 .. 0 |-> 0]
  <2>1. g = [n \in 0 .. 0 |-> Charge(list, d, g, n)]
    BY DEF Charge
  <2> QED BY <2>1
<1>2. ASSUME NEW m \in Nat, m \in P
      PROVE  m + 1 \in P
  <2>1. PICK g : g = [n \in 0 .. m |-> Charge(list, d, g, n)]
    BY <1>2
  <2> DEFINE h == [n \in 0 .. m + 1 |-> Charge(list, d, g, n)]
  <2>2. \A n \in 0 .. m : h[n] = g[n]
    BY <2>1
  <2>3. \A n \in 0 .. m + 1 : n # 0 => n - 1 \in 0 .. m
    OBVIOUS
  <2>4. \A n \in 0 .. m + 1 : Charge(list, d, g, n) = Charge(list, d, h, n)
    BY <2>2, <2>3 DEF Charge
  <2>5. h = [n \in 0 .. m + 1 |-> Charge(list, d, h, n)]
    BY <2>4
  <2> HIDE DEF h
  <2>6. \E total : total = [n \in 0 .. m + 1 |-> Charge(list, d, total, n)]
    BY <2>5
  <2> QED BY <2>6
<1> HIDE DEF P
<1>3. Len(list) \in P
  BY <1>1, <1>2, Running!NaturalInduction
<1>4. Total(list, d) = [n \in 0 .. Len(list) |-> Charge(list, d, Total(list, d), n)]
  BY <1>3 DEF P, Total
<1> QED BY <1>4

(* Decrementing twice is decrementing by the sum.                          *)
LEMMA LessTwice ==
  ASSUME NEW a \in Int, NEW b \in Nat, NEW c \in Nat
  PROVE  Less(Less(a, b), c) = Less(a, b + c)
  BY DEF Less

(* What remains after each step is what the step was given less what its   *)
(* attestation charges, down to zero.                                      *)
Ledger ==
  \A i \in DOMAIN steps :
    steps[i].remaining = DecrementedBy(Before(i), steps[i].actual)

(* The ledger of a run balances link by link, from the budget on.          *)
THEOREM LedgerLinks == PipelineSpec => []Ledger
<1>1. IInv => Ledger
  BY DEF IInv, TypeInv, ChainInv, Fits, Ledger
<1> QED BY <1>1, Inductive, PTL

(* Link by link it balances as a whole: by induction over the steps.       *)
LEMMA ChainBalances ==
  ASSUME IInv, NEW d \in {"usd", "wall", "programs"}
  PROVE  \A n \in 0 .. Len(steps) :
           /\ Total(steps, d)[n] \in Nat
           /\ n > 0 => steps[n].remaining[d]
                         = Less(budget[d], Total(steps, d)[n])
<1> DEFINE T == Total(steps, d)
           Balanced(n) == /\ T[n] \in Nat
                          /\ n > 0 => steps[n].remaining[d] = Less(budget[d], T[n])
           P == {n \in Nat : n <= Len(steps) => Balanced(n)}
<1>1. /\ Len(steps) \in Nat /\ budget[d] \in Int
      /\ \A n \in 1 .. Len(steps) : steps[n] \in Step
  BY DEF IInv, TypeInv, Vector
<1>2. \A n \in 0 .. Len(steps) : T[n] = Charge(steps, d, T, n)
  BY <1>1, TotalExists
<1> HIDE DEF T
<1>3. ASSUME NEW n \in 1 .. Len(steps)
      PROVE  /\ steps[n].actual[d] \in Nat
             /\ steps[n].remaining[d] = Less(Before(n)[d], steps[n].actual[d])
  <2>1. /\ steps[n].remaining = DecrementedBy(Before(n), steps[n].actual)
        /\ steps[n].actual.usd >= 0
    BY DEF IInv, ChainInv, Fits
  <2>2. steps[n].actual \in Vector
    BY <1>1 DEF Step
  <2> QED BY <2>1, <2>2 DEF Vector, DecrementedBy
<1>4. 0 \in P
  BY <1>1, <1>2 DEF Charge
<1>5. ASSUME NEW n \in Nat, n \in P
      PROVE  n + 1 \in P
  <2> SUFFICES ASSUME n + 1 <= Len(steps)
               PROVE  Balanced(n + 1)
    OBVIOUS
  <2>1. /\ n + 1 \in 1 .. Len(steps) /\ n + 1 \in 0 .. Len(steps)
        /\ (n + 1) - 1 = n /\ n <= Len(steps) /\ n + 1 # 0
    BY <1>1
  <2>2. Balanced(n)
    BY <1>5, <2>1
  <2>3. T[n + 1] = T[n] + steps[n + 1].actual[d]
    BY <1>2, <2>1 DEF Charge
  <2>4. steps[n + 1].remaining[d] = Less(Before(n + 1)[d], steps[n + 1].actual[d])
    BY <1>3, <2>1
  <2>5. CASE n = 0
    <3>1. T[n] = 0 /\ Before(n + 1) = budget
      BY <1>1, <1>2, <2>5 DEF Charge, Before
    <3> QED BY <1>3, <2>1, <2>3, <2>4, <3>1
  <2>6. CASE n # 0
    <3>1. Before(n + 1)[d] = Less(budget[d], T[n])
      BY <2>1, <2>2, <2>6 DEF Before
    <3>2. T[n] \in Nat /\ steps[n + 1].actual[d] \in Nat
      BY <1>3, <2>1, <2>2
    <3>3. Less(Less(budget[d], T[n]), steps[n + 1].actual[d])
            = Less(budget[d], T[n] + steps[n + 1].actual[d])
      BY <1>1, <3>2, LessTwice
    <3> QED BY <2>3, <2>4, <3>1, <3>2, <3>3
  <2> QED BY <2>5, <2>6
<1> HIDE DEF P
<1>6. Nat \subseteq P
  BY <1>4, <1>5, Running!NaturalInduction
<1> QED BY <1>1, <1>6 DEF P, T

(* The run can be recomputed from its attestations: what remains is what   *)
(* the budget had less the sum of everything they charge.                  *)
THEOREM LedgerSound == PipelineSpec => []LedgerBalances
<1>1. IInv => LedgerBalances
  <2> SUFFICES ASSUME IInv, NEW d \in {"usd", "wall", "programs"},
                      steps # <<>>
               PROVE  remaining[d] = Less(budget[d], Spent(d))
    BY DEF LedgerBalances
  <2>1. Len(steps) \in 0 .. Len(steps) /\ Len(steps) > 0
    BY DEF IInv, TypeInv
  <2>2. remaining = steps[Len(steps)].remaining
    BY DEF IInv, ChainInv
  <2>3. Spent(d) = Total(steps, d)[Len(steps)]
    BY DEF Spent, Total, Charge
  <2> QED BY <2>1, <2>2, <2>3, ChainBalances
<1> QED BY <1>1, Inductive, PTL
=============================================================================
