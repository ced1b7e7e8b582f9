-------------------------- MODULE JobServiceProofs --------------------------
(***************************************************************************)
(* Proofs about JobService, for every number of requests, identities,      *)
(* snapshots, permits and queue places.                                    *)
(***************************************************************************)
EXTENDS JobService, FiniteSetTheorems, TLAPS

-----------------------------------------------------------------------------
(* Typing and what a handler or task knows at each of its steps            *)

(* TypeOK with the two counters left unbounded: their bounds follow from   *)
(* the accounting of permits and of the queue.                             *)
Typed ==
  /\ pc \in [Requests -> HandlerPCs]
  /\ key \in [Requests -> Keys \cup {None}]
  /\ answer \in [Requests -> Requests \cup {None}]
  /\ active \in [Keys -> Requests \cup {None}]
  /\ activeLock \in Requests \cup {None}
  /\ queued \in Int
  /\ permits \in Int
  /\ jobs \in [Requests -> JobStates]
  /\ result \in [Requests -> Results \cup {None}]
  /\ error \in [Requests -> ErrorCodes \cup {None}]
  /\ stage \in [Requests -> TaskStages]
  /\ snap \in [Requests -> Snapshots \cup {None}]
  /\ outcome \in [Requests -> Results \cup {None}]
  /\ fault \in [Requests -> AcquisitionErrors \cup {None}]
  /\ cache \in [Repos \X Commits -> Results \cup {None}]
  /\ crashes \in 0 .. MaxCrashes

(* A handler past its parsing has an identity.                             *)
Keyed == \A r \in Requests : pc[r] \in Handling \cup {"answered"}
                               => key[r] \in Keys

(* Only an answered request has a task.                                    *)
TaskAnswered == \A r \in Requests : stage[r] # "none" => pc[r] = "answered"

Resolved == {"readCache", "prepare", "download", "extract", "analyze", "store",
             "finish"}

(* A task past its resolution has a snapshot.                              *)
SnapKnown == \A r \in Requests : stage[r] \in Resolved => snap[r] \in Snapshots

TypeInv == Typed /\ Keyed /\ TaskAnswered /\ SnapKnown

LEMMA TypeInvInit == Init => TypeInv
  BY PositiveConfig, BoundsTyped
  DEF Init, TypeInv, Typed, Keyed, TaskAnswered, SnapKnown, HandlerPCs,
      Handling, JobStates, TaskStages, Resolved

LEMMA TypeInvStep == TypeInv /\ [Next]_vars => TypeInv'
  <1> SUFFICES ASSUME TypeInv, [Next]_vars
               PROVE  TypeInv'
    OBVIOUS
  <1> USE DEF TypeInv, Typed, Keyed, TaskAnswered, SnapKnown, HandlerPCs,
              Handling, JobStates, Running, Terminal, TaskStages, Resolved,
              handlerVars, indexVars, jobVars, locals, taskVars
  <1>1. ASSUME NEW r \in Requests, Receive(r) PROVE TypeInv'
    BY <1>1 DEF Receive
  <1>2. ASSUME NEW r \in Requests, Lookup(r) PROVE TypeInv'
    BY <1>2 DEF Lookup
  <1>3. ASSUME NEW r \in Requests, ReadJob(r) PROVE TypeInv'
    BY <1>3 DEF ReadJob
  <1>4. ASSUME NEW r \in Requests, Reserve(r) PROVE TypeInv'
    BY <1>4 DEF Reserve
  <1>5. ASSUME NEW r \in Requests, Unreserve(r) PROVE TypeInv'
    BY <1>5 DEF Unreserve
  <1>6. ASSUME NEW r \in Requests, InsertJob(r) PROVE TypeInv'
    BY <1>6 DEF InsertJob
  <1>7. ASSUME NEW r \in Requests, Register(r) PROVE TypeInv'
    BY <1>7 DEF Register
  <1>8. ASSUME NEW r \in Requests, Disconnect(r) PROVE TypeInv'
    BY <1>8 DEF Disconnect
  <1>9. ASSUME NEW r \in Requests, Acquire(r) PROVE TypeInv'
    BY <1>9 DEF Acquire
  <1>10. ASSUME NEW r \in Requests, Dequeue(r) PROVE TypeInv'
    BY <1>10 DEF Dequeue
  <1>11. ASSUME NEW r \in Requests, Start(r) PROVE TypeInv'
    BY <1>11 DEF Start, SetJob
  <1>12. ASSUME NEW r \in Requests, Resolve(r) PROVE TypeInv'
    BY SMTT(30), <1>12 DEF Resolve, GiveUp, AcquisitionErrors
  <1>13. ASSUME NEW r \in Requests, ReadCache(r) PROVE TypeInv'
    BY <1>13 DEF ReadCache, CacheKey, Snapshots
  <1>14. ASSUME NEW r \in Requests, Prepare(r) PROVE TypeInv'
    BY <1>14 DEF Prepare, SetJob, GiveUp, AcquisitionErrors
  <1>15. ASSUME NEW r \in Requests, Download(r) PROVE TypeInv'
    BY <1>15 DEF Download, SetJob, GiveUp, AcquisitionErrors
  <1>16. ASSUME NEW r \in Requests, Extract(r) PROVE TypeInv'
    BY <1>16 DEF Extract, SetJob, GiveUp, AcquisitionErrors
  <1>17. ASSUME NEW r \in Requests, Analyze(r) PROVE TypeInv'
    <2>1. ASSUME NEW partial \in BOOLEAN,
                 outcome' = [outcome EXCEPT ![r] = [of |-> snap[r], partial |-> partial]],
                 stage[r] = "analyze", stage' = [stage EXCEPT ![r] = "store"],
                 UNCHANGED <<handlerVars, indexVars, queued, permits, jobVars,
                             snap, fault, cache, crashes>>
          PROVE  TypeInv'
      <3>1. [of |-> snap[r], partial |-> partial] \in Results
        BY <2>1 DEF Results
      <3>2. outcome' \in [Requests -> Results \cup {None}]
        BY <2>1, <3>1
      <3> QED
        BY <2>1, <3>2
    <2>2. ASSUME NEW e \in {"Io", "Upstream"}, GiveUp(r, e), stage[r] = "analyze"
          PROVE  TypeInv'
      BY <2>2 DEF GiveUp, AcquisitionErrors
    <2> QED
      BY <1>17, <2>1, <2>2 DEF Analyze
  <1>18. ASSUME NEW r \in Requests, Store(r) PROVE TypeInv'
    BY <1>18 DEF Store
  <1>19. ASSUME NEW r \in Requests, Finish(r) PROVE TypeInv'
    BY <1>19 DEF Finish, FinalState
  <1>20. ASSUME NEW r \in Requests, FailJob(r) PROVE TypeInv'
    BY <1>20 DEF FailJob, ErrorCode, ErrorCodes
  <1>21. ASSUME NEW r \in Requests, Unregister(r) PROVE TypeInv'
    BY <1>21 DEF Unregister
  <1>22. ASSUME NEW r \in Requests, Release(r) PROVE TypeInv'
    BY <1>22 DEF Release
  <1>23. ASSUME Crash PROVE TypeInv'
    BY <1>23, BoundsTyped, PositiveConfig DEF Crash
  <1>24. ASSUME UNCHANGED vars PROVE TypeInv'
    BY <1>24 DEF vars
  <1> QED
    BY <1>1, <1>2, <1>3, <1>4, <1>5, <1>6, <1>7, <1>8, <1>9, <1>10, <1>11,
       <1>12, <1>13, <1>14, <1>15, <1>16, <1>17, <1>18, <1>19, <1>20, <1>21,
       <1>22, <1>23, <1>24
    DEF Next, Handle, Work, Upstream, Quiet

-----------------------------------------------------------------------------
(* Permits                                                                 *)

LEMMA HoldingFinite ==
  /\ IsFiniteSet(Holding)
  /\ IsFiniteSet(Counted)
  /\ IsFiniteSet(Waiting)
  /\ IsFiniteSet(Lost)
<1>1. /\ Holding \subseteq Requests
      /\ Waiting \subseteq Requests
      /\ Lost \subseteq Requests
      /\ Counted \subseteq Requests
  BY DEF Holding, Waiting, Lost, Counted
<1> QED BY <1>1, RequestsFinite, FS_Subset

(* How a step moves permits: Acquire takes one for its task, Release gives *)
(* back its own, a restart starts over.                                    *)
PermitMove ==
  \/ Holding' = Holding /\ permits' = permits
  \/ \E r \in Requests \ Holding : /\ permits > 0
                                   /\ Holding' = Holding \cup {r}
                                   /\ permits' = permits - 1
  \/ \E r \in Holding : /\ Holding' = Holding \ {r}
                        /\ permits' = permits + 1
  \/ Holding' = {} /\ permits' = Workers

LEMMA PermitMoves == TypeInv /\ [Next]_vars => PermitMove
  <1> SUFFICES ASSUME TypeInv, [Next]_vars
               PROVE  PermitMove
    OBVIOUS
  <1> USE DEF TypeInv, Typed, TaskAnswered, PermitMove, Holding, TaskStages,
              handlerVars, indexVars, jobVars, locals, taskVars
  <1>1. ASSUME NEW r \in Requests, Receive(r) PROVE PermitMove
    BY <1>1 DEF Receive
  <1>2. ASSUME NEW r \in Requests, Lookup(r) PROVE PermitMove
    BY <1>2 DEF Lookup
  <1>3. ASSUME NEW r \in Requests, ReadJob(r) PROVE PermitMove
    BY <1>3 DEF ReadJob
  <1>4. ASSUME NEW r \in Requests, Reserve(r) PROVE PermitMove
    BY <1>4 DEF Reserve
  <1>5. ASSUME NEW r \in Requests, Unreserve(r) PROVE PermitMove
    BY <1>5 DEF Unreserve
  <1>6. ASSUME NEW r \in Requests, InsertJob(r) PROVE PermitMove
    BY <1>6 DEF InsertJob
  <1>7. ASSUME NEW r \in Requests, Register(r) PROVE PermitMove
    BY <1>7 DEF Register
  <1>8. ASSUME NEW r \in Requests, Disconnect(r) PROVE PermitMove
    BY <1>8 DEF Disconnect
  <1>9. ASSUME NEW r \in Requests, Acquire(r) PROVE PermitMove
    BY <1>9 DEF Acquire
  <1>10. ASSUME NEW r \in Requests, Dequeue(r) PROVE PermitMove
    BY <1>10 DEF Dequeue
  <1>11. ASSUME NEW r \in Requests, Start(r) PROVE PermitMove
    BY <1>11 DEF Start, SetJob
  <1>12. ASSUME NEW r \in Requests, Resolve(r) PROVE PermitMove
    BY <1>12 DEF Resolve, GiveUp
  <1>13. ASSUME NEW r \in Requests, ReadCache(r) PROVE PermitMove
    BY <1>13 DEF ReadCache
  <1>14. ASSUME NEW r \in Requests, Prepare(r) PROVE PermitMove
    BY <1>14 DEF Prepare, SetJob, GiveUp
  <1>15. ASSUME NEW r \in Requests, Download(r) PROVE PermitMove
    BY <1>15 DEF Download, SetJob, GiveUp
  <1>16. ASSUME NEW r \in Requests, Extract(r) PROVE PermitMove
    BY <1>16 DEF Extract, SetJob, GiveUp
  <1>17. ASSUME NEW r \in Requests, Analyze(r) PROVE PermitMove
    BY <1>17 DEF Analyze, GiveUp
  <1>18. ASSUME NEW r \in Requests, Store(r) PROVE PermitMove
    BY <1>18 DEF Store
  <1>19. ASSUME NEW r \in Requests, Finish(r) PROVE PermitMove
    BY <1>19 DEF Finish
  <1>20. ASSUME NEW r \in Requests, FailJob(r) PROVE PermitMove
    BY <1>20 DEF FailJob
  <1>21. ASSUME NEW r \in Requests, Unregister(r) PROVE PermitMove
    BY <1>21 DEF Unregister
  <1>22. ASSUME NEW r \in Requests, Release(r) PROVE PermitMove
    BY <1>22 DEF Release
  <1>23. ASSUME Crash PROVE PermitMove
    BY <1>23 DEF Crash
  <1>24. ASSUME UNCHANGED vars PROVE PermitMove
    BY <1>24 DEF vars
  <1> QED
    BY <1>1, <1>2, <1>3, <1>4, <1>5, <1>6, <1>7, <1>8, <1>9, <1>10, <1>11,
       <1>12, <1>13, <1>14, <1>15, <1>16, <1>17, <1>18, <1>19, <1>20, <1>21,
       <1>22, <1>23, <1>24
    DEF Next, Handle, Work, Upstream, Quiet

LEMMA PermitsStep ==
  TypeInv /\ PermitsConserved /\ permits \in Nat /\ [Next]_vars
    => PermitsConserved' /\ permits' \in Nat
  <1> SUFFICES ASSUME TypeInv, PermitsConserved, permits \in Nat, PermitMove
               PROVE  PermitsConserved' /\ permits' \in Nat
    BY PermitMoves
  <1> USE DEF PermitsConserved
  <1>1. /\ IsFiniteSet(Holding)
        /\ Cardinality(Holding) \in Nat
        /\ Workers \in Nat
    BY HoldingFinite, FS_CardinalityType, PositiveConfig
  <1>2. CASE Holding' = Holding /\ permits' = permits
    BY <1>2
  <1>3. ASSUME NEW r \in Requests \ Holding,
               permits > 0, Holding' = Holding \cup {r}, permits' = permits - 1
        PROVE  PermitsConserved' /\ permits' \in Nat
    <2>1. Cardinality(Holding') = Cardinality(Holding) + 1
      BY <1>1, <1>3, FS_AddElement
    <2> QED
      BY <1>1, <1>3, <2>1
  <1>4. ASSUME NEW r \in Holding,
               Holding' = Holding \ {r}, permits' = permits + 1
        PROVE  PermitsConserved' /\ permits' \in Nat
    <2>1. Cardinality(Holding') = Cardinality(Holding) - 1
      BY <1>1, <1>4, FS_RemoveElement
    <2> QED
      BY <1>1, <1>4, <2>1
  <1>5. CASE Holding' = {} /\ permits' = Workers
    BY <1>1, <1>5, FS_EmptySet
  <1> QED
    BY <1>2, <1>3, <1>4, <1>5 DEF PermitMove

-----------------------------------------------------------------------------
(* The queue counter                                                       *)

(* How a step moves the counter: Reserve counts its request in, admitting  *)
(* it only below capacity; Unreserve and Dequeue count theirs out.         *)
CountMove ==
  \/ Counted' = Counted /\ Admitted' = Admitted /\ queued' = queued
  \/ \E r \in Requests \ Counted :
        /\ Counted' = Counted \cup {r}
        /\ queued' = queued + 1
        /\ \/ Admitted' = Admitted
           \/ Admitted' = Admitted \cup {r} /\ queued < QueueCapacity
  \/ \E r \in Counted : /\ Counted' = Counted \ {r}
                        /\ queued' = queued - 1
                        /\ Admitted' \subseteq Admitted
  \/ Counted' = {} /\ Admitted' = {} /\ queued' = 0

LEMMA CountMoves == TypeInv /\ [Next]_vars => CountMove
  <1> SUFFICES ASSUME TypeInv, [Next]_vars
               PROVE  CountMove
    OBVIOUS
  <1> USE DEF TypeInv, Typed, TaskAnswered, CountMove, Counted,
              Waiting, Lost, Admitted, HandlerPCs, Handling, TaskStages, handlerVars,
              indexVars, jobVars, locals, taskVars
  <1>1. ASSUME NEW r \in Requests, Receive(r) PROVE CountMove
    BY <1>1 DEF Receive
  <1>2. ASSUME NEW r \in Requests, Lookup(r) PROVE CountMove
    BY <1>2 DEF Lookup
  <1>3. ASSUME NEW r \in Requests, ReadJob(r) PROVE CountMove
    BY <1>3 DEF ReadJob
  <1>4. ASSUME NEW r \in Requests, Reserve(r) PROVE CountMove
    BY <1>4, PositiveConfig DEF Reserve
  <1>5. ASSUME NEW r \in Requests, Unreserve(r) PROVE CountMove
    BY <1>5 DEF Unreserve
  <1>6. ASSUME NEW r \in Requests, InsertJob(r) PROVE CountMove
    BY <1>6 DEF InsertJob
  <1>7. ASSUME NEW r \in Requests, Register(r) PROVE CountMove
    BY <1>7 DEF Register
  <1>8. ASSUME NEW r \in Requests, Disconnect(r) PROVE CountMove
    BY <1>8 DEF Disconnect
  <1>9. ASSUME NEW r \in Requests, Acquire(r) PROVE CountMove
    BY <1>9 DEF Acquire
  <1>10. ASSUME NEW r \in Requests, Dequeue(r) PROVE CountMove
    BY <1>10 DEF Dequeue
  <1>11. ASSUME NEW r \in Requests, Start(r) PROVE CountMove
    BY <1>11 DEF Start, SetJob
  <1>12. ASSUME NEW r \in Requests, Resolve(r) PROVE CountMove
    BY <1>12 DEF Resolve, GiveUp
  <1>13. ASSUME NEW r \in Requests, ReadCache(r) PROVE CountMove
    BY <1>13 DEF ReadCache
  <1>14. ASSUME NEW r \in Requests, Prepare(r) PROVE CountMove
    BY <1>14 DEF Prepare, SetJob, GiveUp
  <1>15. ASSUME NEW r \in Requests, Download(r) PROVE CountMove
    BY <1>15 DEF Download, SetJob, GiveUp
  <1>16. ASSUME NEW r \in Requests, Extract(r) PROVE CountMove
    BY <1>16 DEF Extract, SetJob, GiveUp
  <1>17. ASSUME NEW r \in Requests, Analyze(r) PROVE CountMove
    BY <1>17 DEF Analyze, GiveUp
  <1>18. ASSUME NEW r \in Requests, Store(r) PROVE CountMove
    BY <1>18 DEF Store
  <1>19. ASSUME NEW r \in Requests, Finish(r) PROVE CountMove
    BY <1>19 DEF Finish
  <1>20. ASSUME NEW r \in Requests, FailJob(r) PROVE CountMove
    BY <1>20 DEF FailJob
  <1>21. ASSUME NEW r \in Requests, Unregister(r) PROVE CountMove
    BY <1>21 DEF Unregister
  <1>22. ASSUME NEW r \in Requests, Release(r) PROVE CountMove
    BY <1>22 DEF Release
  <1>23. ASSUME Crash PROVE CountMove
    BY <1>23 DEF Crash
  <1>24. ASSUME UNCHANGED vars PROVE CountMove
    BY <1>24 DEF vars
  <1> QED
    BY <1>1, <1>2, <1>3, <1>4, <1>5, <1>6, <1>7, <1>8, <1>9, <1>10, <1>11,
       <1>12, <1>13, <1>14, <1>15, <1>16, <1>17, <1>18, <1>19, <1>20, <1>21,
       <1>22, <1>23, <1>24
    DEF Next, Handle, Work, Upstream, Quiet

(* The counter as one number: lost places are never also waited for.       *)
CounterExact == queued = Cardinality(Counted)

LEMMA CountedApart ==
  TypeInv => Cardinality(Counted) = Cardinality(Waiting) + Cardinality(Lost)
  <1> SUFFICES ASSUME TypeInv
               PROVE  Cardinality(Counted)
                        = Cardinality(Waiting) + Cardinality(Lost)
    OBVIOUS
  <1>1. Waiting \cap Lost = {}
    BY DEF TypeInv, TaskAnswered, Waiting, Lost
  <1>2. Cardinality(Counted) = Cardinality(Waiting) + Cardinality(Lost)
                                 - Cardinality(Waiting \cap Lost)
    BY HoldingFinite, FS_Union DEF Counted
  <1>3. Cardinality(Waiting \cap Lost) = 0
    BY <1>1, FS_EmptySet
  <1>4. Cardinality(Waiting) \in Nat /\ Cardinality(Lost) \in Nat
    BY HoldingFinite, FS_CardinalityType
  <1> QED
    BY <1>2, <1>3, <1>4

LEMMA QueueStep ==
  TypeInv /\ CounterExact /\ AdmissionBound /\ [Next]_vars
    => CounterExact' /\ AdmissionBound'
  <1> SUFFICES ASSUME TypeInv, CounterExact, AdmissionBound, CountMove
               PROVE  CounterExact' /\ AdmissionBound'
    BY CountMoves
  <1> USE DEF CounterExact, AdmissionBound
  <1>1. /\ IsFiniteSet(Counted)
        /\ Admitted \subseteq Counted
        /\ IsFiniteSet(Admitted)
        /\ Cardinality(Counted) \in Nat
        /\ Cardinality(Admitted) \in Nat
        /\ Cardinality(Admitted) <= Cardinality(Counted)
        /\ queued \in Int
        /\ QueueCapacity \in Nat
    BY HoldingFinite, FS_Subset, FS_CardinalityType, PositiveConfig
    DEF TypeInv, Typed, Admitted
  <1>2. CASE Counted' = Counted /\ Admitted' = Admitted /\ queued' = queued
    BY <1>2
  <1>3. ASSUME NEW r \in Requests \ Counted,
               Counted' = Counted \cup {r},
               queued' = queued + 1,
               \/ Admitted' = Admitted
               \/ Admitted' = Admitted \cup {r} /\ queued < QueueCapacity
        PROVE  CounterExact' /\ AdmissionBound'
    <2>1. CounterExact'
      BY <1>1, <1>3, FS_AddElement
    <2>2. CASE Admitted' = Admitted
      BY <2>1, <2>2
    <2>3. CASE Admitted' = Admitted \cup {r} /\ queued < QueueCapacity
      <3>1. Cardinality(Admitted') = Cardinality(Admitted) + 1
        <4>1. IsFiniteSet(Admitted) /\ r \notin Admitted
          BY <1>1
        <4>2. Cardinality(Admitted \cup {r}) = Cardinality(Admitted) + 1
          BY <4>1, FS_AddElement
        <4> QED
          BY <1>1, <2>3, <4>2
      <3> QED
        BY <1>1, <2>1, <2>3, <3>1
    <2> QED
      BY <1>3, <2>2, <2>3
  <1>4. ASSUME NEW r \in Counted,
               Counted' = Counted \ {r},
               queued' = queued - 1,
               Admitted' \subseteq Admitted
        PROVE  CounterExact' /\ AdmissionBound'
    <2>1. CounterExact'
      BY <1>1, <1>4, FS_RemoveElement
    <2>2. Cardinality(Admitted') <= Cardinality(Admitted)
      BY <1>1, <1>4, FS_Subset
    <2>3. Cardinality(Admitted') \in Nat
      BY <1>1, <1>4, FS_Subset, FS_CardinalityType
    <2> QED
      BY <1>1, <2>1, <2>2, <2>3
  <1>5. CASE Counted' = {} /\ Admitted' = {} /\ queued' = 0
    BY <1>1, <1>5, FS_EmptySet
  <1> QED
    BY <1>2, <1>3, <1>4, <1>5 DEF CountMove

(* No step but the drop of a handler loses a place.                        *)
LEMMA LossStep ==
  TypeInv /\ (Lost # {} => Disconnects) /\ [Next]_vars
    => (Lost' # {} => Disconnects)
  <1> SUFFICES ASSUME TypeInv, [Next]_vars, NEW q \in Lost', q \notin Lost
               PROVE  Disconnects
    OBVIOUS
  <1>1. pc'[q] = "leaked" /\ pc[q] # "leaked" /\ q \in Requests
    BY DEF Lost
  <1> USE <1>1 DEF TypeInv, Typed, handlerVars
  <1>2. CASE \E r \in Requests : Disconnect(r)
    BY <1>2 DEF Disconnect
  <1>3. CASE \E r \in Requests : Receive(r) \/ Handle(r)
    BY <1>3 DEF Receive, Handle, Lookup, ReadJob, Reserve, Unreserve,
                InsertJob, Register
  <1>4. CASE \E r \in Requests : Work(r) \/ Upstream(r)
    BY <1>4 DEF Work, Upstream, Acquire, Dequeue, Start, SetJob, ReadCache,
                Prepare, Extract, GiveUp, Analyze, Store, Finish, FailJob,
                Unregister, Release, Resolve, Download
  <1>5. CASE Crash
    BY <1>5 DEF Crash
  <1>6. CASE UNCHANGED vars
    BY <1>6 DEF vars
  <1> QED
    BY <1>2, <1>3, <1>4, <1>5, <1>6 DEF Next, Quiet

CountInv ==
  /\ PermitsConserved /\ permits \in Nat
  /\ CounterExact /\ AdmissionBound
  /\ Lost # {} => Disconnects

LEMMA CountInvInit == Init => CountInv
  <1> SUFFICES ASSUME Init PROVE CountInv
    OBVIOUS
  <1>1. Holding = {} /\ Counted = {} /\ Admitted = {} /\ Lost = {}
    BY DEF Init, Holding, Counted, Admitted, Waiting, Lost
  <1> QED
    BY <1>1, FS_EmptySet, PositiveConfig
    DEF Init, CountInv, PermitsConserved, CounterExact, AdmissionBound

(* TypeOK adds the bounds of the counters to Typed.                        *)
LEMMA TypeOKFromCounts == TypeInv /\ CountInv => TypeOK
  <1> SUFFICES ASSUME TypeInv, CountInv PROVE TypeOK
    OBVIOUS
  <1>1. Cardinality(Holding) \in Nat /\ Cardinality(Counted) \in Nat
    BY HoldingFinite, FS_CardinalityType
  <1>2. queued \in Nat /\ permits \in 0 .. Workers
    BY <1>1, PositiveConfig
    DEF TypeInv, Typed, CountInv, PermitsConserved, CounterExact
  <1> QED
    BY <1>2 DEF TypeInv, Typed, TypeOK

-----------------------------------------------------------------------------
(* Job states                                                              *)

(* The job states in which a task can be at each of its stages.            *)
JobAtStage ==
  \A r \in Requests :
    /\ stage[r] = "none" => jobs[r] \in {"absent", "queued"}
    /\ stage[r] \in {"acquire", "dequeue", "start"} => jobs[r] = "queued"
    /\ stage[r] \in {"resolve", "readCache", "prepare"}
         => jobs[r] = "resolving"
    /\ stage[r] = "download" => jobs[r] = "downloading"
    /\ stage[r] = "extract" => jobs[r] = "extracting"
    /\ stage[r] \in {"analyze", "store"} => jobs[r] = "analyzing"
    /\ stage[r] = "finish" => jobs[r] \in {"resolving", "analyzing"}
    /\ stage[r] = "fail" => jobs[r] \in Running
    /\ stage[r] \in {"unregister", "release", "ended"}
         => jobs[r] \in Terminal

(* Before its task a job is in the table from its insertion on, for ever   *)
(* when its handler is dropped there.                                      *)
JobAtHandler ==
  \A r \in Requests :
    /\ stage[r] = "none" /\ pc[r] \notin {"register", "leaked"}
         => jobs[r] = "absent"
    /\ pc[r] = "register" => jobs[r] = "queued"

PhaseInv == JobAtStage /\ JobAtHandler

LEMMA PhaseInvStep == TypeInv /\ PhaseInv /\ [Next]_vars => PhaseInv'
  <1> SUFFICES ASSUME TypeInv, PhaseInv, [Next]_vars
               PROVE  PhaseInv'
    OBVIOUS
  <1> USE DEF TypeInv, Typed, TaskAnswered, PhaseInv, JobAtStage, JobAtHandler,
              HandlerPCs, Handling, JobStates, Running, Terminal, TaskStages,
              handlerVars, indexVars, jobVars, locals, taskVars
  <1>1. ASSUME NEW r \in Requests, Receive(r) PROVE PhaseInv'
    BY <1>1 DEF Receive
  <1>2. ASSUME NEW r \in Requests, Lookup(r) PROVE PhaseInv'
    BY <1>2 DEF Lookup
  <1>3. ASSUME NEW r \in Requests, ReadJob(r) PROVE PhaseInv'
    BY <1>3 DEF ReadJob
  <1>4. ASSUME NEW r \in Requests, Reserve(r) PROVE PhaseInv'
    BY <1>4 DEF Reserve
  <1>5. ASSUME NEW r \in Requests, Unreserve(r) PROVE PhaseInv'
    BY <1>5 DEF Unreserve
  <1>6. ASSUME NEW r \in Requests, InsertJob(r) PROVE PhaseInv'
    BY <1>6 DEF InsertJob
  <1>7. ASSUME NEW r \in Requests, Register(r) PROVE PhaseInv'
    BY <1>7 DEF Register
  <1>8. ASSUME NEW r \in Requests, Disconnect(r) PROVE PhaseInv'
    BY <1>8 DEF Disconnect
  <1>9. ASSUME NEW r \in Requests, Acquire(r) PROVE PhaseInv'
    BY <1>9 DEF Acquire
  <1>10. ASSUME NEW r \in Requests, Dequeue(r) PROVE PhaseInv'
    BY <1>10 DEF Dequeue
  <1>11. ASSUME NEW r \in Requests, Start(r) PROVE PhaseInv'
    BY <1>11 DEF Start, SetJob
  <1>12. ASSUME NEW r \in Requests, Resolve(r) PROVE PhaseInv'
    BY <1>12 DEF Resolve, GiveUp
  <1>13. ASSUME NEW r \in Requests, ReadCache(r) PROVE PhaseInv'
    BY <1>13 DEF ReadCache
  <1>14. ASSUME NEW r \in Requests, Prepare(r) PROVE PhaseInv'
    BY <1>14 DEF Prepare, SetJob, GiveUp
  <1>15. ASSUME NEW r \in Requests, Download(r) PROVE PhaseInv'
    BY <1>15 DEF Download, SetJob, GiveUp
  <1>16. ASSUME NEW r \in Requests, Extract(r) PROVE PhaseInv'
    BY <1>16 DEF Extract, SetJob, GiveUp
  <1>17. ASSUME NEW r \in Requests, Analyze(r) PROVE PhaseInv'
    BY <1>17 DEF Analyze, GiveUp
  <1>18. ASSUME NEW r \in Requests, Store(r) PROVE PhaseInv'
    BY <1>18 DEF Store
  <1>19. ASSUME NEW r \in Requests, Finish(r) PROVE PhaseInv'
    BY <1>19 DEF Finish, FinalState
  <1>20. ASSUME NEW r \in Requests, FailJob(r) PROVE PhaseInv'
    BY <1>20 DEF FailJob
  <1>21. ASSUME NEW r \in Requests, Unregister(r) PROVE PhaseInv'
    BY <1>21 DEF Unregister
  <1>22. ASSUME NEW r \in Requests, Release(r) PROVE PhaseInv'
    BY <1>22 DEF Release
  <1>23. ASSUME Crash PROVE PhaseInv'
    BY <1>23 DEF Crash
  <1>24. ASSUME UNCHANGED vars PROVE PhaseInv'
    BY <1>24 DEF vars
  <1> QED
    BY <1>1, <1>2, <1>3, <1>4, <1>5, <1>6, <1>7, <1>8, <1>9, <1>10, <1>11,
       <1>12, <1>13, <1>14, <1>15, <1>16, <1>17, <1>18, <1>19, <1>20, <1>21,
       <1>22, <1>23, <1>24
    DEF Next, Handle, Work, Upstream, Quiet

-----------------------------------------------------------------------------
(* The index of active analyses                                            *)

(* Also between the lookup of an id and the reading of its job, an id a    *)
(* handler holds is of a job with the identity it asks for.                *)
IndexInv ==
  /\ \A k \in Keys : active[k] # None =>
       /\ key[active[k]] = k
       /\ stage[active[k]] \notin {"none", "release", "ended"}
  /\ \A r \in Requests : pc[r] \in {"readJob", "answered"} =>
       /\ answer[r] \in Requests
       /\ key[answer[r]] = key[r]
       /\ pc[answer[r]] = "answered"
       /\ pc[r] = "readJob" \/ crashes = 0 => jobs[answer[r]] # "absent"

LEMMA IndexInvStep ==
  TypeInv /\ PhaseInv /\ IndexInv /\ [Next]_vars => IndexInv'
  <1> SUFFICES ASSUME TypeInv, PhaseInv, IndexInv, [Next]_vars
               PROVE  IndexInv'
    OBVIOUS
  <1> USE NoneIsNone
      DEF TypeInv, Typed, Keyed, TaskAnswered, IndexInv, HandlerPCs, Handling,
          TaskStages, handlerVars, indexVars, jobVars, locals, taskVars
  <1>1. ASSUME NEW r \in Requests, Receive(r) PROVE IndexInv'
    BY <1>1 DEF Receive
  <1>2. ASSUME NEW r \in Requests, Lookup(r) PROVE IndexInv'
    BY <1>2 DEF Lookup, PhaseInv, JobAtStage, Running, Terminal
  <1>3. ASSUME NEW r \in Requests, ReadJob(r) PROVE IndexInv'
    BY <1>3 DEF ReadJob
  <1>4. ASSUME NEW r \in Requests, Reserve(r) PROVE IndexInv'
    BY <1>4 DEF Reserve
  <1>5. ASSUME NEW r \in Requests, Unreserve(r) PROVE IndexInv'
    BY <1>5 DEF Unreserve
  <1>6. ASSUME NEW r \in Requests, InsertJob(r) PROVE IndexInv'
    BY <1>6 DEF InsertJob
  <1>7. ASSUME NEW r \in Requests, Register(r) PROVE IndexInv'
    BY <1>7 DEF Register, PhaseInv, JobAtHandler
  <1>8. ASSUME NEW r \in Requests, Disconnect(r) PROVE IndexInv'
    BY <1>8 DEF Disconnect
  <1>9. ASSUME NEW r \in Requests, Acquire(r) PROVE IndexInv'
    BY <1>9 DEF Acquire
  <1>10. ASSUME NEW r \in Requests, Dequeue(r) PROVE IndexInv'
    BY <1>10 DEF Dequeue
  <1>11. ASSUME NEW r \in Requests, Start(r) PROVE IndexInv'
    BY <1>11 DEF Start, SetJob
  <1>12. ASSUME NEW r \in Requests, Resolve(r) PROVE IndexInv'
    BY <1>12 DEF Resolve, GiveUp
  <1>13. ASSUME NEW r \in Requests, ReadCache(r) PROVE IndexInv'
    BY <1>13 DEF ReadCache
  <1>14. ASSUME NEW r \in Requests, Prepare(r) PROVE IndexInv'
    BY <1>14 DEF Prepare, SetJob, GiveUp
  <1>15. ASSUME NEW r \in Requests, Download(r) PROVE IndexInv'
    BY <1>15 DEF Download, SetJob, GiveUp
  <1>16. ASSUME NEW r \in Requests, Extract(r) PROVE IndexInv'
    BY <1>16 DEF Extract, SetJob, GiveUp
  <1>17. ASSUME NEW r \in Requests, Analyze(r) PROVE IndexInv'
    BY <1>17 DEF Analyze, GiveUp
  <1>18. ASSUME NEW r \in Requests, Store(r) PROVE IndexInv'
    BY <1>18 DEF Store
  <1>19. ASSUME NEW r \in Requests, Finish(r) PROVE IndexInv'
    BY <1>19 DEF Finish, FinalState
  <1>20. ASSUME NEW r \in Requests, FailJob(r) PROVE IndexInv'
    BY <1>20 DEF FailJob
  <1>21. ASSUME NEW r \in Requests, Unregister(r) PROVE IndexInv'
    BY <1>21 DEF Unregister
  <1>22. ASSUME NEW r \in Requests, Release(r) PROVE IndexInv'
    BY <1>22 DEF Release
  <1>23. ASSUME Crash PROVE IndexInv'
    BY <1>23, BoundsTyped DEF Crash
  <1>24. ASSUME UNCHANGED vars PROVE IndexInv'
    BY <1>24 DEF vars
  <1> QED
    BY <1>1, <1>2, <1>3, <1>4, <1>5, <1>6, <1>7, <1>8, <1>9, <1>10, <1>11,
       <1>12, <1>13, <1>14, <1>15, <1>16, <1>17, <1>18, <1>19, <1>20, <1>21,
       <1>22, <1>23, <1>24
    DEF Next, Handle, Work, Upstream, Quiet

-----------------------------------------------------------------------------
(* Results and the cache                                                   *)

Unfinished == Resolved \cup {"none", "acquire", "dequeue", "start", "resolve",
                             "fail"}

DataInv ==
  /\ CacheSound
  /\ ResultOfSnapshot
  /\ \A r \in Requests :
       /\ stage[r] \in {"store", "finish"} => /\ outcome[r] \in Results
                                              /\ outcome[r].of = snap[r]
       /\ stage[r] \in Unfinished => result[r] = None

LEMMA CacheHit ==
  ASSUME CacheSound, Typed, NEW s \in Snapshots, cache[CacheKey(s)] # None
  PROVE  /\ cache[CacheKey(s)] \in Results
         /\ cache[CacheKey(s)].of = s
  BY DEF CacheSound, CacheKey, Snapshots, Typed

LEMMA DataInvStep == TypeInv /\ DataInv /\ [Next]_vars => DataInv'
  <1> SUFFICES ASSUME TypeInv, DataInv, [Next]_vars
               PROVE  DataInv'
    OBVIOUS
  <1> USE NoneIsNone
      DEF TypeInv, Typed, TaskAnswered, SnapKnown, DataInv, CacheSound,
          ResultOfSnapshot, Resolved, Unfinished, HandlerPCs, Handling,
          TaskStages, handlerVars, indexVars, jobVars, locals, taskVars
  <1>1. ASSUME NEW r \in Requests, Receive(r) PROVE DataInv'
    BY <1>1 DEF Receive
  <1>2. ASSUME NEW r \in Requests, Lookup(r) PROVE DataInv'
    BY <1>2 DEF Lookup
  <1>3. ASSUME NEW r \in Requests, ReadJob(r) PROVE DataInv'
    BY <1>3 DEF ReadJob
  <1>4. ASSUME NEW r \in Requests, Reserve(r) PROVE DataInv'
    BY <1>4 DEF Reserve
  <1>5. ASSUME NEW r \in Requests, Unreserve(r) PROVE DataInv'
    BY <1>5 DEF Unreserve
  <1>6. ASSUME NEW r \in Requests, InsertJob(r) PROVE DataInv'
    BY <1>6 DEF InsertJob
  <1>7. ASSUME NEW r \in Requests, Register(r) PROVE DataInv'
    BY <1>7 DEF Register
  <1>8. ASSUME NEW r \in Requests, Disconnect(r) PROVE DataInv'
    BY <1>8 DEF Disconnect
  <1>9. ASSUME NEW r \in Requests, Acquire(r) PROVE DataInv'
    BY <1>9 DEF Acquire
  <1>10. ASSUME NEW r \in Requests, Dequeue(r) PROVE DataInv'
    BY <1>10 DEF Dequeue
  <1>11. ASSUME NEW r \in Requests, Start(r) PROVE DataInv'
    BY <1>11 DEF Start, SetJob
  <1>12. ASSUME NEW r \in Requests, Resolve(r) PROVE DataInv'
    BY <1>12 DEF Resolve, GiveUp
  <1>13. ASSUME NEW r \in Requests, ReadCache(r) PROVE DataInv'
    BY <1>13, CacheHit DEF ReadCache
  <1>14. ASSUME NEW r \in Requests, Prepare(r) PROVE DataInv'
    BY <1>14 DEF Prepare, SetJob, GiveUp
  <1>15. ASSUME NEW r \in Requests, Download(r) PROVE DataInv'
    BY <1>15 DEF Download, SetJob, GiveUp
  <1>16. ASSUME NEW r \in Requests, Extract(r) PROVE DataInv'
    BY <1>16 DEF Extract, SetJob, GiveUp
  <1>17. ASSUME NEW r \in Requests, Analyze(r) PROVE DataInv'
    BY <1>17 DEF Analyze, GiveUp, Results
  <1>18. ASSUME NEW r \in Requests, Store(r) PROVE DataInv'
    <2>1. CacheSound'
      <3> SUFFICES ASSUME NEW f \in Repos \X Commits, cache'[f] # None
                   PROVE  cache'[f].of = [repo |-> f[1], commit |-> f[2]]
        BY DEF CacheSound
      <3>1. CASE cache'[f] = cache[f]
        BY <3>1
      <3>2. CASE cache' = [cache EXCEPT ![CacheKey(snap[r])] = outcome[r]]
                 /\ f = CacheKey(snap[r])
        <4>1. snap[r] \in Snapshots /\ outcome[r].of = snap[r]
          BY <1>18 DEF Store
        <4>2. snap[r] = [repo |-> f[1], commit |-> f[2]]
          BY <3>2, <4>1 DEF CacheKey, Snapshots
        <4> QED
          BY <3>2, <4>1, <4>2
      <3> QED
        BY <1>18, <3>1, <3>2 DEF Store
    <2> QED
      BY <1>18, <2>1 DEF Store
  <1>19. ASSUME NEW r \in Requests, Finish(r) PROVE DataInv'
    BY <1>19 DEF Finish
  <1>20. ASSUME NEW r \in Requests, FailJob(r) PROVE DataInv'
    BY <1>20 DEF FailJob
  <1>21. ASSUME NEW r \in Requests, Unregister(r) PROVE DataInv'
    BY <1>21 DEF Unregister
  <1>22. ASSUME NEW r \in Requests, Release(r) PROVE DataInv'
    BY <1>22 DEF Release
  <1>23. ASSUME Crash PROVE DataInv'
    BY <1>23 DEF Crash
  <1>24. ASSUME UNCHANGED vars PROVE DataInv'
    BY <1>24 DEF vars
  <1> QED
    BY <1>1, <1>2, <1>3, <1>4, <1>5, <1>6, <1>7, <1>8, <1>9, <1>10, <1>11,
       <1>12, <1>13, <1>14, <1>15, <1>16, <1>17, <1>18, <1>19, <1>20, <1>21,
       <1>22, <1>23, <1>24
    DEF Next, Handle, Work, Upstream, Quiet
-----------------------------------------------------------------------------
(* The inductive invariant and what follows from it                        *)

IInv == TypeInv /\ CountInv /\ PhaseInv /\ IndexInv /\ DataInv

LEMMA InvInit == Init => IInv
  <1> SUFFICES ASSUME Init PROVE IInv
    OBVIOUS
  <1>1. PhaseInv
    BY DEF Init, PhaseInv, JobAtStage, JobAtHandler
  <1>2. IndexInv
    BY NoneIsNone DEF Init, IndexInv
  <1>3. DataInv
    BY DEF Init, DataInv, CacheSound, ResultOfSnapshot, Unfinished, Resolved
  <1> QED
    BY <1>1, <1>2, <1>3, TypeInvInit, CountInvInit DEF IInv

LEMMA InvStep == IInv /\ [Next]_vars => IInv'
  BY TypeInvStep, PermitsStep, QueueStep, LossStep, PhaseInvStep, IndexInvStep,
     DataInvStep
  DEF IInv, CountInv

(* The invariant holds in every reachable state.                           *)
THEOREM Invariance == Spec => []IInv
  BY InvInit, InvStep, PTL DEF Spec

(* Type correctness: no counter leaves its range, in particular the        *)
(* unsigned queue counter never wraps.                                     *)
THEOREM TypeCorrect == Spec => []TypeOK
  <1>1. IInv => TypeOK
    BY TypeOKFromCounts DEF IInv
  <1> QED
    BY <1>1, Invariance, PTL

(* run gives back the permit it took on every path out of it.              *)
THEOREM PermitsNeverLeak == Spec => []PermitsConserved
  <1>1. IInv => PermitsConserved
    BY DEF IInv, CountInv
  <1> QED
    BY <1>1, Invariance, PTL

(* The queue counter is exact whatever the interleaving of its updates:    *)
(* it is the requests that wait and the places lost with their handlers,   *)
(* of which there are none unless clients go away.                         *)
THEOREM QueueCounterExact == Spec => []QueueAccounting
  <1>1. IInv => QueueAccounting
    BY CountedApart DEF IInv, CountInv, CounterExact, QueueAccounting
  <1> QED
    BY <1>1, Invariance, PTL

(* Racing reservations never admit more than the configured capacity.      *)
THEOREM QueueBounded == Spec => []AdmissionBound
  <1>1. IInv => AdmissionBound
    BY DEF IInv, CountInv
  <1> QED
    BY <1>1, Invariance, PTL

(* Permits never leak, and every place of the queue is accounted for: free,*)
(* waited for or lost with a handler whose client went away, in every      *)
(* interleaving of create, run and the connections that go away.           *)
THEOREM ResourcesAreAccounted == Spec => []ResourcesAccounted
  BY PermitsNeverLeak, QueueCounterExact, QueueBounded, PTL
  DEF ResourcesAccounted

(* If no client goes away, the places of the queue in use are exactly the  *)
(* requests that wait: none is ever lost.                                  *)
THEOREM NoPlaceIsLost ==
  ASSUME ~Disconnects
  PROVE  Spec => [](queued = Cardinality(Waiting))
  <1>1. QueueAccounting => queued = Cardinality(Waiting)
    <2> SUFFICES ASSUME QueueAccounting PROVE queued = Cardinality(Waiting)
      OBVIOUS
    <2>1. Lost = {}
      BY DEF QueueAccounting
    <2> QED
      BY <2>1, FS_EmptySet, HoldingFinite, FS_CardinalityType
      DEF QueueAccounting
  <1> QED
    BY <1>1, QueueCounterExact, PTL

(* The index of active analyses names only unfinished analyses of its own  *)
(* identities, although tasks overwrite and remove each other's entries.   *)
THEOREM IndexSound == Spec => []ActiveSound
  <1>1. IInv => ActiveSound
    BY NoneIsNone
    DEF IInv, TypeInv, Typed, PhaseInv, JobAtStage, IndexInv, ActiveSound,
        TaskStages, Running, Terminal
  <1> QED
    BY <1>1, Invariance, PTL

(* Every analysis id a client is given is of the identity it asked for and *)
(* can be polled until the server restarts.                                *)
THEOREM AnswersStayPollable == Spec => []AnswersPollable
  <1>1. IInv => AnswersPollable
    BY DEF IInv, IndexInv, AnswersPollable
  <1> QED
    BY <1>1, Invariance, PTL

(* A file of the cache never holds the analysis of another commit.         *)
THEOREM CacheNeverMixed == Spec => []CacheSound
  <1>1. IInv => CacheSound
    BY DEF IInv, DataInv
  <1> QED
    BY <1>1, Invariance, PTL

(* A finished job never reports the analysis of another commit, across     *)
(* restarts too.                                                           *)
THEOREM ResultsNeverMixed == Spec => []ResultOfSnapshot
  <1>1. IInv => ResultOfSnapshot
    BY DEF IInv, DataInv
  <1> QED
    BY <1>1, Invariance, PTL

(* Neither the cache nor a result ever mixes two snapshots up.             *)
THEOREM SnapshotsNeverMixed == Spec => []NothingMixed
  BY CacheNeverMixed, ResultsNeverMixed, PTL DEF NothingMixed

-----------------------------------------------------------------------------
(* The service implements the lifecycle of a job                           *)

LEMMA LifeInit == Init => Life!Init
  BY DEF Init, Life!Init

(* The instance's Cardinality is the usual one.                            *)
LEMMA LifeCardinality == \A S : Life!Cardinality(S) = Cardinality(S)
  BY DEF Life!Cardinality, Cardinality

(* Jobs under way hold a permit, so starting one leaves Workers at most.   *)
LEMMA RoomToRun ==
  ASSUME IInv, NEW r \in Requests, stage[r] = "start"
  PROVE  Cardinality(Life!In(Life!Running)) < Workers
  <1> DEFINE Busy == Life!In(Life!Running)
  <1>1. Busy \subseteq Holding \ {r}
    BY DEF IInv, TypeInv, Typed, PhaseInv, JobAtStage, Life!In, Life!Running,
           Holding, TaskStages, Terminal
  <1>2. r \in Holding
    BY DEF Holding
  <1>3. /\ IsFiniteSet(Holding \ {r})
        /\ Cardinality(Holding \ {r}) = Cardinality(Holding) - 1
    BY <1>2, HoldingFinite, FS_RemoveElement
  <1>4. Cardinality(Busy) <= Cardinality(Holding) - 1
    BY <1>1, <1>3, FS_Subset
  <1>5. Cardinality(Busy) \in Nat /\ Cardinality(Holding) \in Nat
    BY <1>1, <1>3, HoldingFinite, FS_Subset, FS_CardinalityType
  <1> QED
    BY <1>4, <1>5, PositiveConfig DEF IInv, CountInv, PermitsConserved

(* Queued jobs are admitted or have just got their permit.                 *)
LEMMA RoomToWait ==
  ASSUME IInv, NEW r \in Requests, pc[r] = "insert"
  PROVE  Cardinality(Life!In({"queued"})) < QueueCapacity + Workers
  <1> DEFINE Queued == Life!In({"queued"})
  <1> DEFINE Others == Admitted \ {r}
  <1>1. Queued \subseteq Others \cup Holding
    BY DEF IInv, TypeInv, Typed, TaskAnswered, PhaseInv, JobAtStage,
           JobAtHandler, Life!In, Holding, Admitted, Counted, Waiting, Lost, HandlerPCs,
           Handling, TaskStages, Running, Terminal
  <1>2. r \in Admitted
    BY DEF Admitted, Counted, Waiting
  <1>3. IsFiniteSet(Admitted)
    BY HoldingFinite, FS_Subset DEF Admitted
  <1>4. IsFiniteSet(Others) /\ Cardinality(Others) = Cardinality(Admitted) - 1
    BY <1>2, <1>3, FS_RemoveElement
  <1>5. /\ IsFiniteSet(Others \cup Holding)
        /\ Cardinality(Others \cup Holding)
             <= Cardinality(Others) + Cardinality(Holding)
    <2>1. Cardinality(Others \cup Holding)
            = Cardinality(Others) + Cardinality(Holding)
                - Cardinality(Others \cap Holding)
      BY <1>4, HoldingFinite, FS_Union
    <2>2. /\ Cardinality(Others) \in Nat
          /\ Cardinality(Holding) \in Nat
          /\ Cardinality(Others \cap Holding) \in Nat
      BY <1>4, HoldingFinite, FS_Intersection, FS_CardinalityType
    <2>3. IsFiniteSet(Others \cup Holding)
      BY <1>4, HoldingFinite, FS_Union
    <2> QED
      BY <2>1, <2>2, <2>3
  <1>6. Cardinality(Queued) <= Cardinality(Others \cup Holding)
    BY <1>1, <1>5, FS_Subset
  <1>7. /\ Cardinality(Queued) \in Nat
        /\ Cardinality(Others \cup Holding) \in Nat
        /\ Cardinality(Admitted) \in Nat
        /\ Cardinality(Holding) \in Nat
    BY <1>1, <1>3, <1>5, HoldingFinite, FS_Subset, FS_CardinalityType
  <1> QED
    BY <1>4, <1>5, <1>6, <1>7, PositiveConfig
    DEF IInv, CountInv, PermitsConserved, AdmissionBound

LEMMA LifeStep == IInv /\ [Next]_vars => [Life!Next]_(Life!vars)
  <1> DEFINE Ok == [Life!Next]_(Life!vars)
  <1> SUFFICES ASSUME IInv, [Next]_vars
               PROVE  Ok
    OBVIOUS
  <1>a. ASSUME NEW r \in Requests, pc[r] = "insert"
        PROVE  Life!Cardinality(Life!In({"queued"})) < QueueCapacity + Workers
    BY <1>a, RoomToWait, LifeCardinality
  <1>b. ASSUME NEW r \in Requests, stage[r] = "start"
        PROVE  Life!Cardinality(Life!In(Life!Running)) < Workers
    BY <1>b, RoomToRun, LifeCardinality
  <1> USE DEF IInv, TypeInv, Typed, TaskAnswered, PhaseInv, JobAtStage,
              JobAtHandler, Life!vars, Life!Next, handlerVars, indexVars, jobVars, locals, taskVars
  <1>1. ASSUME NEW r \in Requests, Receive(r) PROVE Ok
    BY <1>1 DEF Receive
  <1>2. ASSUME NEW r \in Requests, Lookup(r) PROVE Ok
    BY <1>2 DEF Lookup
  <1>3. ASSUME NEW r \in Requests, ReadJob(r) PROVE Ok
    BY <1>3 DEF ReadJob
  <1>4. ASSUME NEW r \in Requests, Reserve(r) PROVE Ok
    BY <1>4 DEF Reserve
  <1>5. ASSUME NEW r \in Requests, Unreserve(r) PROVE Ok
    BY <1>5 DEF Unreserve
  <1>6. ASSUME NEW r \in Requests, InsertJob(r) PROVE Ok
    <2>1. /\ pc[r] = "insert"
          /\ jobs' = [jobs EXCEPT ![r] = "queued"]
          /\ UNCHANGED <<result, error>>
      BY <1>6 DEF InsertJob
    <2>2. jobs[r] = "absent"
      BY <2>1
    <2>3. Life!Admit(r)
      BY <1>a, <2>1, <2>2 DEF Life!Admit
    <2> QED
      BY <2>3
  <1>7. ASSUME NEW r \in Requests, Register(r) PROVE Ok
    BY <1>7 DEF Register
  <1>8. ASSUME NEW r \in Requests, Disconnect(r) PROVE Ok
    BY <1>8 DEF Disconnect
  <1>9. ASSUME NEW r \in Requests, Acquire(r) PROVE Ok
    BY <1>9 DEF Acquire
  <1>10. ASSUME NEW r \in Requests, Dequeue(r) PROVE Ok
    BY <1>10 DEF Dequeue
  <1>11. ASSUME NEW r \in Requests, Start(r) PROVE Ok
    <2>1. /\ stage[r] = "start"
          /\ jobs' = [jobs EXCEPT ![r] = "resolving"]
          /\ UNCHANGED <<result, error>>
      BY <1>11 DEF Start, SetJob
    <2>2. jobs[r] = "queued"
      BY <2>1
    <2>3. Life!Begin(r)
      BY <1>b, <2>1, <2>2 DEF Life!Begin
    <2> QED
      BY <2>3
  <1>12. ASSUME NEW r \in Requests, Resolve(r) PROVE Ok
    BY <1>12 DEF Resolve, GiveUp
  <1>13. ASSUME NEW r \in Requests, ReadCache(r) PROVE Ok
    BY <1>13 DEF ReadCache
  <1>14. ASSUME NEW r \in Requests, Prepare(r) PROVE Ok
    BY <1>14 DEF Prepare, SetJob, GiveUp, Life!Advance, Life!NextPhase
  <1>15. ASSUME NEW r \in Requests, Download(r) PROVE Ok
    BY <1>15 DEF Download, SetJob, GiveUp, Life!Advance, Life!NextPhase
  <1>16. ASSUME NEW r \in Requests, Extract(r) PROVE Ok
    BY <1>16 DEF Extract, SetJob, GiveUp, Life!Advance, Life!NextPhase
  <1>17. ASSUME NEW r \in Requests, Analyze(r) PROVE Ok
    BY <1>17 DEF Analyze, GiveUp
  <1>18. ASSUME NEW r \in Requests, Store(r) PROVE Ok
    BY <1>18 DEF Store
  <1>19. ASSUME NEW r \in Requests, Finish(r) PROVE Ok
    BY <1>19 DEF Finish, Life!Complete, FinalState, DataInv
  <1>20. ASSUME NEW r \in Requests, FailJob(r) PROVE Ok
    BY <1>20 DEF FailJob, Life!Fail, Life!Running, Running, ErrorCode, ErrorCodes
  <1>21. ASSUME NEW r \in Requests, Unregister(r) PROVE Ok
    BY <1>21 DEF Unregister
  <1>22. ASSUME NEW r \in Requests, Release(r) PROVE Ok
    BY <1>22 DEF Release
  <1>23. ASSUME Crash PROVE Ok
    BY <1>23 DEF Crash, Life!LoseAll, Life!Init
  <1>24. ASSUME UNCHANGED vars PROVE Ok
    BY <1>24 DEF vars
  <1> QED
    BY <1>1, <1>2, <1>3, <1>4, <1>5, <1>6, <1>7, <1>8, <1>9, <1>10, <1>11,
       <1>12, <1>13, <1>14, <1>15, <1>16, <1>17, <1>18, <1>19, <1>20, <1>21,
       <1>22, <1>23, <1>24
    DEF Next, Handle, Work, Upstream, Quiet

(* Whatever the interleaving, a client polls the lifecycle of a job: its   *)
(* states in their order, a result or an error exactly at its end, at most *)
(* Workers jobs under way.                                                 *)
THEOREM ImplementsLifecycle == Spec => LifecycleImplemented
  BY LifeInit, LifeStep, Invariance, PTL
  DEF Spec, LifecycleImplemented, Life!Spec
=============================================================================
