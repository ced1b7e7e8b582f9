----------------------------- MODULE JobService -----------------------------
(***************************************************************************)
(* The analysis service: the POST /v1/analyses handler, the background     *)
(* task it spawns for each admitted request, and the state they share (a   *)
(* job table, an index of active analyses by repository, a counter of      *)
(* queued tasks, a semaphore of worker permits and a result cache on       *)
(* disk).                                                                  *)
(*                                                                         *)
(* Handlers and tasks run concurrently on a thread pool.  An action ends   *)
(* where another of them can observe or change what it shares: at each     *)
(* lock acquisition, each atomic operation on the counter and each wait.   *)
(* The lock on jobs is never held across a wait, so its critical sections  *)
(* are single steps; the lock on active is held by a handler while it      *)
(* waits for the one on jobs, and is a variable.                           *)
(*                                                                         *)
(* A request is served once and an analysis id is drawn fresh for each     *)
(* admitted one, so the id of a request's own job is the request itself.   *)
(***************************************************************************)
EXTENDS Integers, FiniteSets

CONSTANTS
  Requests,       \* POST calls; also the ids of the jobs they create
  Keys,           \* normalized owner/name identities
  Repos,          \* repository ids
  Commits,
  Workers,        \* config.workers
  QueueCapacity,  \* config.queue_capacity
  Disconnects,    \* whether a client may drop its connection mid-request
  MaxCrashes,     \* bound on the restarts of the process
  None

ASSUME RequestsFinite == IsFiniteSet(Requests)
ASSUME PositiveConfig == Workers \in Nat \ {0} /\ QueueCapacity \in Nat \ {0}
ASSUME BoundsTyped == Disconnects \in BOOLEAN /\ MaxCrashes \in Nat

VARIABLES
  pc,          \* where the handler of a request is, or how it answered
  key,         \* the identity a request asks for
  answer,      \* the analysis id a handler has read or created
  active,      \* index: identity -> id of its latest analysis
  activeLock,  \* the handler that holds the lock on active, or None
  queued,      \* AtomicUsize: tasks counted as waiting
  permits,     \* free permits of the semaphore
  jobs,        \* job table: id -> state, "absent" when there is no entry
  result,      \* id -> result of the job
  error,       \* id -> error code of the job
  stage,       \* where the task of a job is
  snap,        \* task-local: the snapshot resolved
  outcome,     \* task-local: the result it is about to record
  fault,       \* task-local: the acquisition error fail is called with
  cache,       \* result files on disk, by cache key
  crashes

handlerVars == <<pc, key, answer>>
indexVars == <<active, activeLock>>
jobVars == <<jobs, result, error>>
locals == <<snap, outcome, fault>>
taskVars == <<stage, locals>>
vars == <<handlerVars, indexVars, queued, permits, jobVars, taskVars, cache,
          crashes>>

-----------------------------------------------------------------------------
(* Data                                                                    *)

Running == {"resolving", "downloading", "extracting", "analyzing"}

Terminal == {"completed", "completed_partial", "failed"}

JobStates == {"absent", "queued"} \cup Running \cup Terminal

(* What a head commit resolves to: RepositorySnapshot without its names.   *)
Snapshots == [repo : Repos, commit : Commits]

(* A CompactResult: the snapshot its provenance names and whether one of   *)
(* its instruments failed.                                                 *)
Results == [of : Snapshots, partial : BOOLEAN]

ASSUME NoneIsNone ==
  None \notin Requests \cup Keys \cup Snapshots \cup Results

AcquisitionErrors ==
  {"NotFound", "NotPublic", "InvalidMetadata", "Upstream", "TooLarge", "Io"}

ErrorCodes == {"repository_not_found", "repository_not_public",
               "archive_too_large", "upstream_failure"}

ErrorCode(e) ==
  CASE e = "NotFound" -> "repository_not_found"
    [] e = "NotPublic" -> "repository_not_public"
    [] e = "TooLarge" -> "archive_too_large"
    [] OTHER -> "upstream_failure"

(* The file a result is stored under: SHA-256 of repository id and commit, *)
(* taken to be free of collisions.                                         *)
CacheKey_OfRepositoryAlone(s) == <<s.repo, CHOOSE c \in Commits : TRUE>>

CacheKey(s) == <<s.repo, s.commit>>

FinalState_Swapped(res) ==
  IF res.partial THEN "completed" ELSE "completed_partial"

FinalState(res) == IF res.partial THEN "completed_partial" ELSE "completed"

Handling == {"lookup", "readJob", "reserve", "overfull", "insert", "register"}

HandlerPCs == Handling \cup {"idle", "answered", "badRequest", "queueFull",
                             "gone", "leaked"}

TaskStages == {"none", "acquire", "dequeue", "start", "resolve", "readCache",
               "prepare", "download", "extract", "analyze", "store", "finish",
               "fail", "unregister", "release", "ended"}

(* Tasks that hold a permit.                                               *)
Holding == {r \in Requests : stage[r] \notin {"none", "acquire", "ended"}}

(* Requests that will give their place in the queue back: admitted ones up *)
(* to the moment their task gets a permit, and one about to be refused.    *)
Waiting ==
  {r \in Requests : \/ pc[r] \in {"overfull", "insert", "register"}
                    \/ stage[r] \in {"acquire", "dequeue"}}

(* Requests whose handler was dropped between its reservation and its      *)
(* spawn: nothing holds their place any more and nothing gives it back.    *)
Lost == {r \in Requests : pc[r] = "leaked"}

Counted == Waiting \cup Lost

Admitted == {r \in Counted : pc[r] # "overfull"}

-----------------------------------------------------------------------------
Init ==
  /\ pc = [r \in Requests |-> "idle"]
  /\ key = [r \in Requests |-> None]
  /\ answer = [r \in Requests |-> None]
  /\ active = [k \in Keys |-> None]
  /\ activeLock = None
  /\ queued = 0
  /\ permits = Workers
  /\ jobs = [r \in Requests |-> "absent"]
  /\ result = [r \in Requests |-> None]
  /\ error = [r \in Requests |-> None]
  /\ stage = [r \in Requests |-> "none"]
  /\ snap = [r \in Requests |-> None]
  /\ outcome = [r \in Requests |-> None]
  /\ fault = [r \in Requests |-> None]
  /\ cache = [f \in Repos \X Commits |-> None]
  /\ crashes = 0

-----------------------------------------------------------------------------
(* The handler of POST /v1/analyses                                        *)

(* The body parses and names a valid repository, or the request is refused *)
(* with 400.                                                               *)
Receive(r) ==
  /\ pc[r] = "idle"
  /\ \/ \E k \in Keys : /\ key' = [key EXCEPT ![r] = k]
                        /\ pc' = [pc EXCEPT ![r] = "lookup"]
     \/ /\ pc' = [pc EXCEPT ![r] = "badRequest"]
        /\ UNCHANGED key
  /\ UNCHANGED <<answer, indexVars, queued, permits, jobVars, taskVars, cache,
                 crashes>>

(* The guard on active lives as long as the if-let that reads it: it is    *)
(* released at once on a miss and kept while the job is read on a hit.     *)
Lookup(r) ==
  /\ pc[r] = "lookup"
  /\ activeLock = None
  /\ IF active[key[r]] = None
     THEN /\ pc' = [pc EXCEPT ![r] = "reserve"]
          /\ UNCHANGED <<answer, activeLock>>
     ELSE /\ pc' = [pc EXCEPT ![r] = "readJob"]
          /\ answer' = [answer EXCEPT ![r] = active[key[r]]]
          /\ activeLock' = r
  /\ UNCHANGED <<key, active, queued, permits, jobVars, taskVars, cache,
                 crashes>>

ReadJob_KeepsLock(r) ==
  /\ pc[r] = "readJob"
  /\ pc' = [pc EXCEPT ![r] = "answered"]
  /\ UNCHANGED <<key, answer, indexVars, queued, permits, jobVars, taskVars,
                 cache, crashes>>

(* An indexed id without a job would fall through to a new analysis.       *)
ReadJob(r) ==
  /\ pc[r] = "readJob"
  /\ pc' = [pc EXCEPT ![r] = IF jobs[answer[r]] = "absent"
                             THEN "reserve" ELSE "answered"]
  /\ activeLock' = None
  /\ UNCHANGED <<key, answer, active, queued, permits, jobVars, taskVars,
                 cache, crashes>>

Reserve(r) ==
  /\ pc[r] = "reserve"
  /\ queued' = queued + 1
  /\ pc' = [pc EXCEPT ![r] = IF queued >= QueueCapacity
                             THEN "overfull" ELSE "insert"]
  /\ UNCHANGED <<key, answer, indexVars, permits, jobVars, taskVars, cache,
                 crashes>>

Unreserve(r) ==
  /\ pc[r] = "overfull"
  /\ queued' = queued - 1
  /\ pc' = [pc EXCEPT ![r] = "queueFull"]
  /\ UNCHANGED <<key, answer, indexVars, permits, jobVars, taskVars, cache,
                 crashes>>

InsertJob_Late(r) ==
  /\ pc[r] = "insert"
  /\ pc' = [pc EXCEPT ![r] = "register"]
  /\ UNCHANGED <<key, answer, indexVars, queued, permits, jobVars, taskVars,
                 cache, crashes>>

InsertJob(r) ==
  /\ pc[r] = "insert"
  /\ jobs' = [jobs EXCEPT ![r] = "queued"]
  /\ pc' = [pc EXCEPT ![r] = "register"]
  /\ UNCHANGED <<key, answer, indexVars, queued, permits, result, error,
                 taskVars, cache, crashes>>

Register(r) ==
  /\ pc[r] = "register"
  /\ activeLock = None
  /\ active' = [active EXCEPT ![key[r]] = r]
  /\ stage' = [stage EXCEPT ![r] = "acquire"]
  /\ answer' = [answer EXCEPT ![r] = r]
  /\ pc' = [pc EXCEPT ![r] = "answered"]
  /\ UNCHANGED <<key, activeLock, queued, permits, jobVars, locals, cache,
                 crashes>>

(* A client that goes away makes the server drop the handler's future at   *)
(* the wait it is suspended on: guards are released, a reservation stays.  *)
Disconnect(r) ==
  /\ Disconnects
  /\ pc[r] \in {"lookup", "readJob", "insert", "register"}
  /\ pc' = [pc EXCEPT ![r] = IF pc[r] \in {"insert", "register"}
                             THEN "leaked" ELSE "gone"]
  /\ activeLock' = IF activeLock = r THEN None ELSE activeLock
  /\ UNCHANGED <<key, answer, active, queued, permits, jobVars, taskVars,
                 cache, crashes>>

-----------------------------------------------------------------------------
(* The task of an admitted request                                         *)

Acquire(r) ==
  /\ stage[r] = "acquire"
  /\ permits > 0
  /\ permits' = permits - 1
  /\ stage' = [stage EXCEPT ![r] = "dequeue"]
  /\ UNCHANGED <<handlerVars, indexVars, queued, jobVars, locals, cache,
                 crashes>>

Dequeue(r) ==
  /\ stage[r] = "dequeue"
  /\ queued' = queued - 1
  /\ stage' = [stage EXCEPT ![r] = "start"]
  /\ UNCHANGED <<handlerVars, indexVars, permits, jobVars, locals, cache,
                 crashes>>

(* set(next): the job takes the state and the task goes on to a stage.     *)
SetJob(r, next, to) ==
  /\ jobs' = [jobs EXCEPT ![r] = next]
  /\ stage' = [stage EXCEPT ![r] = to]
  /\ UNCHANGED <<handlerVars, indexVars, queued, permits, result, error,
                 locals, cache, crashes>>

(* The call to fail with acquisition error e.                              *)
GiveUp(r, e) ==
  /\ fault' = [fault EXCEPT ![r] = e]
  /\ stage' = [stage EXCEPT ![r] = "fail"]
  /\ UNCHANGED <<handlerVars, indexVars, queued, permits, jobVars, snap,
                 outcome, cache, crashes>>

Start(r) ==
  /\ stage[r] = "start"
  /\ SetJob(r, "resolving", "resolve")

(* GitHub names the repository and its head commit of the moment.          *)
Resolve(r) ==
  /\ stage[r] = "resolve"
  /\ \/ \E s \in Snapshots :
          /\ snap' = [snap EXCEPT ![r] = s]
          /\ stage' = [stage EXCEPT ![r] = "readCache"]
          /\ UNCHANGED <<handlerVars, indexVars, queued, permits, jobVars,
                         outcome, fault, cache, crashes>>
     \/ \E e \in {"NotFound", "NotPublic", "InvalidMetadata", "Upstream"} :
          GiveUp(r, e)

(* A file that cannot be read or parsed counts as a miss.                  *)
ReadCache(r) ==
  /\ stage[r] = "readCache"
  /\ \/ /\ cache[CacheKey(snap[r])] # None
        /\ outcome' = [outcome EXCEPT ![r] = cache[CacheKey(snap[r])]]
        /\ stage' = [stage EXCEPT ![r] = "finish"]
     \/ /\ stage' = [stage EXCEPT ![r] = "prepare"]
        /\ UNCHANGED outcome
  /\ UNCHANGED <<handlerVars, indexVars, queued, permits, jobVars, snap,
                 fault, cache, crashes>>

(* The private temporary directory of the analysis.                        *)
Prepare(r) ==
  /\ stage[r] = "prepare"
  /\ \/ SetJob(r, "downloading", "download")
     \/ GiveUp(r, "Io")

Download(r) ==
  /\ stage[r] = "download"
  /\ \/ SetJob(r, "extracting", "extract")
     \/ \E e \in {"Upstream", "TooLarge", "Io"} : GiveUp(r, e)

Extract(r) ==
  /\ stage[r] = "extract"
  /\ \/ SetJob(r, "analyzing", "analyze")
     \/ \E e \in {"TooLarge", "InvalidMetadata"} : GiveUp(r, e)

(* The worker process; whether an instrument failed is its own business.   *)
Analyze(r) ==
  /\ stage[r] = "analyze"
  /\ \/ \E partial \in BOOLEAN :
          /\ outcome' = [outcome EXCEPT ![r] = [of |-> snap[r],
                                                partial |-> partial]]
          /\ stage' = [stage EXCEPT ![r] = "store"]
          /\ UNCHANGED <<handlerVars, indexVars, queued, permits, jobVars,
                         snap, fault, cache, crashes>>
     \/ \E e \in {"Io", "Upstream"} : GiveUp(r, e)

(* Written to a file of its own and renamed over the entry; a failure of   *)
(* either is ignored.                                                      *)
Store(r) ==
  /\ stage[r] = "store"
  /\ stage' = [stage EXCEPT ![r] = "finish"]
  /\ \/ cache' = [cache EXCEPT ![CacheKey(snap[r])] = outcome[r]]
     \/ UNCHANGED cache
  /\ UNCHANGED <<handlerVars, indexVars, queued, permits, jobVars, locals,
                 crashes>>

Finish(r) ==
  /\ stage[r] = "finish"
  /\ jobs' = [jobs EXCEPT ![r] = FinalState(outcome[r])]
  /\ result' = [result EXCEPT ![r] = outcome[r]]
  /\ stage' = [stage EXCEPT ![r] = "unregister"]
  /\ UNCHANGED <<handlerVars, indexVars, queued, permits, error, locals,
                 cache, crashes>>

FailJob_StaysActive(r) ==
  /\ stage[r] = "fail"
  /\ jobs' = [jobs EXCEPT ![r] = "failed"]
  /\ error' = [error EXCEPT ![r] = ErrorCode(fault[r])]
  /\ stage' = [stage EXCEPT ![r] = "release"]
  /\ UNCHANGED <<handlerVars, indexVars, queued, permits, result, locals,
                 cache, crashes>>

FailJob_KeepsPermit(r) ==
  /\ stage[r] = "fail"
  /\ jobs' = [jobs EXCEPT ![r] = "failed"]
  /\ error' = [error EXCEPT ![r] = ErrorCode(fault[r])]
  /\ stage' = [stage EXCEPT ![r] = "ended"]
  /\ UNCHANGED <<handlerVars, indexVars, queued, permits, result, locals,
                 cache, crashes>>

FailJob(r) ==
  /\ stage[r] = "fail"
  /\ jobs' = [jobs EXCEPT ![r] = "failed"]
  /\ error' = [error EXCEPT ![r] = ErrorCode(fault[r])]
  /\ stage' = [stage EXCEPT ![r] = "unregister"]
  /\ UNCHANGED <<handlerVars, indexVars, queued, permits, result, locals,
                 cache, crashes>>

(* The entry of the identity is removed whichever job it names.            *)
Unregister(r) ==
  /\ stage[r] = "unregister"
  /\ activeLock = None
  /\ active' = [active EXCEPT ![key[r]] = None]
  /\ stage' = [stage EXCEPT ![r] = "release"]
  /\ UNCHANGED <<handlerVars, activeLock, queued, permits, jobVars, locals,
                 cache, crashes>>

Release(r) ==
  /\ stage[r] = "release"
  /\ permits' = permits + 1
  /\ stage' = [stage EXCEPT ![r] = "ended"]
  /\ UNCHANGED <<handlerVars, indexVars, queued, jobVars, locals, cache,
                 crashes>>

-----------------------------------------------------------------------------
(* The process dies and AppState::new starts over: everything in memory is *)
(* gone, requests in flight lose their connection, the cache is found as   *)
(* it was left.                                                            *)
Crash ==
  /\ crashes < MaxCrashes
  /\ crashes' = crashes + 1
  /\ pc' = [r \in Requests |-> IF pc[r] \in Handling \cup {"leaked"}
                               THEN "gone" ELSE pc[r]]
  /\ active' = [k \in Keys |-> None]
  /\ activeLock' = None
  /\ queued' = 0
  /\ permits' = Workers
  /\ jobs' = [r \in Requests |-> "absent"]
  /\ result' = [r \in Requests |-> None]
  /\ error' = [r \in Requests |-> None]
  /\ stage' = [r \in Requests |-> "none"]
  /\ snap' = [r \in Requests |-> None]
  /\ outcome' = [r \in Requests |-> None]
  /\ fault' = [r \in Requests |-> None]
  /\ UNCHANGED <<key, answer, cache>>

Handle(r) == Lookup(r) \/ ReadJob(r) \/ Reserve(r) \/ Unreserve(r)
               \/ InsertJob(r) \/ Register(r)

(* Steps of a task that wait for nothing outside the process.              *)
Work(r) == Acquire(r) \/ Dequeue(r) \/ Start(r) \/ ReadCache(r) \/ Prepare(r)
             \/ Extract(r) \/ Analyze(r) \/ Store(r) \/ Finish(r)
             \/ FailJob(r) \/ Unregister(r) \/ Release(r)

(* Steps that wait for GitHub.                                             *)
Upstream(r) == Resolve(r) \/ Download(r)

(* Nothing left to do: every request was served and every task ended.      *)
Quiet ==
  /\ \A r \in Requests : /\ pc[r] \notin Handling \cup {"idle"}
                         /\ stage[r] \in {"none", "ended"}
  /\ UNCHANGED vars

Next ==
  \/ \E r \in Requests : \/ Receive(r)
                         \/ Handle(r)
                         \/ Disconnect(r)
                         \/ Work(r)
                         \/ Upstream(r)
  \/ Crash
  \/ Quiet

Spec == Init /\ [][Next]_vars

(* The runtime polls every ready handler and task; a task waiting for a    *)
(* permit gets one because the semaphore queues its waiters in order, and  *)
(* so do the mutexes.                                                      *)
ServerFairness == \A r \in Requests : WF_vars(Handle(r)) /\ WF_vars(Work(r))

UpstreamFairness == \A r \in Requests : WF_vars(Upstream(r))

ServerSpec == Spec /\ ServerFairness

FairSpec == ServerSpec /\ UpstreamFairness
-----------------------------------------------------------------------------
(* Properties                                                              *)

TypeOK ==
  /\ pc \in [Requests -> HandlerPCs]
  /\ key \in [Requests -> Keys \cup {None}]
  /\ answer \in [Requests -> Requests \cup {None}]
  /\ active \in [Keys -> Requests \cup {None}]
  /\ activeLock \in Requests \cup {None}
  /\ queued \in Nat
  /\ permits \in 0 .. Workers
  /\ jobs \in [Requests -> JobStates]
  /\ result \in [Requests -> Results \cup {None}]
  /\ error \in [Requests -> ErrorCodes \cup {None}]
  /\ stage \in [Requests -> TaskStages]
  /\ snap \in [Requests -> Snapshots \cup {None}]
  /\ outcome \in [Requests -> Results \cup {None}]
  /\ fault \in [Requests -> AcquisitionErrors \cup {None}]
  /\ cache \in [Repos \X Commits -> Results \cup {None}]
  /\ crashes \in 0 .. MaxCrashes

(* Every permit is free or held by exactly one task, on every path out of  *)
(* run, the early returns of its error paths included.                     *)
PermitsConserved == permits + Cardinality(Holding) = Workers

(* The counter is raised and lowered by different parties at different     *)
(* moments; it always equals the requests that wait and the places that    *)
(* were lost, so it never wraps below zero and a refused request leaves no *)
(* trace in it.  A place is lost only to a client that goes away.          *)
QueueAccounting ==
  /\ queued = Cardinality(Waiting) + Cardinality(Lost)
  /\ Lost # {} => Disconnects

(* However reservations race, at most QueueCapacity requests are admitted  *)
(* and not yet started, lost places included.                              *)
AdmissionBound == Cardinality(Admitted) <= QueueCapacity

(* Permits come back on every path through run.  Places of the queue are   *)
(* all accounted for and never more than there are, on every path through  *)
(* create and run; those of dropped handlers are accounted for as lost,    *)
(* and not a single one is lost otherwise.                                 *)
ResourcesAccounted == PermitsConserved /\ QueueAccounting /\ AdmissionBound

(* The index never names an analysis that is over, of another identity or  *)
(* unknown to the job table, although any task may remove or overwrite the *)
(* entry of another with the same identity.                                *)
ActiveSound ==
  \A k \in Keys : active[k] # None =>
    LET r == active[k]
    IN  /\ key[r] = k
        /\ jobs[r] # "absent"
        /\ stage[r] \notin {"none", "release", "ended"}

(* The analysis id a client is given is of an analysis of the identity it  *)
(* asked for, and can be polled until the server restarts.                 *)
AnswersPollable ==
  \A r \in Requests : pc[r] = "answered" =>
    /\ key[answer[r]] = key[r]
    /\ crashes = 0 => jobs[answer[r]] # "absent"

(* A file of the cache holds an analysis of the very repository and commit *)
(* it is stored under, before and after a restart.                         *)
CacheSound ==
  \A f \in Repos \X Commits : cache[f] # None =>
    cache[f].of = [repo |-> f[1], commit |-> f[2]]

(* A finished job reports the commit it resolved to itself, also when the  *)
(* result was produced by another job or before a restart.                 *)
ResultOfSnapshot ==
  \A r \in Requests : result[r] # None => result[r].of = snap[r]

(* Whatever is answered from the cache or computed is of the commit asked  *)
(* for: neither files nor results of two snapshots are ever mixed up.      *)
NothingMixed == CacheSound /\ ResultOfSnapshot

(* What clients can poll implements the lifecycle of a job.                *)
Life == INSTANCE JobLifecycle
          WITH Jobs <- Requests, Results <- Results, Errors <- ErrorCodes,
               Partial <- {res \in Results : res.partial}, state <- jobs

LifecycleImplemented == Life!Spec

(* Every job that gets a task reaches a terminal state or is lost to a     *)
(* restart: no task waits for ever for a permit or a lock.                 *)
EveryJobEnds ==
  \A r \in Requests :
    stage[r] = "acquire" ~> jobs[r] \in Terminal \cup {"absent"}

(* Every POST gets an answer, or its connection is gone.                   *)
EveryPostAnswered ==
  \A r \in Requests : pc[r] \in Handling ~> pc[r] \notin Handling

-----------------------------------------------------------------------------
(* What the repository says of the service and the code does not keep      *)

(* Requests for one identity share one analysis (the contract test on      *)
(* deduplication): no two unfinished jobs analyze the same identity.       *)
SingleFlight ==
  \A r, q \in Requests :
    /\ r # q
    /\ stage[r] # "none" /\ jobs[r] \notin Terminal
    /\ stage[q] # "none" /\ jobs[q] \notin Terminal
    => key[r] # key[q]

(* A POST is refused only when as many others as the bound allows wait or  *)
(* are being refused (the contract test on the capacity of the queue); the *)
(* places of dropped handlers refuse work while nobody waits.              *)
RefusedOnlyBeyondBound ==
  [][\A r \in Requests :
       pc[r] = "reserve" /\ pc'[r] = "overfull"
         => Cardinality(Waiting) >= QueueCapacity]_vars
=============================================================================
