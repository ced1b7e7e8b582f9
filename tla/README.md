# Verification of software-evaluation

TLA+ models of `software-evaluation`: the analysis service, the kernel that
runs criterion programs, the browser extension, the frontier profiler with its
orders, probes and policies, and the analyses of dependencies, clones, history
and archived evaluations. TLC checks them on small instances; TLAPS proves for
every value of the constants the safety properties of the concurrent parts, of
the search for communities and of the comparisons and plans of the frontier
profiler.
Every definition is translated from the source; `PROJECT.json` maps it to the
lines it stands for. Paths below are relative to the root of the repository;
`x.rs` without a directory is `src/x.rs`.

Contents: [the system](#the-system), [the modules](#the-modules),
[the runs](#the-runs), [disagreements found](#disagreements-found),
[fairness](#fairness), [the proofs](#the-proofs),
[not modelled](#not-modelled), [the plan](#the-plan), [running it](#running-it).

## The system

The repository is one Rust crate with a command line (`seval`), several narrow
binaries and a server (`sevald`), plus a browser extension that talks to the
server. State, concurrency and failure live in eight places: the service and
what it runs (five), the extension, the frontier scan and the child processes
of benchmarks and Git. The rest is pure analysis, files in and figures out; of
it, the algorithms whose results are not obvious from their code are modelled.

| Component | State it keeps | Operations | What makes it correct |
|---|---|---|---|
| **Analysis service** `src/service/app.rs` | job table, index of active analyses by identity, counter of queued tasks, worker permits, result cache on disk | `POST /v1/analyses`, one background task per admitted job, `GET`, restart | permits and queue places come back from every step that can fail; index, cache and table never mix identities or commits; each job follows its lifecycle and ends |
| **Worker process** `src/service/worker.rs` | child process, pipe, collecting task, deadline | `run_child`, `worker_main` | only the whole output of a successful child is accepted; the child never outlives the call |
| **Archive acquisition** `src/service/github.rs`, `archive.rs` | download file and its deferred writes, extracted tree, counters of entries and bytes | `resolve`, `download`, `extract_zip` | the download and each file stay within their limits, all files together as far as they declare their sizes; the tree is the whole archive or an error |
| **Evaluation kernel** `src/kernel.rs` | beliefs, remaining resources, attestations | `evaluate_pipeline` over criterion programs | the budget is never passed on purpose and at most once by accident; the ledger balances; beliefs move for a reason |
| **Browser extension** `extensions/github-software-evaluation` | panel, port and generation in the page; a polling client in the worker | reconcile, start, remove, submit and poll | the panel shows the repository of the page, never that of an earlier one; it ends |
| **Frontier scan** `src/frontier.rs`, `src/source.rs` | two Git snapshots, a shared source corpus, analyzers in scoped threads | `profile_path` | analyzers agree on one reading; a profile pinned to a commit is of that commit |
| **Benchmark runner** `benchmark.rs` | child, descendants, two capture threads, deadline | `run_benchmark`, `run_once`, distributions | it ends where kill and pipes let it, and its verdict is of the command |
| **Blob batches** `repo.rs` | a Git child with a pipe each way, a writing thread | `read_committed_blobs` | no pipe stops the other; no partial or foreign answer passes for a file |
| Frontier signals and comparison `frontier/` | none between calls | projection of reports, contract, partial order | a profile meets its own contract; the order is the one the numbers give |
| Identified orders `frontier_identified.rs` | none | intervals, sharp set of orders | exactly the orders some values attain |
| Order probes, exact policies `frontier_probes.rs`, `frontier_policies.rs` | memo of one call | partitions, dominance, dynamic program | the frontier returned is the frontier of all policies |
| Information planner `info.rs` | budgets left, programs chosen | greedy selection | each pick is the best that fits; the reason it stops for is the true one |
| Dependency graph `deps.rs` | state of the community search | resolution, components, reachability, layouts, communities, manifests | counts agree with their definitions; the search climbs and ends |
| Graph certificates `conductance.rs`, `trophic.rs`, `spectral.rs`, `twins.rs` | none | exact inertia, bisection, linear systems, iteration | every bound reported holds |
| Clone detection `duplicates.rs` | none | windows, extension, suppression, censoring | all repeats, once; totals are lower bounds when censored |
| Audit and comparison `audit.rs`, `compare.rs` | none | validation of bundles, pairing of runs | a bundle passes only if every reference resolves inside |
| History and shapes `repo.rs`, `cochange.rs`, `cochange_support.rs`, `change_profile.rs` | sums over the commits so far | reading Git's output, joining changes with files | every change finds its file; masses add up |
| Symbol graph, syntactic inventories, output | none | counts, rendering | each count is its grammar's |

### How they interact

```
 page ──content.js──port──background.js ──HTTP──▶ POST/GET handlers (app.rs)
       RepositoryPanel                             JobService ──▶ JobLifecycle
                                                        │ one task per job
                          ┌───────────────┬─────────────┼──────────────┐
                      resolve          download       extract         worker
                      (GitHub)       └── ArchiveExtract ──┘          WorkerChild
                                                                        │
     criterion programs ◀── evaluate_pipeline ◀── worker_main, seval ◀──┘
                            CriterionPipeline

     seval-frontier ──▶ profile_path ──▶ git child processes, source corpus, analyzers
                        FrontierScan           │
                                  reports ──▶ FrontierSignals ──▶ IdentifiedOrders
     orders of worlds ──▶ OrderProbes ──▶ ContingentPolicies      InfoPlanner

     sources ──▶ DependencyGraph (imports, statistics, layouts) ◀── Louvain
                        │                    │                  (ModularitySearch)
       GraphCertificates, StructuralTwins    └──▶ CochangeProfiles ◀────────────────────┐
     git ──▶ BlobBatch, GitHistory ──▶ RepositoryShape   history ──▶ CochangeMass ──────┘
     records ──▶ BundleAudit, RunComparison      tokens ──▶ CloneDetection
     commands ──▶ BenchmarkRun                   manifests ──▶ ManifestUsage
```

The handlers and the tasks share memory under two mutexes, an atomic counter
and a semaphore. The task waits on GitHub, on the disk and on a child process.
The extension and the server share nothing but HTTP: `RepositoryPanel` treats
the service as an environment that may answer anything or nothing, and
`JobService` treats its clients as an environment that may disconnect.

### What is hard

* **Interleavings.** Two POSTs for one identity between the lookup in `active`
  and the registration; a task that removes an index entry another task wrote;
  the counter raised by handlers and lowered by tasks; a reconcile microtask
  between two navigations; answers for panels that are gone; edits and commits
  in the scanned directory between the snapshots; two pipes of one Git child;
  descendants of a benchmarked program that outlive it.
* **Failure.** Dropped handler futures with a reservation held; a restart with
  a warm cache; children that die, hang, print too much or cannot be killed; writes
  whose failure nobody waits for; archives that declare less than they hold;
  analyzers that panic; Git commands that fail.
* **Ordering and time.** Deadline against exit; the end of a download against
  the writes it left behind; late messages of a disconnected port.
* **Boundaries.** Queue at capacity, pipe at capacity, output at its limit,
  entries, bytes and the expansion ratio at theirs, counters at their maximum,
  a budget that is used up exactly.
* **Arguments made in prose.** Dominated probes dropped under a hard budget, a
  memo keyed by less than the state, orders of intervals whose equality is not
  transitive, a search said to end because it climbs, suppression of clones,
  escapes undone in one order only: each is exact by an argument in a comment,
  and is compared here with a definition that does not use the argument.

Each of these is listed as a hazard in `PROJECT.json`, at the line where it
bites, with the properties that cover it or the reason none does. Two small ones
are not in that list: finished jobs stay in the job table for ever
(`src/service/app.rs:193`), and `adaptServiceResponse` leaves out the error of a
failed job, so that the panel offers no retry of one
(`extensions/github-software-evaluation/background.js:19`).

## The modules

Concurrent parts, one action per step:

| Module | Models | Composition |
|---|---|---|
| `JobLifecycle` | what the service promises of a job | abstract specification of `JobService` |
| `JobService` | `app.rs`: POST handler, task, cache, restart | `Life == INSTANCE JobLifecycle WITH state <- jobs, ...` |
| `WorkerChild` | `worker.rs`: `run_child`, the child, the collector | stands behind the action `Analyze` of `JobService` |
| `ArchiveExtract` | `GithubClient::download` into an asynchronous file, and `extract_zip` of that file | stands behind `Download` and `Extract` |
| `CriterionPipeline` | `evaluate_pipeline` | what the worker and the command line run |
| `RepositoryPanel` | `content.js` and `background.js`, joined by ports | client of the service |
| `FrontierScan` | `profile_path`, `strict_git_snapshot`, the source corpus | feeds `FrontierSignals` |
| `BlobBatch` | `read_committed_blobs`: writing thread, Git, both pipes | in `MCProcesses` |
| `BenchmarkRun` | `run_benchmark`, `run_once`, the distributions | in `MCProcesses` |
| `ModularitySearch` | what a search for communities promises | abstract specification of `Louvain` |
| `CochangeMass` | the loop over a history in `cochange.rs`, the loops over the commits it keeps in `cochange.rs` and `cochange_support.rs` | stepped in `MCAnalyses`, its files and communities given |
| `ManifestUsage` | `inventory_manifests`, a manifest a step, and `manifest_usage` | stepped in `MCAnalyses`, its imports and texts given |
| `Louvain` | local moves, passes, aggregation | `Search == INSTANCE ModularitySearch WITH ...`; on the edges of `DependencyGraph` |

Algorithms, as operators over their inputs:

| Module | Models |
|---|---|
| `Ordering` | sorting by a given order |
| `OrderProbes`, `ContingentPolicies` | `frontier_probes.rs`; the solver of `frontier_policies.rs` on top of it |
| `FrontierSignals`, `IdentifiedOrders` | projection and contract of profiles; their partial order, and the orders that hold for some values of what is unknown |
| `InfoPlanner` | validation, joint metrics and the greedy loop of `info.rs`, one pick a step |
| `FrontierOrders` | `OrderProbes`, `IdentifiedOrders` and `InfoPlanner` over any inputs of theirs, as a specification |
| `DependencyGraph` | `deps.rs`: resolving imports, statistics, layouts |
| `GraphCertificates`, `StructuralTwins` | `conductance.rs`, `trophic.rs`, `spectral.rs`, in exact fractions; `twins.rs` |
| `CloneDetection` | `duplicates.rs` |
| `RunComparison`, `BundleAudit` | `compare.rs`; `audit.rs` |
| `GitHistory`, `RepositoryShape` | reading Git's output and the two shapes in `repo.rs` |
| `CochangeProfiles` | the reports of `cochange_support.rs` on top of `CochangeMass`; `change_profile.rs` |

`MC...` modules give the constants their values for TLC; `...Proofs` modules hold the
theorems. An operator with an underscore in its name (`Join_Unwraps`) is a variant
of the definition that follows it, with a bug of the kind such code gets: no
specification uses it. It exists so that each property can be seen to fail when the
code is wrong. Modules that share an `MC` module share its run: `MCCalls` (the archive,
the kernel and, by `MCProcesses`, the three ways the code runs another program),
`MCPanelScan` (the panel and the scan, both at work on what others change meanwhile),
`MCFrontierOrders` (`FrontierOrders` with its inputs, and the policies), `MCAnalyses`
(everything computed from a tree, a history or an archive). In the first two nothing is
shared but the run: `subject` says which one goes on, while the others stand at a first
state. Where a module compares a result with
a definition of its own, that definition stands at its end, under a line, and is
written without the shortcut the code takes.

### JobService and JobLifecycle

State: `jobs`, `result`, `error` are the job table, `active` and `activeLock`
the index with its mutex, `queued` the atomic counter, `permits` the
semaphore, `cache` the directory of result files. `pc` is where a handler is
suspended and `stage` where a task is.

| Action | Code (`src/service/app.rs`) |
|---|---|
| `Receive`, `Lookup`, `ReadJob` | `create`: parse, read `active`, read the job under its guard |
| `Reserve`, `Unreserve` | `fetch_add`, comparison, compensating `fetch_sub` |
| `InsertJob`, `Register` | the two inserts, then the spawn |
| `Disconnect` | the server drops the future of a handler whose client left |
| `Acquire`, `Dequeue`, `Start` | semaphore, counter, state `resolving` |
| `Resolve` ... `Store`, `Finish`, `FailJob` | `run` with each of its error exits |
| `Unregister`, `Release` | removal from `active`, end of the permit's scope |
| `Crash` | the process ends and `AppState::new` starts over |

A step ends at each lock acquisition, atomic operation and await. The lock on
`jobs` is never held across one, so a critical section under it is one step.
The guard on `active` in the `if let` of `create` lives until the end of its
body and is held across the wait for `jobs`: `activeLock` models it.

A request is served once, and the analysis id it draws is fresh, so a request
names its own job. Repository names within a snapshot, timings and job
timestamps are left out. `JobLifecycle` is what a poll may see: the states of a job
in their only order, a result exactly with a completion, an error exactly with a failure,
never more than `Workers` at work and never more than `QueueCapacity + Workers`
queued (a task holds its permit a moment before it leaves state `queued`).
`LifecycleImplemented` is checked and proved.

A place of the queue is that of a request between its reservation and its permit
(`Waiting`), or that of a handler that was dropped between its reservation and its
spawn (`Lost`), which nothing gives back. `ResourcesAccounted` says that the counter
is the sum of the two; that a place can be lost at all is a disagreement
([below](#disagreements-found)).

### WorkerChild

`child`, `reader` and `parent` are the three parties; `pipe` is what lies
between them. Output is counted in blocks. `Read` is the `take(OUTPUT_LIMIT+1)`
that ends at its limit and closes the pipe, on which a child that still writes
fails. `Deadline` may fire whenever the child is alive, `Kill` is `start_kill`
and the wait that follows. That a process can be killed, and that a pipe blocks
a writer while it is full, is the operating system's part, modelled from its use.

### ArchiveExtract

A `tokio::fs::File` hands each write to a thread and returns; the next write
waits for it and reports its failure. This behaviour is external to the
repository and modelled as `writing`, `landed`, `lost` and the action `Land`.
`Respond`, `Chunk`, `WriteChunk`, `StreamBreaks` and `EndOfStream` are `download`
itself; chunks are the unit.

The extraction measures the file, reads its directory and goes through the
entries. An entry has a path as components, a spelling (`a//b` and `a/b` are two
names of one path), a kind, a declared size, the size its data expands to and a
fault. The order of the checks, which decides the error, is the code's
(`Checks`). Whatever else fails inside an entry is the disk (`DiskFails`) or an entry
that the directory names and the archive does not have (`EntryMissing`). The central
directory lies at the end of an archive, so `ReadDirectory` finds it only when the whole
file has landed. Duplicate detection on
raw names and on normalized paths are separate, as in the code. That an entry may
hold more than it declares is the zip reader's part and external: the code takes it
for possible, since it compares what it copied with the limit of a file again
(`archive.rs:183-186`). `Bounded` says what is then within the limits: each file, and
the declared sizes together; what is written together only if no entry holds more
than it declares, and otherwise within `entries * file_bytes`.

### CriterionPipeline

A criterion program is arbitrary: each answer of its trait methods (whether it
applies, what it estimates, what it returns after how long) is a choice. A
resource vector has the three dimensions the budget limits. Digests, reasons,
evidence texts and identities are values without structure; whether one is
empty, which the code refuses, is a choice. Probabilities are integers, valid
in `0 .. 1`. Dollars are integers with one negative value for everything that
`validate_usd` refuses: floating point rounding is not modelled.
`Record` carries a step's outcome into the loop, `Stop` decides how it goes on. The
two exits of a step by `?`, a clock before 1970 and an observation that does not
serialize (`kernel.rs:495`, `:743`), give an error and no report, and are left out.

### RepositoryPanel

`generation`, `panel`, `port`, `lastKey` are the controller's variables in
`content.js`; `host` is the panel in the document, which is not the same: the
page may replace the document under the controller. `client`, `polls` and
`inbox` are, for each generation, the `analyze` of `background.js` and the
messages on their way. `BeforeRender`, `Render` and `PageChanges` are the page.
A message of a port is delivered in order and only to its own listeners, and a
disconnection is seen by the other side only: that is Chrome's part. The
service may answer anything; the worker may be ended by the browser
(`WorkerEnds`).

### FrontierScan

`worktree` and `head` are the directory, changed at any moment by `Change`: an
edit, a commit or a checkout. A snapshot is three Git commands (`GitStatus`,
`Revision`, `Others`), each of which may fail (`GitFails`). The files are first
walked and then read, one by one (`NextViews`). `SpawnAnalyzers` starts the
analyzers with the corpus, or without it if it could not be read; `Observe` and `End`
are an analyzer, `Join` is the end of the thread scope. The index of Git and ignored
files are left out, and a file has one of few contents.

### BlobBatch and BenchmarkRun

`BlobBatch` counts output in blocks: a header, then as many as the object has.
`RequestRoom` and `BlockRoom` are what the two pipes hold. Git answers one request
at a time, may answer with an object of another size, that of another file or none,
and may die at any moment. `Receive` is `wait_with_output`; `Finish` judges the writer's end before
Git's status and that before the answers, which is the order of the code.

In `BenchmarkRun` the program may fork a descendant that keeps its pipes
(`holders`) and may end by itself, with either status or of a signal of its own. A
poll asks first whether it has ended (`FindEnded`, `FindRunning`) and then what the
clock says (`InTime`, `FindLate`); it may fail (`PollFails`). `KillBench` may be
refused, which the code only records, and `WaitBench` is the wait after it, without
bound, whose result may be lost. `JoinCapture` waits until nobody holds the pipes. Stdout and stderr have one
life and are one pipe here.

### Signals, orders, probes, policies, plans

Reports are records of numbers, JSON pointers are field names. A number is a
whole count of parts of `One`, so that a fraction is a number too. The tolerance
(`Scale`, `Absolute`, `Relative`) keeps its form, an absolute and a relative part.
`FrontierSignals` holds both sides of a profile, the projection and the strict
contract, which the code writes twice. `SharpSet` compares the derived orders with
those of every choice of values on a grid. `FrontierOrders` starts from a model of
probes, a pair of profiles or a specification of a plan and takes the step the code
takes with it, a plan one pick at a time; its invariants say what the results mean.

`ContingentPolicies` has the memo, the certificate of a pruned probe and every
limit with the error it gives. `SolverExact` enumerates all policies, unpruned and
without a memo. Costs are integers.

`InfoPlanner` keeps masses exact: joint tables are integers over a common power.
Binary entropy is irrational; a concave function of the two masses that is zero
when one of them is stands for it, so that what is shown of plans does not rest on
the values of a logarithm. The sums over masses and claims are the library's sum of
a function, written once for the checker and the prover.

### The dependency graph and what is computed from it

Inputs begin where syntax trees end: a file is a path, a language and its
declarations. `DependencyGraph` keeps the lists of candidates of each kind of
import and their order. Its components come from low links in the
code's order of visiting, reachability from its bounded search, and each is
compared with a closure. `Louvain` moves one node at a time in the code's order;
the degree sums it keeps up are variables. `ModularitySearch` allows any sequence of
moves of groups of files, each of which raises modularity.

`GraphCertificates` follows the exact part of each computation: inertia by
elimination in rationals, bisection on it, the linear system of levels, the
iteration of bounds. What stands behind each (`ConductanceSound`, `TrophicSound`,
`SpectralSound`) is a definition by sets of files, by potentials and by vectors.

In `ManifestUsage` a name is a sequence of words, and a text a set of spellings, of
which hyphens and slashes end a word and underscores do not (`Subwords`, after
`word_mentions`). `Tokens` is what the code looks for; `TextJoins` is what counts as
naming a package in `UsageRight`, without the code's tokens: the whole name as its
manifest has it, and for a crate the two spellings of identifiers. That a crate's own
name, with its hyphens, is not among those is a disagreement (`UnusedIsUnnamed`).

### Clones, runs, archives, history

`CloneDetection` has a hash so coarse that windows of different tokens collide, which
is the only case in which verification matters. `RunComparison` spells keys as
characters, so that escapes can be confused. `BundleAudit` has a file system with
links. `GitHistory` reads bytes, and writes them as Git does: names quoted in the log,
raw in the tree. `RepositoryShape` and `CochangeProfiles` take paths as directories,
words and extensions; the classifier's tables are the code's.

`CochangeMass` goes through a history one commit at a time, as `accumulate` does,
then through the commits that were kept, adding up either how a partition cuts their
mass (`AddCommit`) or what each pair has in common (`AddPairs`). A commit of `k` files
spreads `WEIGHT_SCALE` over its pairs in whole shares. The checks the code makes of its
own sums are the guards of `EndHistory`, `FinishPartition` and `FinishPairs`; a check
that fails ends in the stage `invariant`. Two partitions are folded side by side in the
code and do not meet: the model folds one. What the sums should be (`MassOf`, `CutTrue`,
`PairsTrue`) is said of the whole history at once.

## The runs

Twelve: six pass, six show a disagreement.

| Run | Checks | Instance |
|---|---|---|
| `service_safety` | accounting, index, cache, refinement | 3 requests, 2 identities, 1 repository, 2 commits, 1 permit, 1 place, disconnects, 1 restart |
| `service_liveness` | every POST answered, every job ends | 3 requests for one identity, disconnects, no restart |
| `calls` | what is taken from worker, Git and benchmark is whole and honest, and each ends; of the archive: limits, wholeness, completeness, one root; of the kernel: admission, ledger, true stop reason, beliefs | worker: limit 3, pipe 2, output up to 7. Git: pipes of 1 request and 2 blocks, up to 3 files of up to 2 blocks. Benchmark: 3 runs, time limit 1, clock to 1. Archives of up to 4 of 13 entries, download limit 2, sizes 0 to 3. Up to 3 programs, 4 budgets, 3 priors, 3 decisions |
| `panel_and_scan` | panel and client of the page, final view, settles; one reading, snapshots surround it, the scan ends | 2 repositories, 3 generations, 2 navigations; 2 files, 1 content or absence, 2 analyzers, 1 change |
| `frontier_orders` | dominance, exact policies, valid profiles, sharp orders, plans | 4 worlds, 3 probes of 8, 3 budgets, 2 sets of limits; pairs of 50 profiles; 2 claims, 3 probes of 7, 4 strategies, 3 budgets |
| `analyses` | every analysis against its definition; the search climbs and ends | trees of 3, 5 and 6 files; graphs of 2 to 4; token files of up to 7; the sets of `MCAnalyses` |
| `service_single_flight` | deduplication (violated) | 2 requests, 1 identity |
| `archive_truncated` | what was downloaded is read (violated) | as `calls`, archives of 1 entry |
| `panel_lost` | a confirmed page gets a panel (violated) | 1 repository, 1 navigation |
| `service_lost_place` | a POST is refused only beyond the bound (violated) | 2 requests, 2 identities, 1 place, disconnects |
| `archive_understated` | what is extracted is within the limits together (violated) | as `calls`, archives of 2 entries |
| `usage_unnamed` | an unused package is named in no text (violated) | as `analyses` |

Several properties have named parts, each with its own comment in its module:
`ResourcesAccounted` (permits, queue counter, admission), `NothingMixed` (cache and
results), `ChildVerdictSound`, `ExtractionSound`, `StopReasonTrue`, `PanelIsCurrent`,
`SnapshotsSurround`, `PlansSound` and, of the analyses, `StatisticsRight`,
`CertificatesRight`, `ArchivesRight` (comparison of runs, audit of bundles) and
`HistoryRight`, one of whose parts is that the joins of changes with files add up
(`ChangesAddUp`). Two are about sums kept up step by step: `DegreesTrue`, that those
of `Louvain` are the degrees of the edges, and `MassKept`, that those over the commits
are what the whole history says and that no check the code makes of them fails.

### Why the bounds are enough

* **Service.** Two requests race, a third finds the queue full or the index
  overwritten; two identities tell a wrong index entry from a right one; two
  commits tell a wrong cache file from a right one; one permit and one place
  are the smallest capacities and each is exhausted. One restart suffices to
  meet a cache written before it. Requests are interchangeable, which the safety
  run uses as a symmetry; the liveness run uses none.
* **Worker.** Limit, limit + 1 and more, below and above the pipe's capacity:
  at 3, 2 and 7 a child can block with the collector already gone.
* **Git and benchmark.** The input pipe holds fewer requests than there are
  files, the output pipe fewer blocks than an answer has, so each side can find
  the other's pipe full. Three runs leave two warmed ones, the least for a rank
  and a mean to differ; the clock reaches the limit, and beyond it every comparison
  comes out the same. Warmups repeat the
  measured runs and are set to none; output beyond one piece repeats the first.
* **Archive.** Four entries are needed for a directory, a file in it, a skip
  and a conflict. Each limit is met exactly, one below and one above; data is as
  declared, more within the limit of a file, and more than that.
* **Kernel.** Three programs: one overruns, one follows it, one must not.
  Each dimension is met at zero, in part, exactly and in excess.
* **Panel.** Three generations are a panel, its successor and the increment of
  the removal between them; a further one repeats the second. `MaxGeneration`
  stops the controller, so liveness is asked of panels already opened.
* **Frontier.** One file shows a wrong reading, two a half-old one. `MaxChanges`
  is the subject: at one change the snapshots always notice, at two they need
  not. Changes are counted from the start of the scan.

* **Orders and policies.** Four worlds are the fewest in which two probes cut
  across each other and a third one is worth running after one outcome only. Costs
  differ in each dimension, in favour of either probe; the narrow limits are met.
  Intervals are exact, open, overlapping, touching and apart within the tolerance.
* **Plans.** Two claims tell a marginal value on the right claim from one on the
  wrong one; probes are free, worthless, dominated and of one dependence group;
  each budget is met exactly and exceeded.
* **Graphs.** All directed graphs on three files, and on four those with few
  edges and the orientations: every pair of orders of visiting that low links can
  confuse on so few. Communities need five files to move twice and six to
  aggregate and move again. `NodeLimit` is met.
* **Clones.** Seven tokens of two kinds hold repeats that overlap, extend to both
  sides and lie inside one another; the hash takes three values.
* **Manifests, runs, archives, history.** One input of every kind the code
  tells apart, in pairs: a spelling and its neighbor, a name alone and inside a path,
  a key and its escaped form, a
  link inside and one that leaves, every byte Git quotes at every place of a name
  of up to three. Numbers are met at the largest count and at the significand.
* **Co-change mass.** Three commits of any of four files, some too broad, some with
  too few: pairs that meet never, once and twice, in one directory and across; a
  share that does not divide evenly; files that the universe does not have. A history
  of any length is the theorem's.

`CHECK_DEADLOCK FALSE` appears where the system rightly stops: a page nobody uses, a
scan that is done, an input that has been analyzed.
Elsewhere the end is an explicit stuttering action (`Quiet`, `ExtractReturned`, `Returned`)
with a guard that says what being done means, so a deadlock would be found. The three
processes of `MCProcesses` may stutter at any state (`Halted`): that they do not stop
early is what `WorkerEnds`, `BlobsEnd` and `BenchEnds` say.

## Disagreements found

Six have a run whose counterexample is the behaviour, and a finding in
`PROJECT.json` with the lines of both sides.

1. **Deduplication is not atomic** (`src/service/app.rs:163`, run
   `service_single_flight`). `create` gives up the lock on `active` between the
   lookup and the registration. Two overlapping POSTs for one identity are both
   analyzed; the contract test on deduplication covers POSTs one after another
   only. What still holds, and is proved: the index stays sound (`ActiveSound`)
   and both clients get an id they can poll (`AnswersPollable`).
2. **The download is not flushed** (`src/service/github.rs:230`, run
   `archive_truncated`). The last chunk may still be on its way when the file is
   measured and read. What still holds: an archive cut short is refused and never
   passes for a smaller repository (`ExtractionSound`), because its directory is
   at its end.
3. **A panel can be lost** (`extensions/github-software-evaluation/content.js:50`,
   run `panel_lost`). `start` advances the generation and returns early when the
   key is unchanged and a panel is remembered, though the document no longer holds
   it; neither it nor its messages come back until the repository changes.
4. **A dropped handler keeps its place in the queue** (`src/service/app.rs:173`, run
   `service_lost_place`). `create` raises the counter and then waits for the lock on
   the jobs and for that on `active` (`:193-194`); a client that goes away at one of
   them takes the place along for good. After `queue_capacity` of these every new
   identity is refused while nobody waits, though the contract test says that the
   capacity "rejects only distinct work beyond the bound". What still holds, and is
   proved: permits come back on every path, the counter is off by the lost places
   exactly (`ResourcesAccounted`), and it is exact where no handler is dropped
   (`NoPlaceIsLost`).
5. **The limits on what an archive expands to are compared with declared sizes**
   (`archive.rs:161`, run `archive_understated`). What is written is compared with the
   limit of a file only and not added up, so that entries which declare less than they
   hold exceed `expanded_bytes` and `expansion_ratio` together, which the comment on
   `Extraction` calls hard errors. What still holds: `Bounded`.
6. **A crate named with its hyphens is not found** (`deps.rs:2883`, run
   `usage_unnamed`). The scan looks for `a_b` and `ab` in the texts; one that says `a-b`
   leaves the crate an unused candidate, although the limitation the report prints says
   that its name occurs in no text. What still holds: `UsageRight`.

Known from the models, without a run of their own:

* **No timeout upstream** (`src/service/github.rs:130`; `README.md:177-178` tells
  clients to poll until a job has ended). A request to GitHub that never ends keeps
  its job and its permit for ever: without weak fairness of `Upstream`, `EveryJobEnds`
  fails.
* **Two equal snapshots are not an unchanged directory** (`frontier.rs:495`, whose
  comment at `:124-125` takes them for one). A change undone before the second
  snapshot escapes it: with two changes `PinnedIsScanned` fails. No single change
  does (`SnapshotsSurround`).
* **A crate path that no file answers to** is resolved to the file of its parent
  module (`deps.rs:2226-2229`), which the limitations of the report do not mention.
* **A descendant outlives the deadline** (`benchmark.rs:329`), which
  `docs/canonicality.md:51` states; and **a program that cannot be killed** does too:
  the code records that the kill failed and waits without bound (`benchmark.rs:318-319`
  and `:322-323`). `BenchEnds` allows these two ways of not ending and no other.
* A POST can be answered 503 although a place is free, while another's
  compensating decrement is outstanding (`src/service/app.rs:173`), which nothing
  in the repository promises otherwise (`RefusedOnlyBeyondBound` allows it); and the limitation text of
  `src/frontier/signals.rs:486` says that the analyzers read and parse
  independently, while `frontier.rs:299` gives them one shared corpus.

## Fairness

* `JobService`: weak fairness of every handler's and every task's own steps
  (`ServerFairness`). tokio polls every woken task, its mutexes and semaphore serve
  waiters in order, the extraction works through finitely many entries and the worker
  has a deadline. Weak fairness of `Upstream` is a separate assumption about GitHub
  and the network, not a fact of the code. Clients, restarts and disconnects are never
  fair. `Acquire` needs no strong fairness: a permit that is free stays free until a
  task takes it, and with finitely many tasks each gets its turn.
* `WorkerChild`: weak fairness of the child, the collector and `run_child`. The
  child's analysis is of a finite tree. Nothing is assumed of the deadline, so
  that nothing depends on it: `WorkerEnds`.
* `BlobBatch`: weak fairness of the writing thread, of Git's progress and of the
  reading side. Git's death is not fair: the batch must end if it never comes.
* `BenchmarkRun`: weak fairness of `Runner`, the loop with its capture threads, and of
  the clock (`Tick`). Neither the program nor a descendant need ever do anything, and
  neither polls nor kills need ever succeed.
* `Louvain`: weak fairness of the search as one sequential program, so that
  `DetectionEnds` is the end of its loops.
* `RepositoryPanel`: weak fairness of each client and of the delivery of its
  messages. Every request is aborted after `requestTimeoutMs` and every delay is
  a timer. Nothing of the page, the user, the service or the worker's life: the
  property excepts a worker that was ended.
* `FrontierScan`: weak fairness of the scan as one program. Nothing of whoever
  works in the directory.
* The archive, the kernel and the planner have safety properties only: each is
  one sequential call over finite input.

## The proofs

Proved for every value of the constants under the named assumptions, which TLC
evaluates in the runs. The shape is the same throughout: `IInv` is inductive,
implies the property, and the temporal step is `PTL`.

* **`JobServiceProofs`** (from `RequestsFinite`, `PositiveConfig`,
  `BoundsTyped`, `NoneIsNone`). All its invariants and the refinement, the
  parts first (`PermitsNeverLeak`, `QueueCounterExact`, `QueueBounded`) and then the
  property the run checks (`ResourcesAreAccounted`), likewise `SnapshotsNeverMixed`. The
  counters are the difficult part, since they are related to the *cardinality* of
  sets of requests: `PermitMove` and `CountMove` say that a step leaves set and
  counter alone, adds one fresh member and changes the counter by one, removes
  one member likewise, or starts over; each follows from the action alone, and
  the library's facts on cardinality do the rest. `AdmissionBound` needs
  `QueueAccounting`: a request is admitted while the counter is below capacity,
  and the counter is at least the number of admitted ones. `NoPlaceIsLost` is the
  exact count where clients do not disconnect. `ActiveSound` rests on
  the order of `InsertJob`, `Register`, `Unregister` and on each task's key; that
  any task may remove any entry of its identity is covered. `ImplementsLifecycle`
  maps each action to a lifecycle step or a stutter; the abstract guards on
  `Workers` and on the number of queued jobs are discharged from
  `PermitsConserved` and `AdmissionBound`, which is why they come first.
* **`Folding`** states what induction over data would, in a form the provers can use:
  natural induction about a *set* of numbers instead of a predicate
  (`NaturalInduction`), induction over the subsets of a finite set (`SetInduction`),
  and from them that a fold has a solution and that for an operator whose order does
  not matter any element may be taken off last (`FoldExists`, `FoldedAnyLast`,
  `FoldedSum`). The operator that is folded is a parameter: a proof instantiates the
  module with the fold of the model, whose expressions may be of the state. Sums of a
  function over finite sets follow without parameters (`Sum`, from `SumIsUnique` to
  `SumOfSizes`).
* **`ProcessesProofs`** (from `LimitTyped`, `PipeTyped`, `RoomAssumption`,
  `SpecAssumption`). *Worker*: what is written is in the pipe or read (`Conserved`),
  and the collector ends at its limit or when a dead child's pipe is empty
  (`EofMeans`); a verdict other than an error therefore saw everything
  (`VerdictSound`). *Blobs*: `BlobInv` says that what Git has printed and prints,
  while it has not failed, is a stream in which every header is followed by its
  blocks; the reader is a fold over the requests that takes one answer after another
  from it (`BlobsAreWhole`).
  *Benchmark*: `BenchInv` holds that a run is over only when nobody has its output
  open, that a program that was killed was killed by the runner, which says so, and
  that every attestation so far is honest; sorting moves each value to a place of its
  own, so that ranks and mean are those of the runs
  (`AttestationsAreHonest`). `ProcessesSound` puts the three together: each goes on
  while the others stay, so that what holds of each holds of all.
* **`ArchiveExtractProofs`** (from `SizesTyped`, `EntriesTyped`).
  Download: the received count bounds the file plus the chunk in transit plus the
  lost one, strictly so before a write; the limit on the count is then one on the
  file, while the last write is under way too (`LimitHolds`). Extraction: what the
  loop has done is a function of the entries it is past (`Done`): their paths are
  distinct and under one root (`PathsInv`), tree and skipped list hold each of them
  once (`TreeInv`), and the running total is the sum of their declared sizes in
  whatever order it is added up (`SumInv`, with `Folding`); the bytes of the tree are
  a sum over the same entries, each term at most `FileLimit`, and at most what the
  entry declares if none holds more. A success is past every
  entry of an archive that had landed whole (`StageInv`), which is
  `ExtractionIsSound`.
* **`CriterionPipelineProofs`** (from `InputsTyped`, `BeliefsTyped`). The steps
  form a chain (`ChainInv`): each `Fits` what the one before left. `RecordKeeps`
  proves once that a step that fits keeps the chain, and each action shows that its
  step fits. Admission, beliefs and the reason a run stops for (`StopReasonSound`)
  are read off the chain, and so is that what the steps spent and what is left add up
  to the budget (`LedgerSound`): by induction over the steps, each of which leaves
  what the next one starts from (`LedgerLinks`).
* **`RepositoryPanelProofs`** (from `Bounds`). Generations only grow, a client
  belongs to a generation at most that of the panel, and only a client at work may
  still send progress; a late message therefore meets a different generation
  (`PanelStaysCurrent`). What a panel says in the end stays (`FinalIsKept`): the
  messages on their way are progress except perhaps the last, and once the panel
  shows a final state its inbox is empty and its client at rest (`FinalInv`).
* **`FrontierProofs`** has five parts.

  *Scan* (from `FilesAndMarks`): the
  corpus changes only before the analyzers are spawned, so whatever they copied from
  it still equals it (`AnalyzersAgree`). For `NoChangeEscapes`: everything read lies,
  file by file, *between* the tree of the first snapshot and the files there now
  (`Between`). With at most one change, either it has not come yet, and the two are
  one; or the second snapshot is undisturbed and shows the same, or the analyzers had
  ended.

  *Probes* (from `ProblemsAssumption`): both kinds of dominance are strict partial
  orders (`DominanceIsStrictOrder`). Blackwell dominance needs that two partitions
  that refine each other are equal, since the strictness of one step may come from
  the partition and that of the next from a cost. A finite strict order has a maximal
  element above every element that is not maximal, which is why a dropped probe has a
  kept one that dominates it; a finer partition has the smaller worst block
  (`WorstFollows`) and the smaller expected one, by regrouping the sum over blocks
  into one over worlds (`ExpectedByWorld`, `ExpectedFollows`). This is
  `ProbesAreCompared`.

  *Profiles* (from `ProfilesAssumption`: the reports are those the analyzers can give,
  and one that delivers names its implementation; and `OneAssumption`): what the
  projection writes satisfies the strict contract, which the code states separately
  (`ProfilesMeetContract`). Each reading is treated once (`RatioReading`,
  `WorkingSetReading`, `ClonesReading` ...), then the signal around it
  (`SignalMeets`), then the profile.

  *Orders* (from `ToleranceAssumption` and `TopAssumption`): being equal within the
  tolerance is not transitive, but it is kept
  when two numbers move towards each other (`Narrowing`), since the relative part of
  the tolerance is below one; and some number is always far enough (`FarApart`). The
  ends of the intervals are therefore all that need be looked at, which is
  `LocalOutcomesSharp`. From there to `OrdersAreRight`: an outcome that is possible
  for one signal is attained by some pair of values below `Top`
  (`PossibleIsAttainable`), signals choose independently of each other, so that one
  pair of values for each extends to one for all (`ExtendAll`), and the fold of the
  outcomes is the order that choice shows (`DirectionsOrder`). Swapping the two
  profiles mirrors each of these (`SharpMirrored`, `BaseMirrored`), and the qualified
  comparison claims no more than the identified one allows (`QualifiedIsNecessary`).
  The invariant is that the profiles compared are made ones (`MadeProfiles`).

  *Plans* (from `PlannerAssumption` and `PlansAssumption`): `PlansAreSound`. The code
  keeps a running joint value for each claim and compares candidates by it; the
  definition values the set of chosen probes from nothing. `PlansRight` relates them:
  the running values are those of the chosen probes of each claim (`JointRight`), so
  the gain of a candidate is the difference of two sets of probes, of which only its
  own claim's share changes (`GainIs`). The candidates are the probes the limits allow
  (`OpenIsAllowed`). That the pick is the best of *all* of them, though the code looks
  at its frontier alone, needs that every candidate left out is outdone by one on the
  frontier (`FrontCovers`) and has no greater key then (`OutdoesKey`); keys are
  compared as fractions with value at no cost above all others, an order whose
  transitivity is arithmetic of products (`AtLeastTransitive`). The reason for
  stopping is true because an empty frontier means no candidate (`NothingLeft`).
  `MetricsAgree`, the second half, rests on a concave measure of two masses being
  superadditive over their parts (`EntropyParts`, `RiskParts`) and proportional to
  their scale. The arithmetic is exact; the roundoff the code tolerates is not in the
  theorem.
* **`AnalysesProofs`**, about four of the analyses.

  *Communities* (for any finite set of files and any edges between two of
  them). The search refines `ModularitySearch` (`LouvainClimbs`, the property
  `ClimbsModularity`). Modularity is a sum over communities of edges within and ends
  (`ModularityIsWorth`), and a group that changes its community changes two terms of
  it by `Gain` (`ModularityMoves`). The code computes the gain from other numbers: the
  weights of an aggregated graph and running sums of degrees. `LouvainInv` says what
  they are: the nodes part the files (`Blocks`), each node's self edges, degree and
  weights count edges of the *file* graph (`Counts`), and each community's degree sum
  is its number of ends. A visit keeps this and moves only for a positive gain
  (`DeltaIsGain`, `BestGains`, `VisitSound`); aggregation keeps the communities and
  counts right again, because each edge lies between exactly one pair of old nodes
  (`PairsAdd`, `SelfCounts`, `DegreeCounts`, `AggregateSound`). The part of it that
  the run checks, that the running sums are true, is `LouvainCounts`.

  *Co-change mass* (from `WeightAssumption` and `HistoriesAssumption`: any histories
  over a finite universe): `MassIsKept`. The invariant `MassInv` says that every sum
  the loops keep is, for some function of a commit's set of files, the sum of that
  function over the kept commits so far (`KeptSum`), and that over the history such a
  sum is the one over the commits that tell something (`ToldSum`), whatever the
  function (`HistoryKept`, `CutKept`, `SupportKept`); one lemma for each (`KeptSumStep`,
  `ToldSumStep`, `KeptSumAppend`) then does for all sums. What a sum over commits says
  of pairs is exchange of summation (`SumExchange`, `MassByCommit`): the mass of a set
  of pairs is the sum over commits of its share times how many of the pairs it has. For
  the pairs within a community and those that leave it that number is
  `n(n-1)/2` and `n(k-n)` (`PairsCounted`, `CrossCounted`, `PairsSplit`), so that the
  strength `n(k-1)` less twice the first is the second; no subtraction of `finish`
  wraps (`CutIsTrue`). The loss is at most the remainders of the divisions
  (`UnitIs`, `LossTrue`); the union in a Jaccard ratio counts the commits that have
  either file (`JaccardTrue`).

  *Manifests* (from `UsageAssumption`: any finite trees): `UsageIsRight`. The invariant
  `UsageInv` adds to what the run checks that the rows are finitely many and of the
  ecosystems the formats have, which is what the tokens of a row and the counts need.
  The workspace correction of `manifest_usage` looks as if it could call a package used
  that nothing imports; it cannot, and changes no status at all: which imports match
  depends on a row's ecosystem and name only, so a workspace row that shares them with
  a matched row is matched itself (`OnePackage`, `StatusIs`). So every status is that
  of `RowStatus`, a count of no mentions means that no file that speaks has a token
  (`UnmentionedIs`), whoever names a package whole says one of its tokens, for Go the
  last word of the path (`SpellingsAreSought`, `LastIsSaid`), and dropping the files that declare from the tree changes nothing
  (`SpeakersAreRead`).

  *Twins*, for every finite graph and valid configuration: `TwinsAreSound`, the part of
  `CertificatesRight` about `StructuralTwins`. Classes group files with equal keys
  (`GroupedAre`), which say that two files have the same neighbors but for each other
  (`ClassesAre`); the definition is that exchanging the two maps the edges onto
  themselves (`ExchangedIs`, `TwinsAreExchangeable`). That no pair of twins is lost when
  its class is suppressed needs that twins overlap fully (`TwinsOverlap`), that
  sorting keeps every pair, as the comparison by ratio, size and names is a strict order
  (`PairsInOrder`, `OrderedHasAll`), and that a list that is not cut is whole
  (`TwinsListed`).

Each inductive invariant was checked by TLC on the run's instance before it was
proved.

Only model-checked:

* all liveness: fairness and `ENABLED` are beyond the proof system;
* `PoliciesExact`: the solver is recursive over policies, as are the policies it is
  compared with, and what a recursion computes for every input is induction over data.
  Of what it rests on, the dominance of probes is proved;
* the analyses of `MCAnalyses`: `StatisticsRight`, `CertificatesRight`, `ClonesRight`,
  `ArchivesRight`, `HistoryRight`. `DependencyGraph`,
  `GraphCertificates`, `CloneDetection`, `RunComparison` and `BundleAudit` compute by
  `RECURSIVE` operators, as the code does, and no theorem can be stated above one of
  these. What is proved of them is proved below, of `Louvain`, `CochangeMass`,
  `ManifestUsage` and `StructuralTwins`.

## Not modelled

* **Pure counts over syntax trees, rendering, argument parsing** (the inventories
  of `metrics.rs`, `typespace.rs`, `discipline.rs` and their like,
  `analysis_output.rs`, `main.rs`). A model would be the grammar again.
* **The symbol graph and liveness of symbols.** Name resolution over syntax trees;
  the graph computed from them is analyzed as the one of files is.
* **Extraction of declarations, and the reading of TOML and JSON**: inputs of the
  models begin behind them.
* **Floating point**: relative changes, dollar rounding, decimal renderings of
  exact certificates, the roundoff the planner tolerates.
* **SHA-256**: digests are taken to be free of collisions, and an observation
  is its own digest.
* **The two requests of `resolve`** (`src/service/github.rs:176`): the service's
  model resolves in one step, so that a repository renamed between them is not met.
* **Repository identity**: a pure parser, whose result is a model value.
* **Validation of senders and drawing of the panel** in the extension.
* **Panics inside a service task.** A panicking task drops its permit but leaves
  its job and its index entry; no line of `run` panics on its own, and what the
  libraries do is not known from the source.
* **Memory growth of the job table**, which has no bound in the code and none is
  promised.

## The plan

What is left, in this order:

1. `GithubAcquire`: the two requests of `resolve`, renames and replacements
   between them, redirects; composed with the cache of `JobService`.
2. Compositions: the worker and the extraction under the service's `Analyze` and
   `Extract`.
3. The symbol graph: visibility and reachability from entry points, on the
   operators of `DependencyGraph`.
4. Proofs: `BundleAudit` and `RunComparison`, with their recursion as functions, of
   all that does not need what a recursion computes.

## Running it

In this directory, for a module `M` and a configuration `C.cfg` listed under
"runs" in `PROJECT.json`:

    tlc -workers 2 -config C.cfg M      # model-check
    tlapm MProofs.tla                   # check the proofs

The longest run, `frontier_orders`, takes between one and two minutes, each of the others
one or less. The proofs of `FrontierProofs` take five
to six minutes from nothing, those of each other module less.
