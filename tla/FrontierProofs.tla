--------------------------- MODULE FrontierProofs ---------------------------
(* Proofs about the frontier analyses.                                      *)
(*                                                                          *)
(* The analyzers of a scan agree, for any files, analyzers and changes:     *)
(* once they are spawned nobody writes the corpus, and what one of them     *)
(* takes from it, it takes whole.  And the snapshots surround what they     *)
(* read: no single change escapes both.                                     *)
(*                                                                          *)
(* The outcomes that two intervals allow are the ones that some values      *)
(* inside of them have, for any intervals and any tolerance                 *)
(* (local_possible_outcomes, src/src/frontier_identified.rs).  Being the    *)
(* same within the tolerance is not transitive, but it is kept when two     *)
(* numbers move towards each other, and the ends of the intervals are       *)
(* therefore all that has to be looked at.                                  *)
(*                                                                          *)
(* And the plans of the greedy planner are sound, for any claims, probes    *)
(* and budgets: a turn's pick is the best of all that is still allowed.     *)
EXTENDS FrontierScan, FrontierOrders, FiniteSetTheorems, SequenceTheorems, TLAPS

INSTANCE Folding
  WITH Op <- LAMBDA v, t : v + t, Base <- 0, Value <- LAMBDA x : x, Choice <- LAMBDA s : s

-----------------------------------------------------------------------------
(* The scan (src/src/frontier.rs)                                           *)

Unspawned == progress \in {"before", "corpus"}

IInv ==
  /\ status = [a \in Analyzer |-> status[a]]
  /\ observed = [a \in Analyzer |-> observed[a]]
  /\ Unspawned => \A a \in Analyzer : observed[a] = Nothing
  /\ Unspawned => from = "files" /\ \A a \in Analyzer : status[a] = "idle"
  /\ from = "corpus" => \A a \in Analyzer : observed[a] \in {Nothing, corpus}
  /\ OneReading

LEMMA InitIInv == ScanInit => IInv
  BY DEF ScanInit, IInv, Unspawned, OneReading

(* A view of no file is not whole.                                         *)
LEMMA NothingIsNotWhole == ~Whole(Nothing)
  BY FilesAndMarks DEF Whole, Nothing

LEMMA NextIInv == IInv /\ [ScanNext]_scanVars => IInv'
<1> SUFFICES ASSUME IInv, [ScanNext]_scanVars
             PROVE  IInv'
  OBVIOUS
<1> USE DEF IInv, Unspawned, OneReading, Nothing
<1>1. ASSUME UNCHANGED analysis, Unspawned' => Unspawned
      PROVE  IInv'
  BY <1>1 DEF analysis
<1>2. ASSUME NEW result, Snap(result)
      PROVE  Unspawned' => Unspawned
  BY <1>2 DEF Snap
<1>3. CASE GitStatus
  BY <1>1, <1>2, <1>3 DEF GitStatus
<1>4. CASE Revision
  BY <1>1, <1>4 DEF Revision
<1>5. CASE Others
  BY <1>1, <1>2, <1>5 DEF Others
<1>6. CASE GitFails
  BY <1>1, <1>2, <1>6 DEF GitFails
<1>7. CASE ReadCorpus
  BY <1>7 DEF ReadCorpus
<1>8. CASE SpawnAnalyzers
  <2>1. /\ progress' = "analyzers" /\ progress = "corpus"
        /\ status' = [a \in Analyzer |-> "running"]
        /\ UNCHANGED observed
    BY <1>8 DEF SpawnAnalyzers
  <2> QED
    BY <2>1
<1>9. CASE Join
  BY <1>1, <1>9 DEF Join
<1>10. ASSUME NEW a \in Analyzer, Observe(a)
       PROVE  IInv'
  <2>1. /\ status[a] = "running"
        /\ UNCHANGED <<progress, corpus, from, status>>
        /\ from = "corpus" => observed' = [observed EXCEPT ![a] = corpus]
        /\ \E view : observed' = [observed EXCEPT ![a] = view]
    BY <1>10 DEF Observe
  <2>2. ~Unspawned
    BY <2>1
  <2>3. PICK view : /\ observed' = [observed EXCEPT ![a] = view]
                    /\ from = "corpus" => view = corpus
    BY <2>1
  <2> QED
    BY <2>1, <2>2, <2>3
<1>11. ASSUME NEW a \in Analyzer, End(a)
       PROVE  IInv'
  <2>1. PICK verdict \in Ended :
          /\ status' = [status EXCEPT ![a] = verdict]
          /\ verdict = "Complete" => Whole(observed[a]) /\ observed' = observed
          /\ verdict # "Complete" => observed' = [observed EXCEPT ![a] = Nothing]
    BY <1>11 DEF End, Ended
  <2>2. /\ status[a] = "running" /\ ~Unspawned
        /\ UNCHANGED <<progress, corpus, from>>
    BY <1>11 DEF End
  <2>3. from = "corpus" /\ verdict = "Complete" => observed[a] = corpus
    BY <2>1, NothingIsNotWhole
  <2> QED
    BY <2>1, <2>2, <2>3
<1>12. CASE Change
  BY <1>1, <1>12 DEF Change
<1>13. CASE UNCHANGED scanVars
  BY <1>1, <1>13 DEF scanVars, analysis
<1> QED
  BY <1>3, <1>4, <1>5, <1>6, <1>7, <1>8, <1>9, <1>10, <1>11, <1>12, <1>13
  DEF ScanNext, Scan

(* What a complete analyzer reports was computed from the one reading of   *)
(* the files that the corpus is, whatever is done to them meanwhile.       *)
THEOREM AnalyzersAgree == ScanSpec => []OneReading
<1>1. IInv => OneReading
  BY DEF IInv
<1> QED
  BY InitIInv, NextIInv, <1>1, PTL DEF ScanSpec
-----------------------------------------------------------------------------
(* The snapshots.  Whatever was read is between the tree of the first      *)
(* snapshot and the files that are there now; the second snapshot, if no   *)
(* change comes during it, shows that the two are one.                     *)

View(v) == v = [f \in DOMAIN v |-> v[f]] /\ DOMAIN v \subseteq File

Between(v, t) == \A f \in DOMAIN v : v[f] \in {t[f], worktree[f], Found}

Faithful(t) == \A a \in Analyzer : status[a] = "Complete" => observed[a] = t

(* The directory has not changed since the present snapshot began.         *)
Undisturbed ==
  /\ part # "status" => Clean
  /\ part = "untracked" => probe \subseteq {head}

Types ==
  /\ ScanTypeOK
  /\ worktree \in Trees /\ head \in Trees /\ probe \subseteq Trees
  /\ changes \in Nat
  /\ View(corpus) /\ \A a \in Analyzer : View(observed[a])
  /\ part \in {"status", "revision", "untracked"}
  /\ progress \notin {"before", "after"} => part = "status"
  /\ progress = "before" => before = {} /\ corpus = Nothing
  /\ progress # "done" => pinnedTo = {}
  /\ \A a \in Analyzer : status[a] = "Complete" => Whole(observed[a])

Surround ==
  changes <= 1 =>
    /\ changes = 0 => Undisturbed /\ \A t \in before : worktree = t
    /\ progress \in {"corpus", "analyzers"} =>
         \A t \in before : /\ Between(corpus, t)
                           /\ \A a \in Analyzer : Between(observed[a], t)
    /\ progress = "after" =>
         \A t \in before :
           \/ Faithful(t)
           \/ /\ changes = 1 /\ Undisturbed
              /\ \A a \in Analyzer : Between(observed[a], t)
    /\ progress = "done" => \A t \in pinnedTo : Faithful(t)

LEMMA NothingIsAView == View(Nothing)
  BY DEF View, Nothing

LEMMA InitTypes == ScanInit => Types
  BY NothingIsAView DEF ScanInit, Types, ScanTypeOK

LEMMA InitSurround == ScanInit => Surround
  BY DEF ScanInit, Surround, Undisturbed

(* A view grows by what is in the directory.                               *)
LEMMA ViewsGrow ==
  ASSUME NEW v, View(v), NEW w \in NextViews(v)
  PROVE  /\ View(w)
         /\ \A f \in DOMAIN w : \/ w[f] \in {worktree[f], Found}
                                \/ f \in DOMAIN v /\ w[f] = v[f]
<1>1. CASE DOMAIN v # File
  <2>1. PICK f \in File \ DOMAIN v :
          w = [g \in DOMAIN v \cup {f} |->
                 IF g # f THEN v[g] ELSE IF worktree[f] = Absent THEN Absent ELSE Found]
    BY <1>1 DEF NextViews
  <2> QED
    BY <2>1 DEF View
<1>2. CASE DOMAIN v = File
  <2>1. PICK f \in File : w = [v EXCEPT ![f] = worktree[f]]
    BY <1>2 DEF NextViews
  <2> QED
    BY <2>1 DEF View
<1> QED
  BY <1>1, <1>2

LEMMA NextTypes == IInv /\ Types /\ [ScanNext]_scanVars => Types'
<1> SUFFICES ASSUME IInv, Types, [ScanNext]_scanVars
             PROVE  Types'
  OBVIOUS
<1> USE DEF Types, ScanTypeOK
<1>1. ASSUME NEW result, Snap(result), result \subseteq Trees, progress \in {"before", "after"},
             UNCHANGED <<directory, analysis>>
      PROVE  Types'
  BY <1>1 DEF Snap, directory, analysis, View, Whole, Ended
<1>2. CASE GitStatus
  <2>1. CASE Clean
    BY <1>2, <2>1 DEF GitStatus, directory, analysis, View, Whole
  <2>2. CASE ~Clean
    BY <1>1, <1>2, <2>2 DEF GitStatus
  <2> QED
    BY <2>1, <2>2
<1>3. CASE Revision
  BY <1>3 DEF Revision, directory, analysis, View, Whole
<1>4. CASE Others
  <2>1. /\ progress \in {"before", "after"} /\ UNCHANGED <<directory, analysis>>
        /\ Snap(IF Untracked THEN {} ELSE probe)
    BY <1>4 DEF Others
  <2> QED
    BY <1>1, <2>1
<1>5. CASE GitFails
  BY <1>1, <1>5 DEF GitFails
<1>6. CASE ReadCorpus
  <2>1. /\ progress = "corpus" /\ View(corpus')
        /\ UNCHANGED <<directory, snapshots, progress, from, status, observed>>
    BY <1>6, ViewsGrow DEF ReadCorpus
  <2> QED
    BY <2>1 DEF directory, snapshots, View, Whole
<1>7. CASE SpawnAnalyzers
  <2>1. View(corpus')
    BY <1>7, NothingIsAView DEF SpawnAnalyzers
  <2> QED
    BY <1>7, <2>1 DEF SpawnAnalyzers, directory, snapshots, View, Whole
<1>8. CASE Join
  BY <1>8 DEF Join, directory, snapshots, analysis, View, Whole
<1>9. ASSUME NEW a \in Analyzer, Observe(a)
      PROVE  Types'
  <2>1. /\ status[a] = "running" /\ progress \notin {"after", "done"}
        /\ UNCHANGED <<directory, snapshots, progress, corpus, from, status>>
    BY <1>9 DEF Observe, Ended
  <2>2. PICK view : observed' = [observed EXCEPT ![a] = view] /\ View(view)
    BY <1>9, ViewsGrow DEF Observe
  <2>3. \A b \in Analyzer : observed'[b] = IF b = a THEN view ELSE observed[b]
    BY <2>2 DEF IInv
  <2>4. \A b \in Analyzer : View(observed'[b])
    BY <2>2, <2>3
  <2>5. \A b \in Analyzer : status'[b] = "Complete" => Whole(observed'[b])
    BY <2>1, <2>3
  <2> QED
    BY <2>1, <2>4, <2>5 DEF directory, snapshots, View, Whole
<1>10. ASSUME NEW a \in Analyzer, End(a)
       PROVE  Types'
  <2>1. /\ status[a] = "running" /\ progress \notin {"after", "done"}
        /\ UNCHANGED <<directory, snapshots, progress, corpus, from>>
    BY <1>10 DEF End, Ended
  <2>2. PICK verdict :
          /\ status' = [status EXCEPT ![a] = verdict]
          /\ verdict = "Complete" => Whole(observed[a]) /\ observed' = observed
          /\ verdict # "Complete" => observed' = [observed EXCEPT ![a] = Nothing]
    BY <1>10 DEF End
  <2>3. \A b \in Analyzer : View(observed'[b])
    BY <2>2, NothingIsAView DEF IInv
  <2>4. \A b \in Analyzer : status'[b] = "Complete" => Whole(observed'[b])
    BY <2>2 DEF IInv
  <2> QED
    BY <2>1, <2>3, <2>4 DEF directory, snapshots, View, Whole
<1>11. CASE Change
  <2>1. /\ worktree' \in Trees /\ head' \in Trees /\ changes' \in Nat
        /\ UNCHANGED <<snapshots, analysis, progress>>
    BY <1>11 DEF Change, Trees
  <2> QED
    BY <2>1 DEF snapshots, analysis, View, Whole
<1>12. CASE UNCHANGED scanVars
  BY <1>12 DEF scanVars, View, Whole
<1> QED
  BY <1>2, <1>3, <1>4, <1>5, <1>6, <1>7, <1>8, <1>9, <1>10, <1>11, <1>12 DEF ScanNext, Scan

(* What is undisturbed, clean and without untracked files is the commit.   *)
LEMMA ProbeIsWorktree ==
  ASSUME Types, Undisturbed, part = "untracked", ~Untracked, NEW t \in probe
  PROVE  worktree = t
<1>1. t = head
  BY DEF Undisturbed
<1>2. \A f \in File : worktree[f] = head[f]
  BY DEF Undisturbed, Clean, Untracked
<1> QED
  BY <1>1, <1>2 DEF Types, Trees

(* What was read between a tree and itself is that tree.                   *)
LEMMA WholeBetweenIsTree ==
  ASSUME NEW v, View(v), Whole(v), NEW t \in Trees, Between(v, t), worktree = t
  PROVE  v = t
<1>1. \A f \in File : v[f] = t[f]
  BY DEF Whole, Range, Between
<1> QED
  BY <1>1 DEF View, Whole, Trees

LEMMA ReadIsFaithful ==
  ASSUME Types, NEW t \in Trees, worktree = t,
         \A a \in Analyzer : Between(observed[a], t)
  PROVE  Faithful(t)
  BY WholeBetweenIsTree DEF Types, Faithful

(* A snapshot that ends says what the directory is, or nothing.            *)
LEMMA SnapSurround ==
  ASSUME IInv, Types, Surround, NEW result, Snap(result),
         progress \in {"before", "after"}, UNCHANGED <<directory, analysis>>,
         \A t \in result : t \in Trees /\ (Undisturbed => worktree = t)
  PROVE  Surround'
<1> SUFFICES ASSUME changes <= 1
             PROVE  Surround'
  BY DEF Surround, directory
<1>1. changes = 0 => Undisturbed /\ \A t \in before : worktree = t
  BY DEF Surround
<1>2. CASE progress = "before"
  <2>1. /\ progress' = "corpus" /\ before' = result /\ part' = "status"
        /\ corpus' = Nothing /\ \A a \in Analyzer : observed'[a] = Nothing
    BY <1>2 DEF Snap, IInv, Unspawned, Types, analysis
  <2>2. \A t : Between(Nothing, t)'
    BY DEF Between, Nothing
  <2>3. \A t \in before' : Between(corpus, t)' /\ \A a \in Analyzer : Between(observed[a], t)'
    BY <2>1, <2>2 DEF Between
  <2> QED
    BY <1>1, <2>1, <2>3 DEF Surround, Undisturbed, directory
<1>3. CASE progress = "after"
  <2>1. /\ progress' = "done" /\ before' = before /\ part' = "status"
        /\ \A t \in pinnedTo' : t \in before /\ t \in result
    BY <1>3 DEF Snap
  <2>2. ASSUME NEW t \in pinnedTo'
        PROVE  Faithful(t)
    BY <1>1, <1>3, <2>1, ReadIsFaithful DEF Surround
  <2> QED
    BY <1>1, <2>1, <2>2 DEF Surround, Undisturbed, Faithful, directory, analysis
<1> QED
  BY <1>2, <1>3

LEMMA NextSurround == IInv /\ Types /\ Surround /\ [ScanNext]_scanVars => Surround'
<1> SUFFICES ASSUME IInv, Types, Surround, [ScanNext]_scanVars
             PROVE  Surround'
  OBVIOUS
<1>1. CASE GitStatus
  <2>1. CASE Clean
    BY <1>1, <2>1 DEF GitStatus, Surround, Undisturbed, Clean, Between, Faithful, directory, analysis
  <2>2. CASE ~Clean
    BY <1>1, <2>2, SnapSurround DEF GitStatus
  <2> QED
    BY <2>1, <2>2
<1>2. CASE Revision
  BY <1>2 DEF Revision, Surround, Undisturbed, Clean, Between, Faithful, directory, analysis
<1>3. CASE Others
  <2>1. /\ part = "untracked" /\ progress \in {"before", "after"}
        /\ UNCHANGED <<directory, analysis>>
    BY <1>3 DEF Others, Types, ScanTypeOK
  <2>2. CASE Untracked
    BY <1>3, <2>1, <2>2, SnapSurround DEF Others
  <2>3. CASE ~Untracked
    <3>1. \A t \in probe : t \in Trees /\ (Undisturbed => worktree = t)
      BY <2>1, <2>3, ProbeIsWorktree DEF Types
    <3> QED
      BY <1>3, <2>1, <2>3, <3>1, SnapSurround DEF Others
  <2> QED
    BY <2>2, <2>3
<1>4. CASE GitFails
  BY <1>4, SnapSurround DEF GitFails
<1>5. CASE ReadCorpus
  <2>1. /\ progress = "corpus" /\ corpus' \in NextViews(corpus) /\ View(corpus)
        /\ UNCHANGED <<directory, snapshots, progress, from, status, observed>>
    BY <1>5 DEF ReadCorpus, Types
  <2>2. ASSUME NEW t, Between(corpus, t)
        PROVE  Between(corpus, t)'
    BY <2>1, <2>2, ViewsGrow DEF Between, directory
  <2> QED
    BY <2>1, <2>2 DEF Surround, Undisturbed, Clean, Between, Faithful, directory, snapshots
<1>6. CASE SpawnAnalyzers
  <2>1. \A t : Between(corpus, t) => Between(corpus, t)'
    BY <1>6 DEF SpawnAnalyzers, Between, Nothing, directory
  <2> QED
    BY <1>6, <2>1
    DEF SpawnAnalyzers, Surround, Undisturbed, Clean, Between, directory, snapshots
<1>7. CASE Join
  <2>1. /\ progress = "analyzers" /\ progress' = "after"
        /\ UNCHANGED <<directory, snapshots, analysis>>
    BY <1>7 DEF Join
  <2>2. ASSUME changes <= 1, NEW t \in before
        PROVE  \/ Faithful(t)
               \/ /\ changes = 1 /\ Undisturbed
                  /\ \A a \in Analyzer : Between(observed[a], t)
    <3>1. \A a \in Analyzer : Between(observed[a], t)
      BY <2>1, <2>2 DEF Surround
    <3>2. changes = 0 => worktree = t
      BY <2>2 DEF Surround
    <3>3. Undisturbed
      BY <2>1 DEF Types, Undisturbed
    <3>4. t \in Trees /\ changes \in Nat
      BY <2>2 DEF Types, ScanTypeOK
    <3> QED
      BY <2>2, <3>1, <3>2, <3>3, <3>4, ReadIsFaithful
  <2> QED
    BY <2>1, <2>2 DEF Surround, Undisturbed, Clean, Between, Faithful, directory, snapshots,
       analysis
<1>8. ASSUME NEW a \in Analyzer, Observe(a)
      PROVE  Surround'
  <2>1. /\ status[a] = "running"
        /\ UNCHANGED <<directory, snapshots, progress, corpus, from, status>>
    BY <1>8 DEF Observe
  <2>2. progress = "analyzers"
    BY <2>1 DEF Types, ScanTypeOK, IInv, Unspawned, Ended
  <2>3. PICK view : /\ observed' = [observed EXCEPT ![a] = view]
                    /\ view = corpus \/ view \in NextViews(observed[a])
    BY <1>8 DEF Observe
  <2>4. \A b \in Analyzer : observed'[b] = IF b = a THEN view ELSE observed[b]
    BY <2>3 DEF IInv
  <2>5. ASSUME NEW t, Between(corpus, t), Between(observed[a], t)
        PROVE  Between(view, t)
    BY <2>3, <2>5, ViewsGrow DEF Between, Types
  <2>6. ASSUME changes <= 1, NEW t \in before, NEW b \in Analyzer
        PROVE  Between(observed'[b], t)
    BY <2>2, <2>4, <2>5, <2>6 DEF Surround
  <2>7. changes <= 1 => \A t \in before : /\ Between(corpus, t)
                                         /\ \A b \in Analyzer : Between(observed'[b], t)
    BY <2>2, <2>6 DEF Surround
  <2> QED
    BY <2>1, <2>2, <2>7 DEF Surround, Undisturbed, Clean, Between, directory, snapshots
<1>9. ASSUME NEW a \in Analyzer, End(a)
      PROVE  Surround'
  <2>1. /\ status[a] = "running"
        /\ UNCHANGED <<directory, snapshots, progress, corpus, from>>
    BY <1>9 DEF End
  <2>2. progress = "analyzers"
    BY <2>1 DEF Types, ScanTypeOK, IInv, Unspawned, Ended
  <2>3. \A b \in Analyzer : observed'[b] \in {Nothing, observed[b]}
    BY <1>9 DEF End, IInv
  <2>4. \A t : \A b \in Analyzer : Between(observed[b], t) => Between(observed'[b], t)
    BY <2>3 DEF Between, Nothing
  <2> QED
    BY <2>1, <2>2, <2>4 DEF Surround, Undisturbed, Clean, Between, directory, snapshots
<1>10. CASE Change
  <2>1. /\ changes' = changes + 1 /\ progress # "done" /\ changes \in Nat
        /\ UNCHANGED <<snapshots, analysis, progress>>
    BY <1>10 DEF Change, Types
  <2>2. SUFFICES ASSUME changes' <= 1
                 PROVE  Surround'
    BY DEF Surround
  <2>3. changes = 0 /\ changes' = 1 /\ \A t \in before : worktree = t
    BY <2>1, <2>2 DEF Surround
  <2>4. ASSUME NEW v, NEW t \in before, Between(v, t)
        PROVE  \A f \in DOMAIN v : v[f] \in {t[f], worktree'[f], Found}
    BY <2>3, <2>4 DEF Between
  <2>5. progress = "after" => \A t \in before : Faithful(t)
    BY <2>3 DEF Surround
  <2>6. progress \in {"corpus", "analyzers"} =>
          \A t \in before : /\ Between(corpus, t)
                            /\ \A a \in Analyzer : Between(observed[a], t)
    BY <2>3 DEF Surround
  <2> QED
    BY <2>1, <2>3, <2>4, <2>5, <2>6 DEF Surround, Between, Faithful, snapshots, analysis
<1>11. CASE UNCHANGED scanVars
  BY <1>11 DEF scanVars, Surround, Undisturbed, Clean, Between, Faithful
<1> QED
  BY <1>1, <1>2, <1>3, <1>4, <1>5, <1>6, <1>7, <1>8, <1>9, <1>10, <1>11 DEF ScanNext, Scan

(* A profile pinned to a commit is of that commit unless the directory     *)
(* changed at least twice during the scan: whatever the files, the         *)
(* analyzers and the moment, the two snapshots surround what was read      *)
(* (scan_frontier, artifact_identity).                                     *)
THEOREM NoChangeEscapes == ScanSpec => []SnapshotsSurround
<1> DEFINE Strong == IInv /\ Types /\ Surround
<1>1. ScanInit => Strong
  BY InitIInv, InitTypes, InitSurround
<1>2. Strong /\ [ScanNext]_scanVars => Strong'
  BY NextIInv, NextTypes, NextSurround
<1>3. Strong => SnapshotsSurround
  <2> SUFFICES ASSUME Strong, Misread, changes <= 1
               PROVE  FALSE
    BY DEF SnapshotsSurround, OneChangeIsSeen, Types
  <2>1. PICK t \in pinnedTo, a \in Analyzer : status[a] = "Complete" /\ observed[a] # t
    BY DEF Misread
  <2>2. progress = "done"
    BY <2>1 DEF Types
  <2> QED
    BY <2>1, <2>2 DEF Surround, Faithful
<1> QED
  BY <1>1, <1>2, <1>3, PTL DEF ScanSpec

-----------------------------------------------------------------------------
(* The comparison of profiles and of probes                                *)

Intervals ==
  {i \in {Interval(lower, upper) : lower \in Nat, upper \in {{}} \cup {{u} : u \in Nat}} :
     \A u \in i.upper : i.lower <= u}

(* The numbers an interval stands for.                                      *)
ValuesOf(i) == {v \in Nat : i.lower <= v /\ \A u \in i.upper : v <= u}

LEMMA MaxOfTwo ==
  ASSUME NEW a \in Int, NEW b \in Int
  PROVE  Max({a, b}) = IF a < b THEN b ELSE a
<1>1. Max({a, b}) \in {a, b} /\ \A y \in {a, b} : Max({a, b}) >= y
  <2>1. \E x \in {a, b} : \A y \in {a, b} : x >= y
    OBVIOUS
  <2> QED
    BY <2>1 DEF Max
<1> QED
  BY <1>1

LEMMA EqualInOrder ==
  ASSUME NEW x \in Nat, NEW y \in Nat, x <= y
  PROVE  /\ ApproximatelyEqual(x, y) <=> Scale * (y - x) <= Absolute + Relative * y
         /\ ApproximatelyEqual(y, x) <=> Scale * (y - x) <= Absolute + Relative * y
<1>1. Abs(x - y) = y - x /\ Abs(y - x) = y - x /\ Abs(x) = x /\ Abs(y) = y
  BY DEF Abs
<1>2. Max({x, y}) = y /\ Max({y, x}) = y
  BY MaxOfTwo
<1> QED
  BY <1>1, <1>2 DEF ApproximatelyEqual

LEMMA EqualsItself ==
  ASSUME NEW x \in Nat
  PROVE  ApproximatelyEqual(x, x)
<1>1. Scale \in Nat /\ Absolute \in Nat /\ Relative \in Nat
  BY ToleranceAssumption
<1>2. Scale * (x - x) = 0 /\ Relative * x >= 0
  BY <1>1
<1> QED
  BY <1>1, <1>2, EqualInOrder

(* Numbers that are the same stay so when they move towards each other.     *)
LEMMA Narrowing ==
  ASSUME NEW x \in Nat, NEW y \in Nat, NEW u \in Nat, NEW v \in Nat,
         x <= u, u <= v, v <= y, ApproximatelyEqual(x, y)
  PROVE  ApproximatelyEqual(u, v) /\ ApproximatelyEqual(v, u)
<1>1. Scale \in Nat /\ Absolute \in Nat /\ Relative \in Nat /\ Relative < Scale
  BY ToleranceAssumption
<1>2. Scale * (y - x) <= Absolute + Relative * y
  BY EqualInOrder
<1>3. /\ Scale * (y - x) = Scale * (u - x) + Scale * (v - u) + Scale * (y - v)
      /\ Relative * y = Relative * v + Relative * (y - v)
  BY <1>1
<1>4. Scale * (u - x) >= 0
  BY <1>1
<1>5. Relative * (y - v) <= Scale * (y - v)
  <2>1. Scale * (y - v) = Relative * (y - v) + (Scale - Relative) * (y - v)
    BY <1>1
  <2>2. (Scale - Relative) * (y - v) >= 0
    BY <1>1
  <2> QED
    BY <1>1, <2>1, <2>2
<1>6. Scale * (v - u) <= Absolute + Relative * v
  <2> DEFINE a == Scale * (u - x)
             b == Scale * (v - u)
             c == Scale * (y - v)
             d == Relative * v
             e == Relative * (y - v)
  <2>1. a \in Int /\ b \in Int /\ c \in Int /\ d \in Int /\ e \in Int
    BY <1>1
  <2>2. a + b + c <= Absolute + (d + e) /\ a >= 0 /\ e <= c
    BY <1>2, <1>3, <1>4, <1>5
  <2> HIDE DEF a, b, c, d, e
  <2>3. b <= Absolute + d
    BY <1>1, <2>1, <2>2
  <2> QED
    BY <2>3 DEF b, d
<1> QED
  BY <1>6, EqualInOrder

(* However wide the tolerance, a number far enough away is another one.     *)
LEMMA FarApart ==
  ASSUME NEW x \in Nat
  PROVE  \E y \in Nat : x < y /\ ~ApproximatelyEqual(x, y) /\ ~ApproximatelyEqual(y, x)
<1>1. Scale \in Nat /\ Absolute \in Nat /\ Relative \in Nat /\ Relative + 1 <= Scale
  BY ToleranceAssumption
<1> DEFINE y == Absolute + Scale * x + x + 1
<1>2. Scale * x \in Nat
  BY <1>1
<1>3. y \in Nat /\ x < y /\ y > Absolute + Scale * x
  BY <1>1, <1>2
<1> HIDE DEF y
<1>4. Scale * (y - x) = Relative * y + (Scale - Relative) * y - Scale * x
  BY <1>1, <1>3
<1>5. (Scale - Relative) * y >= y
  <2>1. (Scale - Relative) * y = y + (Scale - Relative - 1) * y
    BY <1>1, <1>3
  <2>2. (Scale - Relative - 1) * y >= 0
    BY <1>1, <1>3
  <2> QED
    BY <1>1, <1>3, <2>1, <2>2
<1>6. Scale * (y - x) > Absolute + Relative * y
  <2> DEFINE a == (Scale - Relative) * y
             b == Scale * x
             c == Relative * y
  <2>1. a \in Int /\ b \in Int /\ c \in Int
    BY <1>1, <1>3
  <2>2. Scale * (y - x) = c + a - b /\ a >= y /\ y > Absolute + b
    BY <1>3, <1>4, <1>5
  <2> HIDE DEF a, b, c
  <2>3. c + a - b > Absolute + c
    BY <1>1, <1>3, <2>1, <2>2
  <2> QED
    BY <2>2, <2>3 DEF c
<1>7. ~ApproximatelyEqual(x, y) /\ ~ApproximatelyEqual(y, x)
  <2>1. Scale * (y - x) \in Int /\ Absolute + Relative * y \in Int
    BY <1>1, <1>3
  <2> QED
    BY <1>3, <1>6, <2>1, EqualInOrder
<1> QED
  BY <1>3, <1>7

LEMMA IntervalCases ==
  ASSUME NEW i \in Intervals
  PROVE  /\ i.lower \in Nat
         /\ i.upper = {} \/ \E u \in Nat : i.upper = {u} /\ i.lower <= u
         /\ i.lower \in ValuesOf(i)
         /\ \A u \in i.upper : u \in ValuesOf(i)
         /\ \A v \in ValuesOf(i) : v \in Nat /\ i.lower <= v /\ \A u \in i.upper : v <= u
<1>1. PICK lower \in Nat, upper \in {{}} \cup {{u} : u \in Nat} :
        i = Interval(lower, upper) /\ \A u \in i.upper : i.lower <= u
  BY DEF Intervals
<1>2. i.lower = lower /\ i.upper = upper
  BY <1>1 DEF Interval
<1> QED
  BY <1>1, <1>2 DEF ValuesOf

(* One interval may lie below the other, and not be the same, exactly when  *)
(* a value of the one is less than a value of the other and not the same.   *)
LEMMA StrictlyLess ==
  ASSUME NEW l \in Intervals, NEW r \in Intervals
  PROVE  StrictLessPossible(l.lower, r.upper) <=>
           \E x \in ValuesOf(l), y \in ValuesOf(r) : x < y /\ ~ApproximatelyEqual(x, y)
<1>0. l.lower \in Nat /\ l.lower \in ValuesOf(l)
  BY IntervalCases
<1>1. CASE r.upper = {}
  <2>1. StrictLessPossible(l.lower, r.upper)
    BY <1>1 DEF StrictLessPossible
  <2>2. PICK far \in Nat : l.lower < far /\ ~ApproximatelyEqual(l.lower, far)
    BY <1>0, FarApart
  <2>3. CASE r.lower <= far
    BY <1>0, <1>1, <2>1, <2>2, <2>3 DEF ValuesOf
  <2>4. CASE far < r.lower
    <3>1. r.lower \in ValuesOf(r) /\ r.lower \in Nat
      BY IntervalCases
    <3>2. l.lower < r.lower /\ ~ApproximatelyEqual(l.lower, r.lower)
      BY <1>0, <2>2, <2>4, <3>1, Narrowing
    <3> QED
      BY <1>0, <2>1, <3>1, <3>2
  <2>5. r.lower \in Nat
    BY IntervalCases
  <2> QED
    BY <2>2, <2>3, <2>4, <2>5
<1>2. ASSUME NEW u \in Nat, r.upper = {u}, r.lower <= u
      PROVE  StrictLessPossible(l.lower, r.upper) <=>
               \E x \in ValuesOf(l), y \in ValuesOf(r) : x < y /\ ~ApproximatelyEqual(x, y)
  <2>1. StrictLessPossible(l.lower, r.upper)
          <=> l.lower < u /\ ~ApproximatelyEqual(l.lower, u)
    BY <1>2 DEF StrictLessPossible
  <2>2. u \in ValuesOf(r)
    BY <1>2, IntervalCases
  <2>3. ASSUME NEW x \in ValuesOf(l), NEW y \in ValuesOf(r), x < y, ~ApproximatelyEqual(x, y)
        PROVE  l.lower < u /\ ~ApproximatelyEqual(l.lower, u)
    <3>1. x \in Nat /\ y \in Nat /\ l.lower <= x /\ y <= u
      BY <1>2, <2>3, IntervalCases
    <3> QED
      BY <1>0, <1>2, <2>3, <3>1, Narrowing
  <2> QED
    BY <1>0, <2>1, <2>2, <2>3
<1> QED
  BY <1>1, <1>2, IntervalCases

(* Two intervals may be the same exactly when two of their values are.      *)
LEMMA PossiblySame ==
  ASSUME NEW l \in Intervals, NEW r \in Intervals
  PROVE  EquivalentPossible(l, r) <=>
           \E x \in ValuesOf(l), y \in ValuesOf(r) : ApproximatelyEqual(x, y)
<1>1. \A x \in Nat : ApproximatelyEqual(x, x)
  BY EqualsItself
<1>2. ASSUME EquivalentPossible(l, r)
      PROVE  \E x \in ValuesOf(l), y \in ValuesOf(r) : ApproximatelyEqual(x, y)
  <2>1. CASE Overlaps(l, r) /\ l.lower <= r.lower
    <3>1. r.lower \in ValuesOf(l)
      BY <2>1, IntervalCases DEF Overlaps, ValuesOf
    <3> QED
      BY <1>1, <3>1, IntervalCases
  <2>2. CASE Overlaps(l, r) /\ r.lower <= l.lower
    <3>1. l.lower \in ValuesOf(r)
      BY <2>2, IntervalCases DEF Overlaps, ValuesOf
    <3> QED
      BY <1>1, <3>1, IntervalCases
  <2>3. CASE \E u \in l.upper : u < r.lower /\ ApproximatelyEqual(u, r.lower)
    BY <2>3, IntervalCases
  <2>4. CASE \E u \in r.upper : u < l.lower /\ ApproximatelyEqual(u, l.lower)
    <3>1. PICK u \in r.upper : u < l.lower /\ ApproximatelyEqual(u, l.lower)
      BY <2>4
    <3>2. u \in Nat /\ l.lower \in Nat /\ u \in ValuesOf(r) /\ l.lower \in ValuesOf(l)
      BY <3>1, IntervalCases
    <3>3. ApproximatelyEqual(l.lower, u)
      BY <3>1, <3>2, EqualInOrder
    <3> QED
      BY <3>2, <3>3
  <2> QED
    BY <1>2, <2>1, <2>2, <2>3, <2>4, IntervalCases DEF EquivalentPossible
<1>3. ASSUME NEW x \in ValuesOf(l), NEW y \in ValuesOf(r), ApproximatelyEqual(x, y)
      PROVE  EquivalentPossible(l, r)
  <2>1. SUFFICES ASSUME ~Overlaps(l, r)
                 PROVE  EquivalentPossible(l, r)
    BY DEF EquivalentPossible
  <2>2. /\ x \in Nat /\ y \in Nat /\ l.lower \in Nat /\ r.lower \in Nat
        /\ l.lower <= x /\ r.lower <= y
    BY IntervalCases
  <2>3. ASSUME NEW u \in l.upper, u < r.lower
        PROVE  EquivalentPossible(l, r)
    <3>1. u \in Nat /\ x <= u
      BY IntervalCases
    <3>2. ApproximatelyEqual(u, r.lower)
      BY <1>3, <2>2, <2>3, <3>1, Narrowing
    <3> QED
      BY <2>3, <3>2 DEF EquivalentPossible
  <2>4. ASSUME NEW u \in r.upper, u < l.lower
        PROVE  EquivalentPossible(l, r)
    <3>1. u \in Nat /\ y <= u
      BY IntervalCases
    <3>2. ApproximatelyEqual(y, x)
      BY <1>3, <2>2, <2>4, <3>1, EqualInOrder
    <3>3. ApproximatelyEqual(u, l.lower)
      BY <2>2, <2>4, <3>1, <3>2, Narrowing
    <3> QED
      BY <2>4, <3>3 DEF EquivalentPossible
  <2>5. (\E u \in l.upper : u < r.lower) \/ (\E u \in r.upper : u < l.lower)
    BY <2>1, <2>2, IntervalCases DEF Overlaps
  <2> QED
    BY <2>3, <2>4, <2>5
<1> QED
  BY <1>2, <1>3

(* For every tolerance and every two intervals, open above or not, of       *)
(* either polarity: an outcome is called possible exactly when some values  *)
(* inside the intervals, compared as plain observations are, have it        *)
(* (local_possible_outcomes against compare_signal).                        *)
THEOREM LocalOutcomesSharp ==
  ASSUME NEW l \in Intervals, NEW r \in Intervals, NEW polarity
  PROVE  LocalPossibleOutcomes(l, r, polarity)
           = {OutcomeOf(x, y, polarity) : x \in ValuesOf(l), y \in ValuesOf(r)}
<1> DEFINE Attained(outcome) ==
             \E x \in ValuesOf(l), y \in ValuesOf(r) : OutcomeOf(x, y, polarity) = outcome
<1>1. \A x \in ValuesOf(l) : x \in Nat
  BY IntervalCases
<1>2. \A y \in ValuesOf(r) : y \in Nat
  BY IntervalCases
<1>3. EquivalentPossible(l, r) <=> Attained("Equivalent")
  BY PossiblySame DEF OutcomeOf
<1>4. \A x, y \in Nat : ApproximatelyEqual(x, y) <=> ApproximatelyEqual(y, x)
  BY EqualInOrder
<1>5. \A x, y \in Nat : x = y => ApproximatelyEqual(x, y)
  BY EqualsItself
<1>6. StrictLessPossible(l.lower, r.upper)
        <=> \E x \in ValuesOf(l), y \in ValuesOf(r) : x < y /\ ~ApproximatelyEqual(x, y)
  BY StrictlyLess
<1>7. StrictLessPossible(r.lower, l.upper)
        <=> \E x \in ValuesOf(l), y \in ValuesOf(r) : y < x /\ ~ApproximatelyEqual(x, y)
  BY <1>1, <1>2, <1>4, StrictlyLess
<1>8. CASE polarity = "lower"
  <2>1. StrictLessPossible(r.lower, l.upper) <=> Attained("RightBetter")
    BY <1>1, <1>2, <1>5, <1>7, <1>8 DEF OutcomeOf
  <2>2. StrictLessPossible(l.lower, r.upper) <=> Attained("LeftBetter")
    BY <1>1, <1>2, <1>5, <1>6, <1>8 DEF OutcomeOf
  <2> QED
    BY <1>3, <1>8, <2>1, <2>2 DEF LocalPossibleOutcomes, OutcomeOf
<1>9. CASE polarity # "lower"
  <2>1. StrictLessPossible(l.lower, r.upper) <=> Attained("RightBetter")
    BY <1>1, <1>2, <1>5, <1>6, <1>9 DEF OutcomeOf
  <2>2. StrictLessPossible(r.lower, l.upper) <=> Attained("LeftBetter")
    BY <1>1, <1>2, <1>5, <1>7, <1>9 DEF OutcomeOf
  <2> QED
    BY <1>3, <1>9, <2>1, <2>2 DEF LocalPossibleOutcomes, OutcomeOf
<1> QED
  BY <1>8, <1>9

-----------------------------------------------------------------------------
(* Dominance is a strict partial order, whatever the worlds, the outcomes   *)
(* and the costs: that is why a probe that nothing dominates stands behind  *)
(* every dominated one.                                                     *)

LEMMA PartitionIsDisjoint ==
  ASSUME NEW observations, NEW b \in Partition(observations), NEW c \in Partition(observations)
  PROVE  b # {} /\ (b \cap c # {} => b = c)
<1>1. PICK x \in Range(observations) :
        b = {w \in DOMAIN observations : observations[w] = x}
  BY DEF Partition
<1>2. PICK y \in Range(observations) :
        c = {w \in DOMAIN observations : observations[w] = y}
  BY DEF Partition
<1> QED
  BY <1>1, <1>2 DEF Range

LEMMA RefinesBothWays ==
  ASSUME NEW f, NEW g, Refines(Partition(f), Partition(g)), Refines(Partition(g), Partition(f))
  PROVE  Partition(f) = Partition(g)
<1>1. ASSUME NEW h, NEW k, Refines(Partition(h), Partition(k)), Refines(Partition(k), Partition(h)),
             NEW b \in Partition(h)
      PROVE  b \in Partition(k)
  <2>1. PICK c \in Partition(k) : b \subseteq c
    BY <1>1 DEF Refines
  <2>2. PICK d \in Partition(h) : c \subseteq d
    BY <1>1 DEF Refines
  <2>3. b # {} /\ (b \cap d # {} => b = d)
    BY PartitionIsDisjoint
  <2> QED
    BY <2>1, <2>2, <2>3
<1> QED
  BY <1>1

(* A probe as the analysis sees it, of a model with a prior or without.     *)
IsReport(q, known) ==
  /\ \E f : q.partition = Partition(f)
  /\ q.cost \in [1..3 -> Int] /\ q.worst \in Int
  /\ IF known THEN \E e \in Int : q.expected = {e} ELSE q.expected = {}

LEMMA CostsChain ==
  ASSUME NEW a \in [1..3 -> Int], NEW b \in [1..3 -> Int], NEW c \in [1..3 -> Int],
         Leq(a, b), Leq(b, c)
  PROVE  /\ Leq(a, c)
         /\ StrictlyCheaperSomewhere(a, b) \/ StrictlyCheaperSomewhere(b, c)
              => StrictlyCheaperSomewhere(a, c)
<1>1. \A k \in 1..3 : /\ a[k] \in Int /\ b[k] \in Int /\ c[k] \in Int
                      /\ a[k] <= b[k] /\ b[k] <= c[k]
  BY DEF Leq
<1> QED
  BY <1>1 DEF Leq, StrictlyCheaperSomewhere

(* No probe dominates itself, and dominance goes through: with the finitely *)
(* many probes of a model, reading only a frontier loses nothing            *)
(* (blackwell_dominates, order_dominates).                                  *)
THEOREM DominanceIsStrictOrder ==
  ASSUME NEW known, NEW q, NEW p, NEW s,
         IsReport(q, known), IsReport(p, known), IsReport(s, known)
  PROVE  /\ ~BlackwellDominates(q, q) /\ ~OrderDominates(q, q)
         /\ BlackwellDominates(q, p) /\ BlackwellDominates(p, s) => BlackwellDominates(q, s)
         /\ OrderDominates(q, p) /\ OrderDominates(p, s) => OrderDominates(q, s)
<1>1. /\ q.cost \in [1..3 -> Int] /\ p.cost \in [1..3 -> Int] /\ s.cost \in [1..3 -> Int]
      /\ q.worst \in Int /\ p.worst \in Int /\ s.worst \in Int
  BY DEF IsReport
<1>2. ~StrictlyCheaperSomewhere(q.cost, q.cost)
  BY <1>1 DEF StrictlyCheaperSomewhere
<1>3. ~BlackwellDominates(q, q)
  BY <1>2 DEF BlackwellDominates
<1>4. ~OrderDominates(q, q)
  <2>1. \A e, f \in q.expected : ~(e < f)
    BY DEF IsReport
  <2> QED
    BY <1>1, <1>2, <2>1 DEF OrderDominates
<1>5. ASSUME BlackwellDominates(q, p), BlackwellDominates(p, s)
      PROVE  BlackwellDominates(q, s)
  <2>1. /\ Refines(q.partition, p.partition) /\ Refines(p.partition, s.partition)
        /\ Leq(q.cost, p.cost) /\ Leq(p.cost, s.cost)
    BY <1>5 DEF BlackwellDominates
  <2>2. Refines(q.partition, s.partition)
    BY <2>1 DEF Refines
  <2>3. q.partition = s.partition => q.partition = p.partition
    BY <2>1, RefinesBothWays DEF IsReport
  <2>4. Leq(q.cost, s.cost)
    BY <1>1, <2>1, CostsChain
  <2>5. q.partition = s.partition => StrictlyCheaperSomewhere(q.cost, s.cost)
    BY <1>1, <1>5, <2>1, <2>3, CostsChain DEF BlackwellDominates
  <2> QED
    BY <2>2, <2>4, <2>5 DEF BlackwellDominates
<1>6. ASSUME OrderDominates(q, p), OrderDominates(p, s)
      PROVE  OrderDominates(q, s)
  <2>1. /\ q.worst <= p.worst /\ p.worst <= s.worst
        /\ Leq(q.cost, p.cost) /\ Leq(p.cost, s.cost)
    BY <1>6 DEF OrderDominates
  <2>2. /\ Leq(q.cost, s.cost)
        /\ StrictlyCheaperSomewhere(q.cost, p.cost) \/ StrictlyCheaperSomewhere(p.cost, s.cost)
             => StrictlyCheaperSomewhere(q.cost, s.cost)
    BY <1>1, <2>1, CostsChain
  <2>3. CASE known
    <3>1. PICK a \in Int, b \in Int, c \in Int :
            q.expected = {a} /\ p.expected = {b} /\ s.expected = {c}
      BY <2>3 DEF IsReport
    <3>2. a <= b /\ b <= c
      BY <1>6, <3>1 DEF OrderDominates
    <3> QED
      BY <1>1, <1>6, <2>1, <2>2, <3>1, <3>2 DEF OrderDominates
  <2>4. CASE ~known
    BY <1>1, <1>6, <2>1, <2>2, <2>4 DEF OrderDominates, IsReport
  <2> QED
    BY <2>3, <2>4
<1> QED
  BY <1>3, <1>4, <1>5, <1>6

-----------------------------------------------------------------------------
(* The comparison of probes                                                 *)

(* Min of numbers is the least of them.                                     *)
LEMMA LeastIsIn ==
  ASSUME NEW S \in SUBSET Nat, S # {}
  PROVE  Min(S) \in S /\ \A x \in S : Min(S) <= x
  BY LeastNat DEF Min

(* Max of finitely many integers is the greatest of them.                   *)
LEMMA GreatestIsIn ==
  ASSUME NEW S, IsFiniteSet(S), S # {}, S \subseteq Int
  PROVE  Max(S) \in S /\ \A x \in S : Max(S) >= x
  BY GreatestInt DEF Max

(* A list of complaints of which none holds.                                *)
LEMMA NoComplaint ==
  ASSUME NEW cs, NEW n \in Nat, Len(cs) = n,
         \A i \in 1..n : cs[i][1] => cs[i][2] # "ok",
         FirstOf(cs) = "ok"
  PROVE  \A i \in 1..n : ~cs[i][1]
<1> DEFINE I == {i \in 1..Len(cs) : cs[i][1]}
<1>1. SelectInSeq(cs, LAMBDA c : c[1]) = IF I # {} THEN Min(I) ELSE 0
  BY DEF SelectInSeq
<1>2. I \in SUBSET Nat
  OBVIOUS
<1> DEFINE i == Min(I)
<1>3. I # {} => i \in I
  <2> HIDE DEF I
  <2> QED
    BY <1>2, LeastIsIn
<1>4. I # {} => FirstOf(cs) = cs[i][2]
  <2>1. I # {} => i \in 1..n
    BY <1>3
  <2> HIDE DEF I
  <2>2. i # 0 => FirstOf(cs) = cs[i][2] \/ I = {}
    <3> HIDE DEF i
    <3> QED
      BY <1>1 DEF FirstOf, i
  <2> QED
    BY <2>1, <2>2
<1>5. I = {}
  <2> HIDE DEF i
  <2> QED
    BY <1>3, <1>4
<1> QED
  BY <1>5

(* The same of two complaints, and of four.                                 *)
LEMMA NoneOfTwo ==
  ASSUME NEW a \in BOOLEAN, NEW b \in BOOLEAN, NEW x, NEW y, x # "ok", y # "ok",
         FirstOf(<< <<a, x>>, <<b, y>> >>) = "ok"
  PROVE  ~a /\ ~b
<1> DEFINE cs == << <<a, x>>, <<b, y>> >>
<1>1. /\ Len(cs) = 2 /\ cs[1][1] = a /\ cs[2][1] = b
      /\ \A i \in 1..2 : cs[i][2] # "ok"
  OBVIOUS
<1> HIDE DEF cs
<1>2. \A i \in 1..2 : ~cs[i][1]
  BY <1>1, NoComplaint DEF cs
<1>3. ~cs[1][1] /\ ~cs[2][1]
  BY <1>2
<1> QED
  BY <1>1, <1>3

LEMMA NoneOfFour ==
  ASSUME NEW a \in BOOLEAN, NEW b \in BOOLEAN, NEW c \in BOOLEAN, NEW d \in BOOLEAN,
         NEW x, NEW y, NEW z, NEW w, x # "ok", y # "ok", z # "ok", w # "ok",
         FirstOf(<< <<a, x>>, <<b, y>>, <<c, z>>, <<d, w>> >>) = "ok"
  PROVE  ~a /\ ~b /\ ~c /\ ~d
<1> DEFINE cs == << <<a, x>>, <<b, y>>, <<c, z>>, <<d, w>> >>
<1>1. /\ Len(cs) = 4 /\ cs[1][1] = a /\ cs[2][1] = b /\ cs[3][1] = c /\ cs[4][1] = d
      /\ \A i \in 1..4 : cs[i][2] # "ok"
  OBVIOUS
<1> HIDE DEF cs
<1>2. \A i \in 1..4 : ~cs[i][1]
  BY <1>1, NoComplaint DEF cs
<1>3. ~cs[1][1] /\ ~cs[2][1] /\ ~cs[3][1] /\ ~cs[4][1]
  BY <1>2
<1> QED
  BY <1>1, <1>3

(* What a model that is accepted has: worlds, finitely many ...             *)
LEMMA ValidWorlds ==
  ASSUME NEW m, IsModel(m), ModelError(m) = "ok"
  PROVE  /\ IsFiniteSet(NamesOf(m)) /\ NamesOf(m) # {} /\ NamesOf(m) \subseteq Nat
<1>1. m.worlds \in Seq([name : Nat, order : PossibleOrders])
  BY DEF IsModel
<1> DEFINE D == DOMAIN m.worlds
           f == [i \in D |-> m.worlds[i].name]
<1>2. NamesOf(m) = {f[i] : i \in D}
  BY DEF NamesOf, Range
<1>3. IsFiniteSet(D) /\ \A i \in D : m.worlds[i].name \in Nat
  <2>1. Len(m.worlds) \in Nat /\ D = 1..Len(m.worlds)
    BY <1>1, LenProperties
  <2>2. \A i \in D : m.worlds[i] \in [name : Nat, order : PossibleOrders]
    BY <1>1, <2>1, ElementOfSeq
  <2>3. \A i \in D : m.worlds[i].name \in Nat
    BY <2>2
  <2>4. IsFiniteSet(D)
    BY <2>1, FS_Interval
  <2> QED
    BY <2>3, <2>4
<1>4. IsFiniteSet(NamesOf(m))
  <2> HIDE DEF f, D
  <2> QED
    BY <1>2, <1>3, FiniteImage
<1>5. m.worlds # <<>>
  <2> DEFINE a == m.worlds = <<>>
             b == Cardinality(NamesOf(m)) < Len(m.worlds)
  <2>1. FirstOf(<< <<a, "EmptyWorlds">>, <<b, "DuplicateWorld">> >>) = "ok"
    BY DEF ModelError, ValidateWorlds
  <2>2. a \in BOOLEAN /\ b \in BOOLEAN
    OBVIOUS
  <2> HIDE DEF a, b
  <2>3. ~a
    BY <2>1, <2>2, NoneOfTwo
  <2> QED
    BY <2>3 DEF a
<1>6. D # {}
  <2>1. Len(m.worlds) \in Nat \ {0} /\ D = 1..Len(m.worlds)
    BY <1>1, <1>5, LenProperties, EmptySeq
  <2>2. 1 \in D
    BY <2>1
  <2> QED
    BY <2>2
<1> QED
  BY <1>2, <1>3, <1>4, <1>6

(* ... a mass that is no less than 0 for each of them, if any ...           *)
LEMMA ValidPriors ==
  ASSUME NEW m, IsModel(m), ModelError(m) = "ok", NEW prior \in m.priors
  PROVE  /\ m.priors = {prior} /\ DOMAIN prior = NamesOf(m)
         /\ \A n \in NamesOf(m) : prior[n] \in Nat
<1>1. m.priors = {prior} /\ prior \in [DOMAIN prior -> Int]
  BY DEF IsModel
<1>2. ValidatePriors(m) = "ok"
  BY DEF ModelError
<1> DEFINE a == DOMAIN prior \ NamesOf(m) # {}
           b == NamesOf(m) \ DOMAIN prior # {}
           c == \E n \in DOMAIN prior : prior[n] < 0
           d == \A n \in DOMAIN prior : prior[n] = 0
<1>3. FirstOf(<< <<a, "UnknownPriorWorld">>, <<b, "PartialPriors">>, <<c, "InvalidPrior">>,
                 <<d, "ZeroPriorMass">> >>) = "ok"
  <2>1. (CHOOSE f \in m.priors : TRUE) = prior /\ m.priors # {}
    BY <1>1
  <2> QED
    BY <1>2, <2>1 DEF ValidatePriors
<1>4. a \in BOOLEAN /\ b \in BOOLEAN /\ c \in BOOLEAN /\ d \in BOOLEAN
  OBVIOUS
<1>5. ~a /\ ~b /\ ~c
  <2> HIDE DEF a, b, c, d
  <2> QED
    BY <1>3, <1>4, NoneOfFour
<1>6. DOMAIN prior = NamesOf(m)
  BY <1>5
<1>7. \A n \in NamesOf(m) : prior[n] \in Int /\ ~(prior[n] < 0)
  BY <1>1, <1>5, <1>6
<1> QED
  BY <1>1, <1>6, <1>7

(* ... and an outcome of each probe in each of them (validate_model).       *)
LEMMA ValidProbes ==
  ASSUME NEW m, IsModel(m), ModelError(m) = "ok", NEW i \in DOMAIN m.probes
  PROVE  DOMAIN m.probes[i].observations = NamesOf(m)
<1>1. Len(m.probes) \in Nat /\ DOMAIN m.probes = 1..Len(m.probes)
  BY DEF IsModel
<1> DEFINE n == Len(m.probes)
           Fails(j) == ValidateProbe(m, j) # "ok"
           all == [j \in 1..n |-> <<Fails(j), ValidateProbe(m, j)>>]
<1>2. FirstOf(all) = "ok"
  BY DEF ModelError, ValidateProbes
<1>3. Len(all) = n
  BY <1>1
<1>4. \A j \in 1..n : Fails(j) \in BOOLEAN
  OBVIOUS
<1>5. \A j \in 1..n : all[j][2] = ValidateProbe(m, j)
  OBVIOUS
<1>6. \A j \in 1..n : all[j][1] <=> Fails(j)
  <2> HIDE DEF Fails
  <2> QED
    BY <1>4
<1>7. ValidateProbe(m, i) = "ok"
  <2> HIDE DEF all
  <2> QED
    BY <1>1, <1>2, <1>3, <1>5, <1>6, NoComplaint
<1> DEFINE p == m.probes[i]
           a == \E j \in 1..(i - 1) : m.probes[j].name = p.name
           b == \E k \in 1..3 : p.cost[k] < 0
           c == DOMAIN p.observations \ NamesOf(m) # {}
           d == NamesOf(m) \ DOMAIN p.observations # {}
<1>8. FirstOf(<< <<a, "DuplicateProbe">>, <<b, "InvalidCost">>, <<c, "UnknownObservedWorld">>,
                 <<d, "IncompleteObservations">> >>) = "ok"
  BY <1>7 DEF ValidateProbe
<1>9. a \in BOOLEAN /\ b \in BOOLEAN /\ c \in BOOLEAN /\ d \in BOOLEAN
  OBVIOUS
<1>10. ~c /\ ~d
  <2> HIDE DEF a, b, c, d
  <2> QED
    BY <1>8, <1>9, NoneOfFour
<1> QED
  BY <1>10

-----------------------------------------------------------------------------
(* What a probe tells, and what is left open after it (frontier_probes).    *)

(* A partition is finite, and its blocks are disjoint parts of the whole.   *)
LEMMA PartitionParts ==
  ASSUME NEW f, IsFiniteSet(DOMAIN f)
  PROVE  /\ IsFiniteSet(Partition(f)) /\ UNION Partition(f) = DOMAIN f
         /\ \A b \in Partition(f) : b # {} /\ IsFiniteSet(b) /\ b \subseteq DOMAIN f
         /\ \A b, c \in Partition(f) : b # c => b \cap c = {}
<1>1. Partition(f) \subseteq SUBSET DOMAIN f
  BY DEF Partition
<1>2. IsFiniteSet(SUBSET DOMAIN f)
  BY FS_SUBSET
<1>3. IsFiniteSet(Partition(f))
  BY <1>1, <1>2, FS_Subset
<1>4. UNION Partition(f) = DOMAIN f
  BY DEF Partition, Range
<1>5. \A b \in Partition(f) : IsFiniteSet(b) /\ b \subseteq DOMAIN f
  BY <1>1, FS_Subset
<1> QED
  BY <1>3, <1>4, <1>5, PartitionIsDisjoint

(* Fewer worlds induce no more orders.                                      *)
LEMMA OrdersAreFinite ==
  ASSUME NEW m, NEW b, IsFiniteSet(b)
  PROVE  /\ IsFiniteSet(OrdersIn(m, b)) /\ Cardinality(OrdersIn(m, b)) \in Nat
         /\ \A a \in SUBSET b : /\ IsFiniteSet(OrdersIn(m, a))
                                /\ Cardinality(OrdersIn(m, a)) \in Nat
                                /\ Cardinality(OrdersIn(m, a)) <= Cardinality(OrdersIn(m, b))
<1> DEFINE f == OrdersOf(m)
<1>1. OrdersIn(m, b) = {f[w] : w \in b}
  BY DEF OrdersIn
<1>2. \A a \in SUBSET b : OrdersIn(m, a) \subseteq OrdersIn(m, b)
  BY DEF OrdersIn
<1> HIDE DEF f
<1>3. IsFiniteSet(OrdersIn(m, b))
  BY <1>1, FiniteImage
<1>4. \A a \in SUBSET b : /\ IsFiniteSet(OrdersIn(m, a))
                          /\ Cardinality(OrdersIn(m, a)) <= Cardinality(OrdersIn(m, b))
  BY <1>2, <1>3, FS_Subset
<1> QED
  BY <1>3, <1>4, FS_CardinalityType

(* The worst case is that of some block, and of no larger one               *)
(* (worst_case_remaining_orders).                                           *)
LEMMA WorstIsGreatest ==
  ASSUME NEW m, NEW f, IsFiniteSet(DOMAIN f), DOMAIN f # {}
  PROVE  LET worst == WorstCaseRemainingOrders(m, Partition(f))
         IN  /\ worst \in Nat
             /\ \E b \in Partition(f) : worst = Cardinality(OrdersIn(m, b))
             /\ \A b \in Partition(f) : worst >= Cardinality(OrdersIn(m, b))
<1> DEFINE P == Partition(f)
           size == [b \in P |-> Cardinality(OrdersIn(m, b))]
           S == {size[b] : b \in P}
<1>1. IsFiniteSet(P) /\ P # {} /\ \A b \in P : IsFiniteSet(b)
  BY PartitionParts
<1>2. \A b \in P : Cardinality(OrdersIn(m, b)) \in Nat
  BY <1>1, OrdersAreFinite
<1>3. S = {Cardinality(OrdersIn(m, b)) : b \in P}
  OBVIOUS
<1>4. IsFiniteSet(S)
  <2> HIDE DEF size, P
  <2> QED
    BY <1>1, FiniteImage
<1>5. S # {} /\ S \subseteq Int
  BY <1>1, <1>2, <1>3
<1>6. WorstCaseRemainingOrders(m, P) = Max(S)
  BY <1>3 DEF WorstCaseRemainingOrders
<1> HIDE DEF S, P
<1>7. Max(S) \in S /\ \A x \in S : Max(S) >= x
  BY <1>4, <1>5, GreatestIsIn
<1> QED
  BY <1>2, <1>3, <1>6, <1>7 DEF P

(* A finer partition leaves no more orders in its worst case ...            *)
LEMMA WorstFollows ==
  ASSUME NEW m, NEW f, NEW g, IsFiniteSet(DOMAIN f), DOMAIN f # {}, DOMAIN g = DOMAIN f,
         Refines(Partition(f), Partition(g))
  PROVE  WorstCaseRemainingOrders(m, Partition(f)) <= WorstCaseRemainingOrders(m, Partition(g))
<1>1. PICK b \in Partition(f) :
        WorstCaseRemainingOrders(m, Partition(f)) = Cardinality(OrdersIn(m, b))
  BY WorstIsGreatest
<1>2. PICK c \in Partition(g) : b \subseteq c
  BY DEF Refines
<1>3. IsFiniteSet(c)
  BY PartitionParts
<1>4. /\ Cardinality(OrdersIn(m, b)) \in Nat /\ Cardinality(OrdersIn(m, c)) \in Nat
      /\ Cardinality(OrdersIn(m, b)) <= Cardinality(OrdersIn(m, c))
  BY <1>2, <1>3, OrdersAreFinite
<1>5. /\ WorstCaseRemainingOrders(m, Partition(g)) \in Nat
      /\ WorstCaseRemainingOrders(m, Partition(g)) >= Cardinality(OrdersIn(m, c))
  BY WorstIsGreatest
<1> QED
  BY <1>1, <1>4, <1>5

(* The orders that the worlds of some mass in a block induce, and the mass  *)
(* of a block.                                                              *)
Left(m, prior, b) == Cardinality(OrdersIn(m, {w \in b : prior[w] # 0}))

(* Masses added in the order CHOOSE takes the worlds are their sum.         *)
LEMMA MassIsSum ==
  ASSUME NEW prior, NEW S, IsFiniteSet(S)
  PROVE  MapThenSumSet(LAMBDA w : prior[w], S) = Sum(prior, S)
<1> DEFINE Unrolled(g, s) ==
             IF s = {} THEN 0
             ELSE prior[CHOOSE x \in s : TRUE] + g[s \ {CHOOSE x \in s : TRUE}]
           g == CHOOSE g : g = [s \in SUBSET S |-> Unrolled(g, s)]
<1>1. \A h : \A s \in SUBSET S : Unrolled(h, s) = Step(prior, h, s)
  BY DEF Step, OneOf
<1> HIDE DEF Unrolled
<1>2. Totals(prior, S) = Stepped(prior, Totals(prior, S), S)
  BY TotalsExist
<1>3. \E h : h = [s \in SUBSET S |-> Unrolled(h, s)]
  BY <1>1, <1>2 DEF Stepped
<1>4. g = [s \in SUBSET S |-> Unrolled(g, s)]
  BY <1>3
<1> HIDE DEF g
<1>5. g = Stepped(prior, g, S)
  BY <1>1, <1>4 DEF Stepped
<1>6. g[S] = Sum(prior, S)
  BY <1>5, SumIsUnique
<1>7. MapThenSumSet(LAMBDA w : prior[w], S) = g[S]
  BY DEF MapThenSumSet, MapThenFoldSet, g, Unrolled
<1> QED
  BY <1>6, <1>7

(* What is expected to be left is a sum over the blocks, and one over the   *)
(* worlds: each counts its mass for every order left in its block.          *)
LEMMA ExpectedByBlock ==
  ASSUME NEW m, NEW prior, NEW P, IsFiniteSet(P), \A b \in P : IsFiniteSet(b),
         NEW e, \A b \in P : e[b] = Sum(prior, b) * Left(m, prior, b)
  PROVE  ExpectedRemainingOrders(m, prior, P) = Sum(e, P)
<1> DEFINE Weighed(b) == MapThenSumSet(LAMBDA w : prior[w], b) * Left(m, prior, b)
           Unrolled(g, s) ==
             IF s = {} THEN 0
             ELSE Weighed(CHOOSE x \in s : TRUE) + g[s \ {CHOOSE x \in s : TRUE}]
           g == CHOOSE g : g = [s \in SUBSET P |-> Unrolled(g, s)]
<1>1. \A h : \A s \in SUBSET P : Unrolled(h, s) = Step(e, h, s)
  <2>1. \A b \in P : MapThenSumSet(LAMBDA w : prior[w], b) = Sum(prior, b)
    BY MassIsSum
  <2>2. \A b \in P : e[b] = Weighed(b)
    BY <2>1
  <2> HIDE DEF Weighed
  <2> QED
    BY <2>2 DEF Step, OneOf
<1> HIDE DEF Unrolled
<1>2. Totals(e, P) = Stepped(e, Totals(e, P), P)
  BY TotalsExist
<1>3. \E h : h = [s \in SUBSET P |-> Unrolled(h, s)]
  BY <1>1, <1>2 DEF Stepped
<1>4. g = [s \in SUBSET P |-> Unrolled(g, s)]
  BY <1>3
<1> HIDE DEF g
<1>5. g = Stepped(e, g, P)
  BY <1>1, <1>4 DEF Stepped
<1>6. g[P] = Sum(e, P)
  BY <1>5, SumIsUnique, SMTT(30)
<1>7. ExpectedRemainingOrders(m, prior, P) = g[P]
  BY DEF ExpectedRemainingOrders, MapThenSumSet, MapThenFoldSet, Left, g, Unrolled
<1> QED
  BY <1>6, <1>7

(* The block of a world; a sum over the worlds instead of the blocks.       *)
BlockOf(f, w) == {v \in DOMAIN f : f[v] = f[w]}

LEMMA ExpectedByWorld ==
  ASSUME NEW m, NEW f, IsFiniteSet(DOMAIN f),
         NEW prior, \A w \in DOMAIN f : prior[w] \in Nat
  PROVE  ExpectedRemainingOrders(m, prior, Partition(f))
           = Sum([w \in DOMAIN f |-> prior[w] * Left(m, prior, BlockOf(f, w))], DOMAIN f)
<1> DEFINE P == Partition(f)
           e == [b \in P |-> Sum(prior, b) * Left(m, prior, b)]
           h == [w \in DOMAIN f |-> prior[w] * Left(m, prior, BlockOf(f, w))]
<1>1. /\ IsFiniteSet(P) /\ UNION P = DOMAIN f
      /\ \A b \in P : IsFiniteSet(b) /\ b \subseteq DOMAIN f
      /\ \A b, c \in P : b # c => b \cap c = {}
  BY PartitionParts
<1>2. \A b \in P : \A w \in b : BlockOf(f, w) = b
  BY DEF Partition, BlockOf, Range
<1>3. \A b \in P : Left(m, prior, b) \in Nat
  BY <1>1, OrdersAreFinite DEF Left
<1>4. \A b \in P : e[b] = Sum(prior, b) * Left(m, prior, b)
  OBVIOUS
<1>5. \A w \in DOMAIN f : h[w] = prior[w] * Left(m, prior, BlockOf(f, w))
  OBVIOUS
<1> HIDE DEF e, h, P
<1>6. ASSUME NEW b \in P
      PROVE  e[b] = Sum(h, b)
  <2> DEFINE c == Left(m, prior, b)
  <2>1. c \in Int /\ \A w \in b : prior[w] \in Int /\ h[w] = prior[w] * c
    BY <1>1, <1>2, <1>3, <1>5
  <2>2. Sum(prior, b) \in Int
    BY <1>1, <2>1, SumStep
  <2>3. e[b] = Sum(prior, b) * c
    BY <1>4
  <2> HIDE DEF c
  <2>4. \A w \in b : h[w] = c * prior[w]
    BY <2>1
  <2>5. Sum(h, b) = c * Sum(prior, b)
    BY <1>1, <2>1, <2>4, SumScale
  <2> QED
    BY <2>1, <2>2, <2>3, <2>5
<1>7. \A w \in DOMAIN f : h[w] \in Int
  <2> TAKE w \in DOMAIN f
  <2>1. PICK b \in P : w \in b
    BY <1>1
  <2>2. Left(m, prior, BlockOf(f, w)) \in Nat
    BY <1>2, <1>3, <2>1
  <2> QED
    BY <1>5, <2>2
<1>8. Sum(e, P) = Sum(h, DOMAIN f)
  BY <1>1, <1>6, <1>7, SumPartition
<1>9. ExpectedRemainingOrders(m, prior, P) = Sum(e, P)
  BY <1>1, <1>4, ExpectedByBlock
<1> QED
  BY <1>8, <1>9 DEF P, h

(* ... and, with any masses of the worlds, no more on average.              *)
LEMMA ExpectedFollows ==
  ASSUME NEW m, NEW f, NEW g, IsFiniteSet(DOMAIN f), DOMAIN g = DOMAIN f,
         Refines(Partition(f), Partition(g)),
         NEW prior, \A w \in DOMAIN f : prior[w] \in Nat
  PROVE  ExpectedRemainingOrders(m, prior, Partition(f))
           <= ExpectedRemainingOrders(m, prior, Partition(g))
<1> DEFINE h == [w \in DOMAIN f |-> prior[w] * Left(m, prior, BlockOf(f, w))]
           k == [w \in DOMAIN f |-> prior[w] * Left(m, prior, BlockOf(g, w))]
<1>1. ExpectedRemainingOrders(m, prior, Partition(f)) = Sum(h, DOMAIN f)
  BY ExpectedByWorld
<1>2. ExpectedRemainingOrders(m, prior, Partition(g)) = Sum(k, DOMAIN f)
  BY ExpectedByWorld
<1>3. /\ \A w \in DOMAIN f : h[w] = prior[w] * Left(m, prior, BlockOf(f, w))
      /\ \A w \in DOMAIN f : k[w] = prior[w] * Left(m, prior, BlockOf(g, w))
  OBVIOUS
<1> HIDE DEF h, k
<1>4. ASSUME NEW w \in DOMAIN f
      PROVE  h[w] \in Int /\ k[w] \in Int /\ h[w] <= k[w]
  <2> DEFINE b == BlockOf(f, w)
             c == BlockOf(g, w)
  <2>1. w \in b /\ b \in Partition(f) /\ w \in c /\ c \in Partition(g)
    BY DEF BlockOf, Partition, Range
  <2>2. b \subseteq c
    <3>1. PICK d \in Partition(g) : b \subseteq d
      BY <2>1 DEF Refines
    <3>2. d \cap c # {}
      BY <2>1, <3>1
    <3>3. d = c
      BY <2>1, <3>2, PartitionIsDisjoint
    <3> QED
      BY <3>1, <3>3
  <2>3. IsFiniteSet(c)
    BY <2>1, PartitionParts
  <2> HIDE DEF b, c
  <2>4. {v \in b : prior[v] # 0} \in SUBSET {v \in c : prior[v] # 0}
    BY <2>2
  <2>5. IsFiniteSet({v \in c : prior[v] # 0})
    BY <2>3, FS_Subset
  <2>6. Left(m, prior, b) \in Nat /\ Left(m, prior, c) \in Nat
        /\ Left(m, prior, b) <= Left(m, prior, c)
    BY <2>4, <2>5, OrdersAreFinite DEF Left
  <2>7. \A x, y, z \in Nat : y <= z => x * y <= x * z /\ x * y \in Int /\ x * z \in Int
    OBVIOUS
  <2> QED
    BY <1>3, <2>6, <2>7 DEF b, c
<1>5. Sum(h, DOMAIN f) <= Sum(k, DOMAIN f)
  BY <1>4, SumMonotone
<1> QED
  BY <1>1, <1>2, <1>5

(* What is expected is a number.                                            *)
LEMMA ExpectedIsInt ==
  ASSUME NEW m, NEW f, IsFiniteSet(DOMAIN f),
         NEW prior, \A w \in DOMAIN f : prior[w] \in Nat
  PROVE  ExpectedRemainingOrders(m, prior, Partition(f)) \in Int
<1> DEFINE h == [w \in DOMAIN f |-> prior[w] * Left(m, prior, BlockOf(f, w))]
<1>1. ExpectedRemainingOrders(m, prior, Partition(f)) = Sum(h, DOMAIN f)
  BY ExpectedByWorld
<1>2. ASSUME NEW w \in DOMAIN f
      PROVE  h[w] \in Int
  <2>1. BlockOf(f, w) \in SUBSET DOMAIN f
    BY DEF BlockOf
  <2>2. IsFiniteSet({v \in BlockOf(f, w) : prior[v] # 0})
    BY <2>1, FS_Subset
  <2>3. Left(m, prior, BlockOf(f, w)) \in Nat
    BY <2>2, OrdersAreFinite DEF Left
  <2>4. h[w] = prior[w] * Left(m, prior, BlockOf(f, w))
    OBVIOUS
  <2> HIDE DEF h
  <2> QED
    BY <2>3, <2>4
<1> HIDE DEF h
<1>3. Sum(h, DOMAIN f) \in Int
  BY <1>2, SumStep
<1> QED
  BY <1>1, <1>3

(* What is said of a probe of an accepted model is a report, of which       *)
(* dominance is a strict order.                                             *)
LEMMA ProbeIsReport ==
  ASSUME NEW m, IsModel(m), ModelError(m) = "ok", NEW i \in DOMAIN m.probes
  PROVE  IsReport(AnalyzeProbe(m, m.probes[i]), m.priors # {})
<1> DEFINE f == m.probes[i].observations
           q == AnalyzeProbe(m, m.probes[i])
<1>1. /\ q.partition = Partition(f) /\ q.cost = m.probes[i].cost
      /\ q.worst = WorstCaseRemainingOrders(m, Partition(f))
      /\ q.expected = {ExpectedRemainingOrders(m, prior, Partition(f)) : prior \in m.priors}
  BY DEF AnalyzeProbe
<1>2. DOMAIN f = NamesOf(m) /\ IsFiniteSet(DOMAIN f) /\ DOMAIN f # {}
  BY ValidProbes, ValidWorlds
<1>3. q.cost \in [1..3 -> Int]
  BY <1>1 DEF IsModel
<1> HIDE DEF q, f
<1>4. q.worst \in Int
  BY <1>1, <1>2, WorstIsGreatest
<1>5. ASSUME NEW prior \in m.priors
      PROVE  \E e \in Int : q.expected = {e}
  <2>1. m.priors = {prior} /\ \A w \in DOMAIN f : prior[w] \in Nat
    BY <1>2, ValidPriors
  <2>2. ExpectedRemainingOrders(m, prior, Partition(f)) \in Int
    BY <1>2, <2>1, ExpectedIsInt
  <2> QED
    BY <1>1, <2>1, <2>2
<1>6. m.priors = {} => q.expected = {}
  BY <1>1
<1>7. \E g : q.partition = Partition(g)
  BY <1>1
<1> QED
  BY <1>3, <1>4, <1>5, <1>6, <1>7 DEF IsReport, q

(* The scan for a frontier: whatever strict order dominance is, an evicted  *)
(* probe has one on the frontier above it.                                  *)
LEMMA ScanKeepsBest ==
  ASSUME NEW D \in SUBSET Nat, IsFiniteSet(D), NEW R, NEW d, DOMAIN d = D,
         StrictlyOrders(R, D),
         \A i \in D : \A j : j \in d[i] <=> j \in D /\ j # i /\ <<j, i>> \in R
  PROVE  /\ DOMAIN FrontierBy(d).dominance \subseteq D /\ FrontierBy(d).frontier \subseteq D
         /\ \A i \in DOMAIN FrontierBy(d).dominance :
              /\ FrontierBy(d).dominance[i] \in D
              /\ <<FrontierBy(d).dominance[i], i>> \in R
              /\ \E j \in FrontierBy(d).frontier : <<j, i>> \in R
<1> DEFINE dominated == {i \in D : d[i] # {}}
           scan == FrontierBy(d)
<1>1. /\ scan.frontier = D \ dominated
      /\ scan.dominance = [i \in dominated |-> Min(d[i])]
  BY DEF FrontierBy
<1>2. DOMAIN scan.dominance = dominated /\ \A i \in dominated : scan.dominance[i] = Min(d[i])
  BY <1>1
<1> HIDE DEF scan
<1>3. ASSUME NEW i \in dominated
      PROVE  /\ Min(d[i]) \in D /\ <<Min(d[i]), i>> \in R
             /\ \E j \in scan.frontier : <<j, i>> \in R
  <2>1. d[i] # {} /\ i \in D
    OBVIOUS
  <2>2. d[i] \subseteq D /\ \A j \in d[i] : <<j, i>> \in R
    BY <2>1
  <2>3. Min(d[i]) \in d[i]
    BY <2>1, <2>2, LeastIsIn
  <2>4. \E j \in D : <<j, i>> \in R
    BY <2>1, <2>2
  <2>5. PICK j \in D : <<j, i>> \in R /\ \A k \in D : <<k, j>> \notin R
    BY <2>1, <2>4, UndominatedExists
  <2>6. d[j] = {}
    BY <2>5
  <2>7. j \in scan.frontier
    BY <1>1, <2>5, <2>6
  <2> QED
    BY <2>2, <2>3, <2>5, <2>7
<1>4. \A i \in DOMAIN scan.dominance :
        /\ scan.dominance[i] \in D /\ <<scan.dominance[i], i>> \in R
        /\ \E j \in scan.frontier : <<j, i>> \in R
  <2> HIDE DEF dominated
  <2> QED
    BY <1>2, <1>3
<1>5. DOMAIN scan.dominance \subseteq D /\ scan.frontier \subseteq D
  BY <1>1, <1>2
<1> QED
  BY <1>4, <1>5 DEF scan

(* Both scans of an accepted model, and the Blackwell order against any     *)
(* masses of the worlds.                                                    *)
LEMMA ModelsCompared ==
  ASSUME NEW m, IsModel(m), ModelError(m) = "ok"
  PROVE  ProbesCompared(m)
<1> DEFINE n == Len(m.probes)
           r == [i \in DOMAIN m.probes |-> AnalyzeProbe(m, m.probes[i])]
           B == {e \in (1..n) \X (1..n) : BlackwellDominates(r[e[1]], r[e[2]])}
           O == {e \in (1..n) \X (1..n) : OrderDominates(r[e[1]], r[e[2]])}
           b == [i \in DOMAIN r |-> {j \in DOMAIN r \ {i} : BlackwellDominates(r[j], r[i])}]
           o == [i \in DOMAIN r |-> {j \in DOMAIN r \ {i} : OrderDominates(r[j], r[i])}]
           a == AnalyzeModel(m)
<1>1. a.probes = r
  BY DEF AnalyzeModel
<1>2. a.blackwell = FrontierBy(b)
  BY DEF AnalyzeModel
<1>3. a.order = FrontierBy(o)
  BY DEF AnalyzeModel
<1>4. n \in Nat /\ DOMAIN m.probes = 1..n
  BY DEF IsModel
<1>5. 1..n \in SUBSET Nat /\ IsFiniteSet(1..n)
  <2> HIDE DEF n
  <2> QED
    BY <1>4, FS_Interval
<1>6. DOMAIN r = 1..n /\ DOMAIN b = 1..n /\ DOMAIN o = 1..n
  BY <1>4
<1>7. \A i \in 1..n : r[i] = AnalyzeProbe(m, m.probes[i])
  BY <1>4
<1>8. \A i \in 1..n : IsReport(r[i], m.priors # {})
  BY <1>4, <1>7, ProbeIsReport
<1>9. \A i, j \in 1..n : <<i, j>> \in B <=> BlackwellDominates(r[i], r[j])
  OBVIOUS
<1>10. \A i, j \in 1..n : <<i, j>> \in O <=> OrderDominates(r[i], r[j])
  OBVIOUS
<1>11. \A i \in 1..n : \A j : j \in b[i] <=> j \in 1..n /\ j # i /\ <<j, i>> \in B
  <2> HIDE DEF B
  <2> QED
    BY <1>6, <1>9
<1>12. \A i \in 1..n : \A j : j \in o[i] <=> j \in 1..n /\ j # i /\ <<j, i>> \in O
  <2> HIDE DEF O
  <2> QED
    BY <1>6, <1>10
<1> HIDE DEF n, r, B, O, b, o, a
<1>13. StrictlyOrders(B, 1..n)
  BY <1>8, <1>9, DominanceIsStrictOrder DEF StrictlyOrders
<1>14. StrictlyOrders(O, 1..n)
  BY <1>8, <1>10, DominanceIsStrictOrder DEF StrictlyOrders
<1>15. /\ DOMAIN a.blackwell.dominance \subseteq 1..n /\ a.blackwell.frontier \subseteq 1..n
       /\ \A i \in DOMAIN a.blackwell.dominance :
            /\ a.blackwell.dominance[i] \in 1..n /\ <<a.blackwell.dominance[i], i>> \in B
            /\ \E j \in a.blackwell.frontier : <<j, i>> \in B
  BY <1>2, <1>5, <1>6, <1>11, <1>13, ScanKeepsBest
<1>16. /\ DOMAIN a.order.dominance \subseteq 1..n /\ a.order.frontier \subseteq 1..n
       /\ \A i \in DOMAIN a.order.dominance :
            \E j \in a.order.frontier : <<j, i>> \in O
  BY <1>3, <1>5, <1>6, <1>12, <1>14, ScanKeepsBest
<1>17. EvictedByAKeptProbe(a.probes, a.blackwell, BlackwellDominates)
  BY <1>1, <1>9, <1>15 DEF EvictedByAKeptProbe
<1>18. EvictedByAKeptProbe(a.probes, a.order, OrderDominates)
  BY <1>1, <1>10, <1>16 DEF EvictedByAKeptProbe
<1>19. ASSUME NEW i \in DOMAIN a.blackwell.dominance
       PROVE  PriorFree(m, a.probes[a.blackwell.dominance[i]], a.probes[i])
  <2> DEFINE k == a.blackwell.dominance[i]
  <2>1. i \in 1..n /\ k \in 1..n /\ <<k, i>> \in B
    BY <1>15
  <2> HIDE DEF k
  <2> DEFINE f == m.probes[k].observations
             g == m.probes[i].observations
  <2>2. r[k] = AnalyzeProbe(m, m.probes[k]) /\ r[i] = AnalyzeProbe(m, m.probes[i])
    BY <1>7, <2>1
  <2>3. r[k].partition = Partition(f) /\ r[i].partition = Partition(g)
    BY <2>2 DEF AnalyzeProbe
  <2>4. /\ r[k].worst = WorstCaseRemainingOrders(m, Partition(f))
        /\ r[i].worst = WorstCaseRemainingOrders(m, Partition(g))
    BY <2>2 DEF AnalyzeProbe
  <2>5. Refines(Partition(f), Partition(g))
    BY <1>9, <2>1, <2>3 DEF BlackwellDominates
  <2>6. /\ DOMAIN f = NamesOf(m) /\ DOMAIN g = NamesOf(m)
        /\ IsFiniteSet(NamesOf(m)) /\ NamesOf(m) # {}
    BY <1>4, <2>1, ValidProbes, ValidWorlds
  <2> HIDE DEF f, g
  <2>7. r[k].worst <= r[i].worst
    BY <2>4, <2>5, <2>6, WorstFollows
  <2>8. ASSUME NEW prior \in [NamesOf(m) -> 0..2]
        PROVE  ExpectedRemainingOrders(m, prior, Partition(f))
                 <= ExpectedRemainingOrders(m, prior, Partition(g))
    <3>1. \A w \in NamesOf(m) : prior[w] \in Nat
      OBVIOUS
    <3> QED
      BY <2>5, <2>6, <3>1, ExpectedFollows
  <2> QED
    BY <1>1, <2>3, <2>7, <2>8 DEF PriorFree, k
<1> QED
  BY <1>17, <1>18, <1>19 DEF ProbesCompared, a

(* Whatever the questions, their worlds, priors, costs and outcomes: each   *)
(* evicted probe has a better one on its frontier, and under the Blackwell  *)
(* order it is no worse for any masses of the worlds (analyze_model).       *)
THEOREM ProbesAreCompared == OrdersSpec => []ProbesComparedRight
<1> DEFINE Inv == /\ case.kind = "problem" => IsModel(case.problem.model)
                  /\ case.kind = "probes" => /\ IsModel(case.problem.model)
                                             /\ ModelError(case.problem.model) = "ok"
<1>1. OrdersInit => Inv
  BY ProblemsAssumption DEF OrdersInit
<1>2. Inv /\ [OrdersNext]_case => Inv'
  <2> SUFFICES ASSUME Inv, [OrdersNext]_case
               PROVE  Inv'
    OBVIOUS
  <2>1. CASE CompareProbes
    BY <2>1 DEF CompareProbes
  <2>2. CASE CompareBoth
    BY <2>2 DEF CompareBoth
  <2>3. CASE StartPlan
    BY <2>3 DEF StartPlan
  <2>4. CASE TakeProbe
    <3>1. case'.kind = "plan"
      BY <2>4 DEF TakeProbe
    <3> QED
      BY <3>1
  <2>5. CASE UNCHANGED case
    BY <2>5
  <2> QED
    BY <2>1, <2>2, <2>3, <2>4, <2>5 DEF OrdersNext
<1>3. Inv => ProbesComparedRight
  BY ModelsCompared DEF ProbesComparedRight
<1> QED
  BY <1>1, <1>2, <1>3, PTL DEF OrdersSpec


-----------------------------------------------------------------------------

(* What is read for a signal: numbers, each at most one, and a status that  *)
(* they support.                                                            *)
Reading(p, id, bounded) ==
  /\ Given(p.value) /\ Given(p.numerator) /\ Given(p.denominator)
  /\ bounded => \A v \in p.value : v <= One
  /\ LET supported == p.value # {} /\ \E d \in p.denominator : d > 0
     IN  \/ p.status = "Observed" /\ supported
         \/ p.status = "Censored" /\ id = CloneDensity /\ supported
         \/ p.status = "InsufficientCoverage" /\ id = SymbolWorkingSet /\ supported
         \/ p.status = "Missing"

LEMMA FailedReading ==
  /\ Given(Failed.value) /\ Given(Failed.numerator) /\ Given(Failed.denominator)
  /\ Failed.status = "SourceFailed"
  BY DEF Failed, Given

LEMMA ScalarReading ==
  ASSUME NEW r, Given(r.value), Given(r.denominator), NEW id, NEW bounded \in BOOLEAN,
         bounded => \A v \in r.value : v <= One
  PROVE  Reading(ScalarOf(r), id, bounded)
<1> DEFINE p == ScalarOf(r)
<1>1. /\ p.value = r.value /\ p.numerator = {} /\ p.denominator = r.denominator
      /\ p.status = IF r.value = {} \/ ~ \E d \in r.denominator : d > 0
                    THEN "Missing" ELSE "Observed"
  BY DEF ScalarOf
<1> HIDE DEF p
<1>2. Given({})
  BY DEF Given
<1>3. Reading(p, id, bounded)
  BY <1>1, <1>2 DEF Reading
<1> QED
  BY <1>3 DEF p

(* A part of One is no more than One.                                       *)
LEMMA QuotientBounded ==
  ASSUME NEW n \in Nat, NEW d \in Nat, d > 0
  PROVE  /\ (n * One) \div d \in Nat
         /\ n <= d => (n * One) \div d <= One
<1>1. One \in Nat
  BY OneAssumption
<1> DEFINE x == n * One
           q == x \div d
<1>2. x \in Nat
  BY <1>1
<1>3. \A y \in Nat : y \div d \in Nat /\ d * (y \div d) <= y
  OBVIOUS
<1>4. q \in Nat /\ d * q <= x
  BY <1>2, <1>3
<1>5. ASSUME n <= d
      PROVE  q <= One
  <2>1. \A a, b, c \in Nat : a <= b => a * c <= b * c
    OBVIOUS
  <2>2. x <= d * One
    BY <1>1, <1>5, <2>1
  <2>3. \A a, b \in Nat : d * a <= d * b => a <= b
    OBVIOUS
  <2> HIDE DEF x, q
  <2>4. d * q <= d * One
    BY <1>1, <1>2, <1>4, <2>2
  <2> QED
    BY <1>1, <1>4, <2>3, <2>4
<1> QED
  BY <1>4, <1>5

LEMMA QuotientGiven ==
  ASSUME NEW N, NEW D, Given(N), Given(D)
  PROVE  /\ Given(Quotient(N, D))
         /\ Quotient(N, D) # {} => \E d \in D : d > 0
         /\ (\A n \in N, d \in D : n <= d) => \A v \in Quotient(N, D) : v <= One
<1>1. \A v \in Quotient(N, D) :
        \E n \in N, d \in D : n \in Nat /\ d \in Nat /\ d > 0 /\ v = (n * One) \div d
  BY DEF Quotient, Given
<1>2. \A v \in Quotient(N, D) : v \in Nat
  BY <1>1, QuotientBounded
<1>3. \A v, w \in Quotient(N, D) : v = w
  BY <1>1 DEF Given
<1>4. (\A n \in N, d \in D : n <= d) => \A v \in Quotient(N, D) : v <= One
  BY <1>1, QuotientBounded
<1> QED
  BY <1>1, <1>2, <1>3, <1>4 DEF Given

LEMMA RatioReading ==
  ASSUME NEW r, Given(r.numerator), Given(r.denominator), NEW id, NEW bounded \in BOOLEAN,
         bounded => \A n \in r.numerator, d \in r.denominator : n <= d
  PROVE  Reading(RatioOf(r), id, bounded)
<1> DEFINE p == RatioOf(r)
           value == Quotient(r.numerator, r.denominator)
<1>1. /\ p.value = value /\ p.numerator = r.numerator /\ p.denominator = r.denominator
      /\ p.status = IF value = {} THEN "Missing" ELSE "Observed"
  BY DEF RatioOf
<1>2. /\ Given(value) /\ (value # {} => \E d \in r.denominator : d > 0)
      /\ bounded => \A v \in value : v <= One
  BY QuotientGiven
<1> HIDE DEF p, value
<1>3. Reading(p, id, bounded)
  BY <1>1, <1>2 DEF Reading
<1> QED
  BY <1>3 DEF p

LEMMA WorkingSetReading ==
  ASSUME NEW r, NEW config, Given(r.p90), Given(r.nodes),
         \A p \in r.p90, n \in r.nodes : p <= n /\ (p = n => n = 0)
  PROVE  Reading(WorkingSetOf(r, config), SymbolWorkingSet, TRUE)
<1> DEFINE p == WorkingSetOf(r, config)
           others == {n - 1 : n \in {k \in r.nodes : k >= 2}}
           value == Quotient(r.p90, others)
<1>1. /\ p.value = value /\ p.numerator = r.p90 /\ p.denominator = others
      /\ \/ p.status = "Missing"
         \/ value # {} /\ p.status \in {"InsufficientCoverage", "Observed"}
  BY DEF WorkingSetOf
<1>2. Given(others)
  BY DEF Given
<1>3. \A n \in r.p90, d \in others : n <= d
  BY DEF Given
<1>4. Given(value) /\ (value # {} => \E d \in others : d > 0) /\ \A v \in value : v <= One
  BY <1>2, <1>3, QuotientGiven
<1> HIDE DEF p, value, others
<1>5. Reading(p, SymbolWorkingSet, TRUE)
  BY <1>1, <1>2, <1>4 DEF Reading
<1> QED
  BY <1>5 DEF p

LEMMA ClonesReading ==
  ASSUME NEW r, NEW config, Given(r.numerator), Given(r.denominator)
  PROVE  Reading(CloneDensityOf(r, config), CloneDensity, FALSE)
<1> DEFINE p == CloneDensityOf(r, config)
           value == Quotient(r.numerator, r.denominator)
<1>1. /\ p.value = value /\ p.numerator = r.numerator /\ p.denominator = r.denominator
      /\ \/ p.status = "Missing"
         \/ value # {} /\ p.status \in {"Censored", "Observed"}
  BY DEF CloneDensityOf
<1>2. Given(value) /\ (value # {} => \E d \in r.denominator : d > 0)
  BY QuotientGiven
<1> HIDE DEF p, value
<1>3. Reading(p, CloneDensity, FALSE)
  BY <1>1, <1>2 DEF Reading
<1> QED
  BY <1>3 DEF p

Row(id, family, polarity, analyzer, bounded) ==
  [id |-> id, family |-> family, polarity |-> polarity, analyzer |-> analyzer,
   projection |-> id, bounded |-> bounded]

(* A signal made from a reading, or from none, keeps its line of the        *)
(* contract.                                                                *)
LEMMA SignalMeets ==
  ASSUME NEW p, NEW id, NEW family, NEW polarity, NEW analyzer, NEW bounded \in BOOLEAN,
         NEW delivered \in BOOLEAN,
         delivered => Reading(p, id, bounded), ~delivered => p = Failed
  PROVE  LET s == Signal(id, family, polarity, analyzer, p.status, p.value, p.numerator,
                         p.denominator)
         IN  /\ ValidSignalContract(s, Row(id, family, polarity, analyzer, bounded))
             /\ s.status = "SourceFailed" <=> ~delivered
<1> DEFINE s == Signal(id, family, polarity, analyzer, p.status, p.value, p.numerator,
                       p.denominator)
           c == Row(id, family, polarity, analyzer, bounded)
<1>1. \A field \in {"id", "family", "polarity", "analyzer", "projection"} :
        s[field] = c[field]
  BY DEF Signal, Row
<1>2. /\ s.id = id /\ s.status = p.status /\ s.value = p.value
      /\ s.numerator = p.numerator /\ s.denominator = p.denominator
      /\ s.reason = (p.status # "Observed")
  BY DEF Signal
<1>3. c.bounded = bounded
  BY DEF Row
<1> HIDE DEF s, c
<1>4. Given(p.value) /\ Given(p.numerator) /\ Given(p.denominator)
  BY FailedReading DEF Reading
<1>5. ValidValues(s, c)
  <2>1. \A v \in s.value \cup s.numerator \cup s.denominator : v >= 0
    BY <1>2, <1>4 DEF Given
  <2>2. c.bounded => \A v \in s.value : v <= One
    BY <1>2, <1>3 DEF Reading, Failed
  <2> QED
    BY <2>1, <2>2 DEF ValidValues
<1>6. ValidStatus(s) /\ (s.status = "SourceFailed" <=> ~delivered)
  <2>1. CASE delivered
    BY <1>2, <2>1 DEF ValidStatus, Reading
  <2>2. CASE ~delivered
    <3>1. /\ p.status = "SourceFailed" /\ p.value = {} /\ p.numerator = {}
          /\ p.denominator = {}
      BY <2>2 DEF Failed
    <3>2. s.status = "SourceFailed" /\ s.reason
      BY <1>2, <3>1
    <3>3. s.value \cup s.numerator \cup s.denominator = {}
      BY <1>2, <3>1
    <3> QED
      BY <2>2, <3>2, <3>3 DEF ValidStatus
  <2> QED
    BY <2>1, <2>2
<1> QED
  BY <1>1, <1>5, <1>6 DEF ValidSignalContract, s, c

LEMMA LenOf ==
  ASSUME NEW s, NEW n \in Nat, DOMAIN s = 1..n
  PROVE  Len(s) = n
  OBVIOUS

(* The lines of the contract, one by one.                                   *)
LEMMA ContractLines ==
  /\ Len(SignalContracts) = 6 /\ DOMAIN SignalContracts = 1..6
  /\ DOMAIN SignalIds = 1..6 /\ Len(SignalIds) = 6
  /\ \A i \in 1..6 : SignalIds[i] = SignalContracts[i].id
  /\ SignalContracts[1] = Row("cognitive", "reader-load", "lower", "shape", FALSE)
  /\ SignalContracts[2] = Row(SymbolWorkingSet, "reader-load", "lower", "symbols", TRUE)
  /\ SignalContracts[3] = Row("shallow", "interface-depth", "lower", "shape", TRUE)
  /\ SignalContracts[4] = Row("pure", "effect-locality", "higher", "discipline", TRUE)
  /\ SignalContracts[5] = Row("mutable-range", "effect-locality", "lower", "discipline", FALSE)
  /\ SignalContracts[6] = Row(CloneDensity, "uniformity", "lower", "duplicates", FALSE)
<1>1. /\ Len(SignalContracts) = 6 /\ DOMAIN SignalContracts = 1..6
      /\ SignalContracts[1] = Row("cognitive", "reader-load", "lower", "shape", FALSE)
      /\ SignalContracts[2] = Row(SymbolWorkingSet, "reader-load", "lower", "symbols", TRUE)
      /\ SignalContracts[3] = Row("shallow", "interface-depth", "lower", "shape", TRUE)
      /\ SignalContracts[4] = Row("pure", "effect-locality", "higher", "discipline", TRUE)
      /\ SignalContracts[5] = Row("mutable-range", "effect-locality", "lower", "discipline", FALSE)
      /\ SignalContracts[6] = Row(CloneDensity, "uniformity", "lower", "duplicates", FALSE)
  BY DEF SignalContracts, Row
<1>2. /\ DOMAIN SignalIds = 1..6
      /\ \A i \in 1..6 : SignalIds[i] = SignalContracts[i].id
  BY <1>1 DEF SignalIds
<1>3. Len(SignalIds) = 6
  BY <1>2, LenOf
<1> QED
  BY <1>1, <1>2, <1>3

LEMMA LineIsRow ==
  ASSUME NEW i \in 1..6
  PROVE  LET c == SignalContracts[i]
         IN  /\ c = Row(c.id, c.family, c.polarity, c.analyzer, c.bounded)
             /\ c.bounded \in BOOLEAN
             /\ c.analyzer \in {"shape", "symbols", "discipline", "duplicates"}
<1> DEFINE c == SignalContracts[i]
           Right(x) == /\ x = Row(x.id, x.family, x.polarity, x.analyzer, x.bounded)
                       /\ x.bounded \in BOOLEAN
                       /\ x.analyzer \in {"shape", "symbols", "discipline", "duplicates"}
<1>1. ASSUME NEW id, NEW family, NEW polarity, NEW bounded \in BOOLEAN,
             NEW analyzer \in {"shape", "symbols", "discipline", "duplicates"}
      PROVE  Right(Row(id, family, polarity, analyzer, bounded))
  BY DEF Row
<1> HIDE DEF Right
<1>2. /\ Right(SignalContracts[1]) /\ Right(SignalContracts[2]) /\ Right(SignalContracts[3])
      /\ Right(SignalContracts[4]) /\ Right(SignalContracts[5]) /\ Right(SignalContracts[6])
  BY <1>1, ContractLines, ZenonT(30)
<1>3. i \in {1, 2, 3, 4, 5, 6}
  OBVIOUS
<1>4. Right(c)
  BY <1>2, <1>3
<1> QED
  BY <1>4 DEF Right

ReadingOf(reports, config, i) ==
  IF SignalContracts[i].analyzer \notin reports.delivered THEN Failed
  ELSE CASE i = 1 -> ScalarOf(reports.numbers["cognitive"])
         [] i = 2 -> WorkingSetOf(reports.numbers[SymbolWorkingSet], config)
         [] i = 3 -> RatioOf(reports.numbers["shallow"])
         [] i = 4 -> ScalarOf(reports.numbers["pure"])
         [] i = 5 -> ScalarOf(reports.numbers["mutable-range"])
         [] i = 6 -> CloneDensityOf(reports.numbers[CloneDensity], config)

SignalOf(c, p) ==
  Signal(c.id, c.family, c.polarity, c.analyzer, p.status, p.value, p.numerator, p.denominator)

LEMMA ProjectLines ==
  ASSUME NEW reports, NEW config
  PROVE  /\ Len(Project(reports, config)) = 6 /\ DOMAIN Project(reports, config) = 1..6
         /\ \A i \in 1..6 :
              Project(reports, config)[i]
                = SignalOf(SignalContracts[i], ReadingOf(reports, config, i))
<1>1. Len(Project(reports, config)) = 6 /\ DOMAIN Project(reports, config) = 1..6
  BY DEF Project
<1>2. Project(reports, config)[1] = SignalOf(SignalContracts[1], ReadingOf(reports, config, 1))
  BY ContractLines DEF Project, SignalOf, ReadingOf, Row
<1>3. Project(reports, config)[2] = SignalOf(SignalContracts[2], ReadingOf(reports, config, 2))
  BY ContractLines DEF Project, SignalOf, ReadingOf, Row
<1>4. Project(reports, config)[3] = SignalOf(SignalContracts[3], ReadingOf(reports, config, 3))
  BY ContractLines DEF Project, SignalOf, ReadingOf, Row
<1>5. Project(reports, config)[4] = SignalOf(SignalContracts[4], ReadingOf(reports, config, 4))
  BY ContractLines DEF Project, SignalOf, ReadingOf, Row
<1>6. Project(reports, config)[5] = SignalOf(SignalContracts[5], ReadingOf(reports, config, 5))
  BY ContractLines DEF Project, SignalOf, ReadingOf, Row
<1>7. Project(reports, config)[6] = SignalOf(SignalContracts[6], ReadingOf(reports, config, 6))
  BY ContractLines DEF Project, SignalOf, ReadingOf, Row
<1>8. \A i \in 1..6 : i \in {1, 2, 3, 4, 5, 6}
  OBVIOUS
<1> QED
  BY <1>1, <1>2, <1>3, <1>4, <1>5, <1>6, <1>7, <1>8

LEMMA ReadingsSound ==
  ASSUME NEW reports, ValidReports(reports), NEW config, NEW i \in 1..6
  PROVE  LET c == SignalContracts[i]
         IN  IF c.analyzer \in reports.delivered
             THEN Reading(ReadingOf(reports, config, i), c.id, c.bounded)
             ELSE ReadingOf(reports, config, i) = Failed
<1> DEFINE c == SignalContracts[i]
           numbers == reports.numbers
<1>1. ASSUME c.analyzer \in reports.delivered
      PROVE  Reading(ReadingOf(reports, config, i), c.id, c.bounded)
  <2>1. CASE i = 1
    <3>1. ReadingOf(reports, config, i) = ScalarOf(numbers["cognitive"])
      BY <1>1, <2>1 DEF ReadingOf
    <3>2. c.id = "cognitive" /\ c.bounded = FALSE
      BY <2>1, ContractLines DEF Row
    <3>3. Given(numbers["cognitive"].value) /\ Given(numbers["cognitive"].denominator)
      BY DEF ValidReports
    <3> QED
      BY <3>1, <3>2, <3>3, ScalarReading
  <2>2. CASE i = 2
    <3>1. ReadingOf(reports, config, i) = WorkingSetOf(numbers[SymbolWorkingSet], config)
      BY <1>1, <2>2 DEF ReadingOf
    <3>2. c.id = SymbolWorkingSet /\ c.bounded = TRUE
      BY <2>2, ContractLines DEF Row
    <3>3. /\ Given(numbers[SymbolWorkingSet].p90) /\ Given(numbers[SymbolWorkingSet].nodes)
          /\ \A p \in numbers[SymbolWorkingSet].p90, n \in numbers[SymbolWorkingSet].nodes :
               p <= n /\ (p = n => n = 0)
      BY DEF ValidReports
    <3> QED
      BY <3>1, <3>2, <3>3, WorkingSetReading
  <2>3. CASE i = 3
    <3>1. ReadingOf(reports, config, i) = RatioOf(numbers["shallow"])
      BY <1>1, <2>3 DEF ReadingOf
    <3>2. c.id = "shallow" /\ c.bounded = TRUE
      BY <2>3, ContractLines DEF Row
    <3>3. /\ Given(numbers["shallow"].numerator) /\ Given(numbers["shallow"].denominator)
          /\ \A n \in numbers["shallow"].numerator, d \in numbers["shallow"].denominator : n <= d
      BY DEF ValidReports
    <3> QED
      BY <3>1, <3>2, <3>3, RatioReading
  <2>4. CASE i = 4
    <3>1. ReadingOf(reports, config, i) = ScalarOf(numbers["pure"])
      BY <1>1, <2>4 DEF ReadingOf
    <3>2. c.id = "pure" /\ c.bounded = TRUE
      BY <2>4, ContractLines DEF Row
    <3>3. /\ Given(numbers["pure"].value) /\ Given(numbers["pure"].denominator)
          /\ \A v \in numbers["pure"].value : v <= One
      BY DEF ValidReports
    <3> QED
      BY <3>1, <3>2, <3>3, ScalarReading
  <2>5. CASE i = 5
    <3>1. ReadingOf(reports, config, i) = ScalarOf(numbers["mutable-range"])
      BY <1>1, <2>5 DEF ReadingOf
    <3>2. c.id = "mutable-range" /\ c.bounded = FALSE
      BY <2>5, ContractLines DEF Row
    <3>3. Given(numbers["mutable-range"].value) /\ Given(numbers["mutable-range"].denominator)
      BY DEF ValidReports
    <3> QED
      BY <3>1, <3>2, <3>3, ScalarReading
  <2>6. CASE i = 6
    <3>1. ReadingOf(reports, config, i) = CloneDensityOf(numbers[CloneDensity], config)
      BY <1>1, <2>6 DEF ReadingOf
    <3>2. c.id = CloneDensity /\ c.bounded = FALSE
      BY <2>6, ContractLines DEF Row
    <3>3. Given(numbers[CloneDensity].numerator) /\ Given(numbers[CloneDensity].denominator)
      BY DEF ValidReports
    <3> QED
      BY <3>1, <3>2, <3>3, ClonesReading
  <2>7. i \in {1, 2, 3, 4, 5, 6}
    OBVIOUS
  <2> QED
    BY <2>1, <2>2, <2>3, <2>4, <2>5, <2>6, <2>7
<1> QED
  BY <1>1 DEF ReadingOf

LEMMA SignalsSound ==
  ASSUME NEW reports, ValidReports(reports), NEW config, NEW i \in 1..6
  PROVE  LET s == Project(reports, config)[i]
             c == SignalContracts[i]
         IN  /\ ValidSignalContract(s, c)
             /\ s.status = "SourceFailed" <=> c.analyzer \notin reports.delivered
             /\ s.analyzer = c.analyzer
<1> DEFINE c == SignalContracts[i]
           p == ReadingOf(reports, config, i)
           s == Project(reports, config)[i]
           delivered == c.analyzer \in reports.delivered
<1>1. delivered \in BOOLEAN
  OBVIOUS
<1>2. (delivered => Reading(p, c.id, c.bounded)) /\ (~delivered => p = Failed)
  BY ReadingsSound
<1>3. s = SignalOf(c, p)
  BY ProjectLines
<1>4. c.bounded \in BOOLEAN /\ c = Row(c.id, c.family, c.polarity, c.analyzer, c.bounded)
  BY LineIsRow
<1>5. s = Signal(c.id, c.family, c.polarity, c.analyzer, p.status, p.value, p.numerator,
                 p.denominator)
  BY <1>3 DEF SignalOf
<1> HIDE DEF p, delivered, s, c
<1>6. /\ ValidSignalContract(s, Row(c.id, c.family, c.polarity, c.analyzer, c.bounded))
      /\ s.status = "SourceFailed" <=> ~delivered
  <2> DEFINE t == Signal(c.id, c.family, c.polarity, c.analyzer, p.status, p.value,
                         p.numerator, p.denominator)
  <2>1. c.bounded \in BOOLEAN
    BY <1>4
  <2>2. /\ ValidSignalContract(t, Row(c.id, c.family, c.polarity, c.analyzer, c.bounded))
        /\ t.status = "SourceFailed" <=> ~delivered
    BY <1>1, <1>2, <2>1, SignalMeets
  <2>3. s = t
    BY <1>5
  <2> HIDE DEF t
  <2> QED
    BY <2>2, <2>3
<1>7. s.analyzer = c.analyzer
  BY <1>5 DEF Signal
<1> QED
  BY <1>4, <1>6, <1>7 DEF delivered, s, c

LEMMA OnePart ==
  ASSUME NEW s, NEW m \in Int
  PROVE  SubSeq(s, m, m) = <<s[m]>>
<1> DEFINE t == SubSeq(s, m, m)
           u == <<s[m]>>
<1>1. /\ t \in Seq({s[m]}) /\ Len(t) = 1 /\ t[1] = s[m]
  BY SubSeqProperties
<1>2. u = [i \in 1..1 |-> u[i]] /\ u[1] = s[m]
  OBVIOUS
<1> HIDE DEF t, u
<1>3. t = [i \in 1..1 |-> t[i]]
  BY <1>1
<1> QED
  BY <1>1, <1>2, <1>3 DEF t, u
LEMMA TwoParts ==
  ASSUME NEW s, NEW m \in Int, NEW n \in Int, n = m + 1
  PROVE  SubSeq(s, m, n) = <<s[m], s[n]>>
<1> DEFINE t == SubSeq(s, m, n)
           u == <<s[m], s[n]>>
           S == {s[m], s[n]}
<1>1. \A i \in m..n : s[i] \in S
  BY \A i \in m..n : i = m \/ i = n
<1>2. /\ t \in Seq(S) /\ Len(t) = IF m <= n THEN n - m + 1 ELSE 0
      /\ \A i \in 1 .. n - m + 1 : t[i] = s[m + i - 1]
  <2> HIDE DEF S
  <2> QED
    BY <1>1, SubSeqProperties
<1>3. t[1] = s[m] /\ t[2] = s[n] /\ Len(t) = 2
  <2> HIDE DEF t
  <2> QED
    BY <1>2
<1>4. u = [i \in 1..2 |-> u[i]] /\ u[1] = s[m] /\ u[2] = s[n]
  OBVIOUS
<1> HIDE DEF t, u, S
<1>5. t = [i \in 1..2 |-> t[i]]
  BY <1>2, <1>3
<1>6. \A i \in 1..2 : t[i] = u[i]
  BY <1>3, <1>4
<1>7. [i \in 1..2 |-> t[i]] = [i \in 1..2 |-> u[i]]
  BY <1>6
<1> QED
  BY <1>4, <1>5, <1>7 DEF t, u

LEMMA AnalyzersAre ==
  /\ DOMAIN Analyzers = 1..4
  /\ Analyzers[1] = "shape" /\ Analyzers[2] = "symbols"
  /\ Analyzers[3] = "discipline" /\ Analyzers[4] = "duplicates"
  /\ Analyzers = [i \in 1..4 |-> Analyzers[i]]
  /\ \A a \in {"shape", "symbols", "discipline", "duplicates"} :
       \E k \in 1..4 : Analyzers[k] = a
<1>1. DOMAIN Analyzers = 1..4
  BY DEF Analyzers
<1>2. /\ Analyzers[1] = "shape" /\ Analyzers[2] = "symbols"
      /\ Analyzers[3] = "discipline" /\ Analyzers[4] = "duplicates"
  BY DEF Analyzers
<1>3. Analyzers = [i \in 1..4 |-> Analyzers[i]]
  BY DEF Analyzers
<1>4. 1 \in 1..4 /\ 2 \in 1..4 /\ 3 \in 1..4 /\ 4 \in 1..4
  OBVIOUS
<1>5. \A a \in {"shape", "symbols", "discipline", "duplicates"} :
        \E k \in 1..4 : Analyzers[k] = a
  BY <1>2, <1>4, Zenon
<1> QED
  BY <1>1, <1>2, <1>3, <1>5

LEMMA FamiliesAgree == Families = FamilyContracts
<1>1. /\ SignalIds[1] = SignalContracts[1].id /\ SignalIds[2] = SignalContracts[2].id
      /\ SignalIds[3] = SignalContracts[3].id /\ SignalIds[4] = SignalContracts[4].id
      /\ SignalIds[5] = SignalContracts[5].id /\ SignalIds[6] = SignalContracts[6].id
  <2>1. \A i \in 1..6 : SignalIds[i] = SignalContracts[i].id
    BY ContractLines
  <2>2. 1 \in 1..6 /\ 2 \in 1..6 /\ 3 \in 1..6 /\ 4 \in 1..6 /\ 5 \in 1..6 /\ 6 \in 1..6
    OBVIOUS
  <2> QED
    BY <2>1, <2>2, Zenon
<1>2. /\ SignalIds[1] = "cognitive" /\ SignalIds[2] = SymbolWorkingSet
      /\ SignalIds[3] = "shallow" /\ SignalIds[4] = "pure"
      /\ SignalIds[5] = "mutable-range" /\ SignalIds[6] = CloneDensity
  BY <1>1, ContractLines DEF Row
<1>3. /\ SubSeq(SignalIds, 1, 2) = <<SignalIds[1], SignalIds[2]>>
      /\ SubSeq(SignalIds, 3, 3) = <<SignalIds[3]>>
      /\ SubSeq(SignalIds, 4, 5) = <<SignalIds[4], SignalIds[5]>>
      /\ SubSeq(SignalIds, 6, 6) = <<SignalIds[6]>>
  <2>1. 1 \in Int /\ 2 \in Int /\ 2 = 1 + 1 /\ 4 \in Int /\ 5 \in Int /\ 5 = 4 + 1
    OBVIOUS
  <2>2. /\ SubSeq(SignalIds, 1, 2) = <<SignalIds[1], SignalIds[2]>>
        /\ SubSeq(SignalIds, 4, 5) = <<SignalIds[4], SignalIds[5]>>
    BY <2>1, TwoParts, Zenon
  <2>3. SubSeq(SignalIds, 3, 3) = <<SignalIds[3]>> /\ SubSeq(SignalIds, 6, 6) = <<SignalIds[6]>>
    BY OnePart
  <2> QED
    BY <2>2, <2>3
<1> QED
  BY <1>2, <1>3 DEF Families, FamilyContracts

LEMMA ProfileMeets ==
  ASSUME NEW reports, ValidReports(reports), NEW config, NEW implementation,
         implementation # "", NEW artifact
  PROVE  ProjectionMeetsContract(Profile(reports, config, implementation, artifact))
<1> DEFINE f == Profile(reports, config, implementation, artifact)
           signals == Project(reports, config)
<1>1. /\ f.signals = signals /\ f.families = Families /\ f.coverage = Coverage(signals)
      /\ DOMAIN f.analyzers = 1..4
      /\ \A i \in 1..4 :
           /\ f.analyzers[i].id = Analyzers[i]
           /\ Analyzers[i] \in reports.delivered =>
                /\ f.analyzers[i].status = "Complete" /\ f.analyzers[i].digested
                /\ f.analyzers[i].implementation = implementation
           /\ Analyzers[i] \notin reports.delivered => f.analyzers[i].status = "Failed"
  BY AnalyzersAre DEF Profile
<1> HIDE DEF f
<1>2. /\ Len(signals) = Len(SignalContracts) /\ DOMAIN signals = 1..6
      /\ \A i \in 1..6 :
           /\ ValidSignalContract(signals[i], SignalContracts[i])
           /\ signals[i].status = "SourceFailed"
                <=> SignalContracts[i].analyzer \notin reports.delivered
           /\ signals[i].analyzer = SignalContracts[i].analyzer
  <2>1. Len(signals) = Len(SignalContracts) /\ DOMAIN signals = 1..6
    BY ContractLines, ProjectLines
  <2> QED
    BY <2>1, SignalsSound
<1> HIDE DEF signals
<1>3. f.families = FamilyContracts
  BY <1>1, FamiliesAgree
<1>4. ValidCoverageLedger(f)
  <2>1. Len(SignalIds) = Len(SignalContracts)
    BY ContractLines
  <2> QED
    BY <1>1, <2>1 DEF ValidCoverageLedger, Coverage
<1>5. ValidSignalRegistry(f)
  BY <1>1, <1>2, <1>3, <1>4 DEF ValidSignalRegistry
<1>6. ValidAnalyzerRegistry(f)
  BY <1>1, AnalyzersAre DEF ValidAnalyzerRegistry
<1>7. ASSUME NEW i \in 1..6
      PROVE  signals[i].status = "SourceFailed"
               <=> CompleteImplementation(f, signals[i].analyzer) = {}
  <2>1. signals[i].analyzer = SignalContracts[i].analyzer
    BY <1>2
  <2>2. SignalContracts[i].analyzer \in {"shape", "symbols", "discipline", "duplicates"}
    BY LineIsRow
  <2>3. PICK k \in 1..4 : Analyzers[k] = SignalContracts[i].analyzer
    BY <2>2, AnalyzersAre
  <2>4. f.analyzers[k] \in Range(f.analyzers)
    BY <1>1 DEF Range
  <2>5. \A e \in Range(f.analyzers) : \E j \in 1..4 : e = f.analyzers[j]
    BY <1>1 DEF Range
  <2>6. CASE SignalContracts[i].analyzer \in reports.delivered
    <3>1. /\ f.analyzers[k].id = SignalContracts[i].analyzer
          /\ f.analyzers[k].status = "Complete" /\ f.analyzers[k].digested
          /\ f.analyzers[k].implementation = implementation
      BY <1>1, <2>3, <2>6
    <3>2. implementation \in CompleteImplementation(f, SignalContracts[i].analyzer)
      BY <2>4, <3>1 DEF CompleteImplementation
    <3> QED
      BY <1>2, <2>1, <2>6, <3>2
  <2>7. CASE SignalContracts[i].analyzer \notin reports.delivered
    <3>1. \A j \in 1..4 : f.analyzers[j].id = SignalContracts[i].analyzer
                            => f.analyzers[j].status = "Failed"
      BY <1>1, <2>7
    <3>2. \A e \in Range(f.analyzers) : e.id = SignalContracts[i].analyzer => e.status = "Failed"
      BY <2>5, <3>1
    <3>3. CompleteImplementation(f, SignalContracts[i].analyzer) = {}
      BY <3>2 DEF CompleteImplementation
    <3> QED
      BY <1>2, <2>1, <2>7, <3>3
  <2> QED
    BY <2>6, <2>7
<1>8. \A s \in Range(f.signals) :
        s.status = "SourceFailed" <=> CompleteImplementation(f, s.analyzer) = {}
  <2> TAKE s \in Range(f.signals)
  <2>1. PICK i \in 1..6 : s = signals[i]
    BY <1>1, <1>2, ZenonT(30) DEF Range
  <2> QED
    BY <1>7, <2>1
<1> QED
  BY <1>5, <1>6, <1>8 DEF ProjectionMeetsContract, f

Made(profile) ==
  \E pair \in ProfilePairs : \E i \in 1..2 : profile = ProfileOf(pair[i])

MadeProfiles ==
  /\ case.kind = "pair" => case.pair \in ProfilePairs
  /\ case.kind = "profiles" => Made(case.left) /\ Made(case.right)

LEMMA ProfilesAreMade == OrdersSpec => []MadeProfiles
<1>1. OrdersInit => MadeProfiles
  BY DEF OrdersInit, MadeProfiles
<1>2. MadeProfiles /\ [OrdersNext]_case => MadeProfiles'
  <2> SUFFICES ASSUME MadeProfiles, [OrdersNext]_case
               PROVE  MadeProfiles'
    OBVIOUS
  <2>1. CASE CompareProbes
    BY <2>1 DEF CompareProbes, MadeProfiles
  <2>2. CASE CompareBoth
    <3>1. /\ case.pair \in ProfilePairs /\ case'.kind = "profiles"
          /\ case'.left = ProfileOf(case.pair[1]) /\ case'.right = ProfileOf(case.pair[2])
      BY <2>2 DEF CompareBoth, MadeProfiles
    <3>2. Made(case'.left) /\ Made(case'.right)
      BY <3>1 DEF Made
    <3> QED
      BY <3>1, <3>2 DEF MadeProfiles, Made
  <2>3. CASE StartPlan
    BY <2>3 DEF StartPlan, MadeProfiles
  <2>4. CASE TakeProbe
    <3>1. case'.kind = "plan"
      BY <2>4 DEF TakeProbe
    <3> QED
      BY <3>1 DEF MadeProfiles
  <2>5. CASE UNCHANGED case
    BY <2>5 DEF MadeProfiles, Made
  <2> QED
    BY <2>1, <2>2, <2>3, <2>4, <2>5 DEF OrdersNext
<1> QED
  BY <1>1, <1>2, PTL DEF OrdersSpec

(* A profile this program makes passes its own contract: whatever the       *)
(* analyzers count and whichever of them fail (valid_signal_registry).      *)
THEOREM ProfilesMeetContract == OrdersSpec => []ProfilesValid
<1>1. ASSUME NEW profile, Made(profile)
      PROVE  ProjectionMeetsContract(profile)
  <2>1. PICK pair \in ProfilePairs, i \in 1..2 : profile = ProfileOf(pair[i])
    BY <1>1 DEF Made
  <2> QED
    BY <2>1, ProfilesAssumption, ProfileMeets DEF ProfileOf
<1>2. MadeProfiles => ProfilesValid
  BY <1>1 DEF MadeProfiles, ProfilesValid
<1> QED
  BY <1>2, ProfilesAreMade, PTL

-----------------------------------------------------------------------------

(* The numbers of an interval that is cut off at Top.                       *)
Below(i) == i.lower .. (IF i.upper = {} THEN Top ELSE Max(i.upper))

(* Some number up to Top is not the same as this one.                       *)
Clear(v) == \E y \in v..Top : ~ApproximatelyEqual(v, y)

LEMMA MaxOfOne ==
  ASSUME NEW u \in Int
  PROVE  Max({u}) = u
<1>1. \E x \in {u} : \A y \in {u} : x >= y
  OBVIOUS
<1>2. Max({u}) \in {u}
  BY <1>1 DEF Max
<1> QED
  BY <1>2

LEMMA BelowIsPart ==
  ASSUME NEW i \in Intervals
  PROVE  Below(i) \subseteq ValuesOf(i)
<1>1. i.lower \in Nat
  BY IntervalCases
<1>2. CASE i.upper = {}
  BY <1>1, <1>2, TopAssumption DEF Below, ValuesOf
<1>3. ASSUME NEW u \in Nat, i.upper = {u}
      PROVE  Below(i) \subseteq ValuesOf(i)
  <2>1. Max(i.upper) = u
    BY <1>3, MaxOfOne
  <2> QED
    BY <1>1, <1>3, <2>1 DEF Below, ValuesOf
<1> QED
  BY <1>2, <1>3, IntervalCases

(* The ends of an interval remain when it is cut off above them.            *)
LEMMA EndsAreBelow ==
  ASSUME NEW i \in Intervals, i.upper = {} => i.lower <= Top
  PROVE  /\ i.lower \in Below(i)
         /\ \A u \in i.upper : u \in Below(i)
         /\ \A v \in Nat : i.lower <= v /\ v <= Top /\ (\A u \in i.upper : v <= u)
                             => v \in Below(i)
<1>1. i.lower \in Nat /\ Top \in Nat
  BY IntervalCases, TopAssumption
<1>2. CASE i.upper = {}
  BY <1>1, <1>2 DEF Below
<1>3. ASSUME NEW u \in Nat, i.upper = {u}, i.lower <= u
      PROVE  /\ i.lower \in Below(i)
             /\ \A w \in i.upper : w \in Below(i)
             /\ \A v \in Nat : i.lower <= v /\ v <= Top /\ (\A w \in i.upper : v <= w)
                                 => v \in Below(i)
  <2>1. Below(i) = i.lower .. u
    BY <1>3, MaxOfOne DEF Below
  <2> QED
    BY <1>1, <1>3, <2>1
<1> QED
  BY <1>2, <1>3, IntervalCases

(* Where an interval is open, both of the intervals begin far below Top.    *)
RoomAbove(l, r) ==
  l.upper = {} \/ r.upper = {} => Clear(l.lower) /\ Clear(r.lower)

LEMMA StrictlyLessBelow ==
  ASSUME NEW l \in Intervals, NEW r \in Intervals, RoomAbove(l, r),
         StrictLessPossible(l.lower, r.upper)
  PROVE  \E x \in Below(l), y \in Below(r) : x < y /\ ~ApproximatelyEqual(x, y)
<1>1. /\ l.lower \in Nat /\ r.lower \in Nat /\ Top \in Nat
      /\ l.upper = {} => l.lower <= Top
      /\ r.upper = {} => r.lower <= Top
  BY IntervalCases, TopAssumption DEF RoomAbove, Clear
<1>2. l.lower \in Below(l)
  BY <1>1, EndsAreBelow
<1>3. CASE r.upper = {}
  <2>1. PICK far \in l.lower..Top : ~ApproximatelyEqual(l.lower, far)
    BY <1>3 DEF RoomAbove, Clear
  <2>2. \A x \in Nat : ApproximatelyEqual(x, x)
    BY EqualsItself
  <2>3. far \in Nat /\ l.lower < far /\ far <= Top
    BY <1>1, <2>1, <2>2
  <2>4. CASE r.lower <= far
    <3>1. far \in Below(r)
      BY <1>1, <1>3, <2>3, <2>4, EndsAreBelow
    <3> QED
      BY <1>2, <2>1, <2>3, <3>1
  <2>5. CASE far < r.lower
    <3>1. l.lower < r.lower /\ ~ApproximatelyEqual(l.lower, r.lower)
      BY <1>1, <2>1, <2>3, <2>5, Narrowing
    <3>2. r.lower \in Below(r)
      BY <1>1, EndsAreBelow
    <3> QED
      BY <1>2, <3>1, <3>2
  <2> QED
    BY <1>1, <2>3, <2>4, <2>5
<1>4. CASE r.upper # {}
  <2>1. PICK u \in r.upper : u \in Below(r)
    BY <1>1, <1>4, EndsAreBelow
  <2>2. l.lower < u /\ ~ApproximatelyEqual(l.lower, u)
    BY <2>1 DEF StrictLessPossible
  <2> QED
    BY <1>2, <2>1, <2>2
<1> QED
  BY <1>3, <1>4

LEMMA PossiblySameBelow ==
  ASSUME NEW l \in Intervals, NEW r \in Intervals, RoomAbove(l, r),
         EquivalentPossible(l, r)
  PROVE  \E x \in Below(l), y \in Below(r) : ApproximatelyEqual(x, y)
<1>1. /\ l.lower \in Nat /\ r.lower \in Nat /\ Top \in Nat
      /\ l.upper = {} => l.lower <= Top
      /\ r.upper = {} => r.lower <= Top
      /\ l.upper = {} \/ r.upper = {} => l.lower <= Top /\ r.lower <= Top
  BY IntervalCases, TopAssumption DEF RoomAbove, Clear
<1>2. l.lower \in Below(l) /\ r.lower \in Below(r)
  BY <1>1, EndsAreBelow
<1>3. (\A u \in l.upper : u \in Below(l)) /\ (\A u \in r.upper : u \in Below(r))
  BY <1>1, EndsAreBelow
<1>4. \A x \in Nat : ApproximatelyEqual(x, x)
  BY EqualsItself
<1>5. ASSUME NEW i \in Intervals, i.upper = {} => i.lower <= Top,
             NEW v \in Nat, i.lower <= v, \A u \in i.upper : v <= u,
             i.upper = {} => v <= Top
      PROVE  v \in Below(i)
  <2>1. CASE i.upper = {}
    BY <1>5, <2>1, EndsAreBelow
  <2>2. ASSUME NEW u \in Nat, i.upper = {u}
        PROVE  v \in Below(i)
    <3>1. Below(i) = i.lower .. u /\ i.lower \in Nat /\ v <= u
      BY <1>5, <2>2, MaxOfOne, IntervalCases DEF Below
    <3> QED
      BY <1>5, <3>1
  <2> QED
    BY <2>1, <2>2, IntervalCases
<1>6. CASE Overlaps(l, r) /\ l.lower <= r.lower
  <2>1. r.lower \in Below(l)
    BY <1>1, <1>5, <1>6 DEF Overlaps
  <2> QED
    BY <1>1, <1>2, <1>4, <2>1
<1>7. CASE Overlaps(l, r) /\ r.lower <= l.lower
  <2>1. l.lower \in Below(r)
    BY <1>1, <1>5, <1>7 DEF Overlaps
  <2> QED
    BY <1>1, <1>2, <1>4, <2>1
<1>8. CASE \E u \in l.upper : u < r.lower /\ ApproximatelyEqual(u, r.lower)
  BY <1>2, <1>3, <1>8
<1>9. CASE \E u \in r.upper : u < l.lower /\ ApproximatelyEqual(u, l.lower)
  <2>1. PICK u \in r.upper : u < l.lower /\ ApproximatelyEqual(u, l.lower)
    BY <1>9
  <2>2. u \in Nat
    BY <2>1, IntervalCases
  <2>3. ApproximatelyEqual(l.lower, u)
    BY <1>1, <2>1, <2>2, EqualInOrder
  <2> QED
    BY <1>2, <1>3, <2>1, <2>3
<1> QED
  BY <1>1, <1>6, <1>7, <1>8, <1>9 DEF EquivalentPossible

(* Nothing is lost by cutting off: the outcomes that two intervals allow    *)
(* are those of their numbers up to Top.                                    *)
LEMMA OutcomesBelow ==
  ASSUME NEW l \in Intervals, NEW r \in Intervals, RoomAbove(l, r), NEW polarity
  PROVE  LocalPossibleOutcomes(l, r, polarity)
           = {OutcomeOf(x, y, polarity) : x \in Below(l), y \in Below(r)}
<1> DEFINE L == LocalPossibleOutcomes(l, r, polarity)
           B == {OutcomeOf(x, y, polarity) : x \in Below(l), y \in Below(r)}
<1>1. /\ Below(l) \subseteq ValuesOf(l) /\ \A x \in Below(l) : x \in Nat
      /\ Below(r) \subseteq ValuesOf(r) /\ \A y \in Below(r) : y \in Nat
  BY BelowIsPart, IntervalCases
<1>2. B \subseteq L
  BY <1>1, LocalOutcomesSharp
<1>3. RoomAbove(r, l)
  BY DEF RoomAbove
<1>4. EquivalentPossible(l, r) => "Equivalent" \in B
  BY PossiblySameBelow DEF OutcomeOf
<1>5. \A x, y \in Nat : ApproximatelyEqual(x, y) <=> ApproximatelyEqual(y, x)
  BY EqualInOrder
<1>6. StrictLessPossible(l.lower, r.upper) =>
        \E x \in Below(l), y \in Below(r) : x < y /\ ~ApproximatelyEqual(x, y)
  BY StrictlyLessBelow
<1>7. StrictLessPossible(r.lower, l.upper) =>
        \E x \in Below(l), y \in Below(r) : y < x /\ ~ApproximatelyEqual(x, y)
  BY <1>1, <1>3, <1>5, StrictlyLessBelow
<1>8. ASSUME polarity = "lower"
      PROVE  L \subseteq B
  <2>1. StrictLessPossible(r.lower, l.upper) => "RightBetter" \in B
    BY <1>1, <1>7, <1>8 DEF OutcomeOf
  <2>2. StrictLessPossible(l.lower, r.upper) => "LeftBetter" \in B
    BY <1>1, <1>6, <1>8 DEF OutcomeOf
  <2> HIDE DEF B
  <2> QED
    BY <1>4, <1>8, <2>1, <2>2 DEF LocalPossibleOutcomes
<1>9. ASSUME polarity # "lower"
      PROVE  L \subseteq B
  <2>1. StrictLessPossible(l.lower, r.upper) => "RightBetter" \in B
    BY <1>1, <1>6, <1>9 DEF OutcomeOf
  <2>2. StrictLessPossible(r.lower, l.upper) => "LeftBetter" \in B
    BY <1>1, <1>7, <1>9 DEF OutcomeOf
  <2> HIDE DEF B
  <2> QED
    BY <1>4, <1>9, <2>1, <2>2 DEF LocalPossibleOutcomes
<1> QED
  BY <1>2, <1>8, <1>9

-----------------------------------------------------------------------------

(* A profile with its six signals, each of them with no interval or one:    *)
(* an observed number, a share of the whole that is not known below a       *)
(* number, or, for clones, a number that is known to be too small.          *)
Evidence(s, i) ==
  /\ Given(s.value)
  /\ s.status = "Observed" =>
       \E v \in Nat : s.value = {v} /\ IntervalEvidence(s) = {Interval(v, {v})}
  /\ \A a \in IntervalEvidence(s) :
       /\ a \in Intervals /\ IntervalEvidence(s) = {a}
       /\ i = 6 => Clear(a.lower)
       /\ a.upper = {} => i = 6

Registered(p) ==
  /\ DOMAIN p.signals = 1..6
  /\ \A i \in 1..6 :
       /\ \A field \in {"id", "family", "polarity", "analyzer", "projection"} :
            p.signals[i][field] = SignalContracts[i][field]
       /\ Evidence(p.signals[i], i)

LEMMA IdsDiffer ==
  ASSUME NEW i \in 1..6, NEW j \in 1..6, SignalContracts[i].id = SignalContracts[j].id
  PROVE  i = j
<1>1. i \in {1, 2, 3, 4, 5, 6} /\ j \in {1, 2, 3, 4, 5, 6}
  OBVIOUS
<1>2. /\ SignalContracts[1].id = "cognitive" /\ SignalContracts[2].id = "symbol-working-set"
      /\ SignalContracts[3].id = "shallow" /\ SignalContracts[4].id = "pure"
      /\ SignalContracts[5].id = "mutable-range" /\ SignalContracts[6].id = "clone-density"
  BY ContractLines DEF Row, CloneDensity, SymbolWorkingSet
<1> QED
  BY <1>1, <1>2

LEMMA IntervalIs ==
  ASSUME NEW v \in Nat, NEW u \in {{}} \cup {{w} : w \in Nat}, \A w \in u : v <= w
  PROVE  /\ Interval(v, u) \in Intervals
         /\ Interval(v, u).lower = v /\ Interval(v, u).upper = u
<1> DEFINE i == Interval(v, u)
<1>1. i.lower = v /\ i.upper = u
  BY DEF Interval
<1>2. i \in {Interval(lower, upper) : lower \in Nat, upper \in {{}} \cup {{w} : w \in Nat}}
  OBVIOUS
<1> HIDE DEF i
<1>3. i \in Intervals
  BY <1>1, <1>2 DEF Intervals
<1> QED
  BY <1>1, <1>3 DEF i

LEMMA ReadingEvidence ==
  ASSUME NEW s, NEW i \in 1..6, s.id = SignalContracts[i].id, Given(s.value),
         s.status \in {"Observed", "Censored", "InsufficientCoverage"} => s.value # {},
         i = 6 => \A v \in s.value : Clear(v)
  PROVE  Evidence(s, i)
<1> DEFINE usable == {v \in s.value : v >= 0}
<1>1. usable = s.value
  BY DEF Given
<1>2. One \in Nat
  BY OneAssumption
<1>3. s.id = CloneDensity => i = 6
  <2>1. SignalContracts[6].id = CloneDensity /\ 6 \in 1..6
    BY ContractLines DEF Row
  <2> QED
    BY <2>1, IdsDiffer
<1>4. /\ s.status = "Observed" =>
           IntervalEvidence(s) = {Interval(v, {v}) : v \in usable}
      /\ s.status # "Observed" =>
           \/ IntervalEvidence(s) = {}
           \/ IntervalEvidence(s) = {Interval(v, {}) : v \in usable} /\ i = 6
           \/ IntervalEvidence(s) = {Interval(v, {One}) : v \in {w \in usable : w <= One}}
  BY <1>3 DEF IntervalEvidence
<1> HIDE DEF usable
<1>5. ASSUME NEW v \in Nat
      PROVE  /\ Interval(v, {v}) \in Intervals /\ Interval(v, {}) \in Intervals
             /\ v <= One => Interval(v, {One}) \in Intervals
             /\ Interval(v, {v}).lower = v /\ Interval(v, {v}).upper # {}
             /\ Interval(v, {}).lower = v
             /\ v <= One => Interval(v, {One}).lower = v /\ Interval(v, {One}).upper # {}
  <2>1. /\ {v} \in {{}} \cup {{w} : w \in Nat} /\ {One} \in {{}} \cup {{w} : w \in Nat}
        /\ {} \in {{}} \cup {{w} : w \in Nat}
    BY <1>2
  <2> QED
    BY <2>1, IntervalIs
<1>8. CASE s.value = {}
  <2>1. IntervalEvidence(s) = {} /\ s.status # "Observed"
    BY <1>1, <1>4, <1>8
  <2> QED
    BY <2>1 DEF Evidence
<1>9. ASSUME NEW v \in s.value
      PROVE  Evidence(s, i)
  <2>1. v \in Nat /\ usable = {v} /\ s.value = {v}
    BY <1>1 DEF Given
  <2>2. i = 6 => Clear(v)
    OBVIOUS
  <2>3. CASE s.status = "Observed"
    <3>1. IntervalEvidence(s) = {Interval(v, {v})}
      BY <1>4, <2>1, <2>3
    <3>2. /\ Interval(v, {v}) \in Intervals
          /\ Interval(v, {v}).lower = v /\ Interval(v, {v}).upper # {}
      BY <1>5, <2>1
    <3> QED
      BY <2>1, <2>2, <2>3, <3>1, <3>2 DEF Evidence
  <2>4. CASE s.status # "Observed"
    <3>1. CASE IntervalEvidence(s) = {}
      BY <2>4, <3>1 DEF Evidence
    <3>2. CASE IntervalEvidence(s) = {Interval(w, {}) : w \in usable} /\ i = 6
      <4>1. IntervalEvidence(s) = {Interval(v, {})}
        BY <2>1, <3>2
      <4> QED
        BY <1>5, <2>1, <2>2, <2>4, <3>2, <4>1 DEF Evidence
    <3>3. CASE IntervalEvidence(s) = {Interval(w, {One}) : w \in {x \in usable : x <= One}}
      <4>1. v <= One => IntervalEvidence(s) = {Interval(v, {One})}
        BY <2>1, <3>3
      <4>2. ~(v <= One) => IntervalEvidence(s) = {}
        BY <2>1, <3>3
      <4>3. CASE v <= One
        BY <1>5, <2>1, <2>2, <2>4, <4>1, <4>3 DEF Evidence
      <4>4. CASE ~(v <= One)
        BY <2>4, <4>2, <4>4 DEF Evidence
      <4> QED
        BY <4>3, <4>4
    <3> QED
      BY <1>4, <2>4, <3>1, <3>2, <3>3
  <2> QED
    BY <2>3, <2>4
<1> QED
  BY <1>8, <1>9

LEMMA MadeIsRegistered ==
  ASSUME NEW p, Made(p)
  PROVE  Registered(p)
<1>1. PICK pair \in ProfilePairs, k \in 1..2 : p = ProfileOf(pair[k])
  BY DEF Made
<1> DEFINE reports == pair[k].reports
           config == pair[k].config
<1>2. ValidReports(reports)
  BY ProfilesAssumption
<1>3. p.signals = Project(reports, config)
  BY <1>1 DEF ProfileOf, Profile
<1>4. \A v \in Quotient(reports.numbers[CloneDensity].numerator,
                        reports.numbers[CloneDensity].denominator) : Clear(v)
  BY TopAssumption DEF Clear
<1> HIDE DEF reports, config
<1>5. ASSUME NEW i \in 1..6
      PROVE  /\ \A field \in {"id", "family", "polarity", "analyzer", "projection"} :
                  p.signals[i][field] = SignalContracts[i][field]
             /\ Evidence(p.signals[i], i)
  <2> DEFINE s == p.signals[i]
             c == SignalContracts[i]
             r == ReadingOf(reports, config, i)
  <2>1. ValidSignalContract(s, c)
    BY <1>2, <1>3, SignalsSound
  <2>2. \A field \in {"id", "family", "polarity", "analyzer", "projection"} :
          s[field] = c[field]
    BY <2>1 DEF ValidSignalContract
  <2>3. s.value = r.value /\ s.status = r.status /\ s.id = c.id
    <3>1. s = SignalOf(c, r)
      BY <1>3, ProjectLines
    <3> HIDE DEF s, c, r
    <3> QED
      BY <3>1 DEF SignalOf, Signal
  <2>4. \/ Reading(r, c.id, c.bounded)
        \/ r = Failed
    BY <1>2, ReadingsSound
  <2>5. Given(r.value)
    BY <2>4, FailedReading DEF Reading
  <2>6. r.status \in {"Observed", "Censored", "InsufficientCoverage"} => r.value # {}
    BY <2>4, FailedReading DEF Reading
  <2>7. ASSUME i = 6
        PROVE  \A v \in r.value : Clear(v)
    <3>1. r = Failed \/ r = CloneDensityOf(reports.numbers[CloneDensity], config)
      BY <2>7 DEF ReadingOf
    <3>2. CloneDensityOf(reports.numbers[CloneDensity], config).value
            = Quotient(reports.numbers[CloneDensity].numerator,
                       reports.numbers[CloneDensity].denominator)
      BY DEF CloneDensityOf
    <3>3. Failed.value = {}
      BY DEF Failed
    <3> HIDE DEF r
    <3> QED
      BY <1>4, <3>1, <3>2, <3>3
  <2> HIDE DEF r, s, c
  <2>8. Evidence(s, i)
    BY <2>3, <2>5, <2>6, <2>7, ReadingEvidence DEF c
  <2> QED
    BY <2>2, <2>8 DEF s, c
<1>6. DOMAIN p.signals = 1..6
  BY <1>3, ProjectLines
<1> QED
  BY <1>5, <1>6 DEF Registered

PossibleAt(left, right, i) == PossibleOutcomes(left.signals[i], right.signals[i])

LEMMA IntervalsBySignal ==
  ASSUME NEW left, NEW right, Registered(left), Registered(right)
  PROVE  /\ DOMAIN CompareSignalIntervals(left, right) = 1..6
         /\ \A i \in 1..6 :
              CompareSignalIntervals(left, right)[i] = PossibleAt(left, right, i)
<1> DEFINE Unique(p, id) ==
             {k \in DOMAIN p.signals : {j \in DOMAIN p.signals : p.signals[j].id = id} = {k}}
<1>1. ASSUME NEW p, Registered(p), NEW i \in 1..6
      PROVE  Unique(p, SignalIds[i]) = {i}
  <2>1. DOMAIN p.signals = 1..6 /\ \A j \in 1..6 : p.signals[j].id = SignalContracts[j].id
    BY <1>1 DEF Registered
  <2>2. SignalIds[i] = SignalContracts[i].id
    BY ContractLines
  <2>3. {j \in DOMAIN p.signals : p.signals[j].id = SignalIds[i]} = {i}
    BY <2>1, <2>2, IdsDiffer
  <2> QED
    BY <2>1, <2>3
<1>2. CompareSignalIntervals(left, right) =
        [i \in DOMAIN SignalIds |->
           UNION {PossibleOutcomes(left.signals[j], right.signals[k]) :
                    j \in Unique(left, SignalIds[i]), k \in Unique(right, SignalIds[i])}]
  BY DEF CompareSignalIntervals
<1> HIDE DEF Unique
<1>3. DOMAIN SignalIds = 1..6
  BY ContractLines
<1>4. DOMAIN CompareSignalIntervals(left, right) = 1..6
  BY <1>2, <1>3
<1>5. ASSUME NEW i \in 1..6
      PROVE  CompareSignalIntervals(left, right)[i] = PossibleAt(left, right, i)
  <2>1. CompareSignalIntervals(left, right)[i] =
          UNION {PossibleOutcomes(left.signals[j], right.signals[k]) :
                   j \in Unique(left, SignalIds[i]), k \in Unique(right, SignalIds[i])}
    BY <1>2, <1>3
  <2>2. Unique(left, SignalIds[i]) = {i} /\ Unique(right, SignalIds[i]) = {i}
    BY <1>1
  <2>3. CompareSignalIntervals(left, right)[i] =
          UNION {PossibleOutcomes(left.signals[j], right.signals[k]) : j \in {i}, k \in {i}}
    BY <2>1, <2>2
  <2> QED
    BY <2>3 DEF PossibleAt
<1> QED
  BY <1>4, <1>5

-----------------------------------------------------------------------------

(* The outcomes of one signal, from its two intervals.                      *)
LEMMA PossibleFromIntervals ==
  ASSUME NEW left, NEW right, Registered(left), Registered(right), NEW i \in 1..6
  PROVE  /\ PossibleAt(left, right, i) \subseteq Directions
         /\ PossibleAt(left, right, i) # {} =>
              \E a \in IntervalEvidence(left.signals[i]), b \in IntervalEvidence(right.signals[i]) :
                PossibleAt(left, right, i)
                  = LocalPossibleOutcomes(a, b, left.signals[i].polarity)
         /\ \A a \in IntervalEvidence(left.signals[i]), b \in IntervalEvidence(right.signals[i]) :
              PossibleAt(left, right, i)
                = LocalPossibleOutcomes(a, b, left.signals[i].polarity)
<1> DEFINE l == left.signals[i]
           r == right.signals[i]
<1>1. Matching(l, r) /\ l.id = r.id
  BY DEF Registered, Matching
<1>2. /\ \A a \in IntervalEvidence(l) : IntervalEvidence(l) = {a}
      /\ \A b \in IntervalEvidence(r) : IntervalEvidence(r) = {b}
  BY DEF Registered, Evidence
<1>3. {x \in IntervalEvidence(l) : Matching(l, r) /\ l.id = r.id} = IntervalEvidence(l)
  BY <1>1
<1>4. PossibleAt(left, right, i) =
        UNION {LocalPossibleOutcomes(a, b, l.polarity) :
                 a \in IntervalEvidence(l), b \in IntervalEvidence(r)}
  BY <1>3 DEF PossibleAt, PossibleOutcomes
<1> HIDE DEF l, r
<1>5. ASSUME NEW a \in IntervalEvidence(l), NEW b \in IntervalEvidence(r)
      PROVE  PossibleAt(left, right, i) = LocalPossibleOutcomes(a, b, l.polarity)
  <2>1. PossibleAt(left, right, i) =
          UNION {LocalPossibleOutcomes(x, y, l.polarity) : x \in {a}, y \in {b}}
    BY <1>2, <1>4
  <2> QED
    BY <2>1
<1>6. IntervalEvidence(l) = {} \/ IntervalEvidence(r) = {} => PossibleAt(left, right, i) = {}
  BY <1>4
<1>7. \A a, b : LocalPossibleOutcomes(a, b, l.polarity) \subseteq Directions
  BY DEF LocalPossibleOutcomes, Directions
<1>8. PossibleAt(left, right, i) # {} =>
        \E a \in IntervalEvidence(l), b \in IntervalEvidence(r) :
          PossibleAt(left, right, i) = LocalPossibleOutcomes(a, b, l.polarity)
  BY <1>5, <1>6
<1>9. PossibleAt(left, right, i) \subseteq Directions
  BY <1>7, <1>8
<1> QED
  BY <1>5, <1>8, <1>9 DEF l, r

LEMMA RoomForEvidence ==
  ASSUME NEW left, NEW right, Registered(left), Registered(right), NEW i \in 1..6,
         NEW a \in IntervalEvidence(left.signals[i]), NEW b \in IntervalEvidence(right.signals[i])
  PROVE  a \in Intervals /\ b \in Intervals /\ RoomAbove(a, b)
<1>1. Evidence(left.signals[i], i) /\ Evidence(right.signals[i], i)
  BY DEF Registered
<1>2. /\ a \in Intervals /\ (i = 6 => Clear(a.lower)) /\ (a.upper = {} => i = 6)
      /\ b \in Intervals /\ (i = 6 => Clear(b.lower)) /\ (b.upper = {} => i = 6)
  BY <1>1 DEF Evidence
<1> QED
  BY <1>2 DEF RoomAbove

LEMMA AttainableIsBelow ==
  ASSUME NEW p, Registered(p), NEW i \in 1..6, NEW a \in IntervalEvidence(p.signals[i])
  PROVE  Attainable(p.signals[i], Top) = Below(a)
<1>1. IntervalEvidence(p.signals[i]) = {a}
  BY DEF Registered, Evidence
<1>2. Attainable(p.signals[i], Top) =
        UNION {x.lower .. (IF x.upper = {} THEN Top ELSE Max(x.upper)) : x \in {a}}
  BY <1>1 DEF Attainable
<1> QED
  BY <1>2 DEF Below

(* What is found possible of a signal is what values in its intervals have. *)
(* The outcomes the values of a signal attain.                              *)
AttainedAt(left, right, i) ==
  {OutcomeOf(l, r, left.signals[i].polarity) :
     l \in Attainable(left.signals[i], Top), r \in Attainable(right.signals[i], Top)}

LEMMA PossibleIsAttainable ==
  ASSUME NEW left, NEW right, Registered(left), Registered(right), NEW i \in 1..6,
         PossibleAt(left, right, i) # {}
  PROVE  PossibleAt(left, right, i) = AttainedAt(left, right, i)
<1>1. PICK a \in IntervalEvidence(left.signals[i]), b \in IntervalEvidence(right.signals[i]) :
        PossibleAt(left, right, i) = LocalPossibleOutcomes(a, b, left.signals[i].polarity)
  BY PossibleFromIntervals
<1>2. a \in Intervals /\ b \in Intervals /\ RoomAbove(a, b)
  BY RoomForEvidence
<1>3. /\ Attainable(left.signals[i], Top) = Below(a)
      /\ Attainable(right.signals[i], Top) = Below(b)
  BY AttainableIsBelow
<1> QED
  BY <1>1, <1>2, <1>3, OutcomesBelow DEF AttainedAt

-----------------------------------------------------------------------------
(* The directions seen, a signal at a time.                                 *)

DirectionsSeen == [right : BOOLEAN, left : BOOLEAN]

(* What a choice of an outcome for each signal shows in the first k of them.*)
Shows(st, f, k) ==
  /\ st \in DirectionsSeen
  /\ st.right <=> \E i \in 1..k : f[i] = "RightBetter"
  /\ st.left <=> \E i \in 1..k : f[i] = "LeftBetter"

ChoicesOf(possible) ==
  {f \in [1..6 -> Directions] : \A i \in 1..6 : f[i] \in possible[i]}

SeenAfter(possible, k, states) ==
  \A st : st \in states <=> \E f \in ChoicesOf(possible) : Shows(st, f, k)

LEMMA ExtendOne ==
  ASSUME NEW st \in DirectionsSeen, NEW outcomes, NEW next
  PROVE  next \in Extend({st}, outcomes) <=>
           \E o \in outcomes :
             /\ next \in DirectionsSeen
             /\ next.right <=> st.right \/ o = "RightBetter"
             /\ next.left <=> st.left \/ o = "LeftBetter"
<1> DEFINE After(s, o) ==
             CASE o = "RightBetter" -> [s EXCEPT !.right = TRUE]
               [] o = "LeftBetter"  -> [s EXCEPT !.left = TRUE]
               [] OTHER             -> s
<1>1. Extend({st}, outcomes) = {After(s, o) : s \in {st}, o \in outcomes}
  BY DEF Extend
<1>2. \A o : /\ After(st, o) \in DirectionsSeen
             /\ After(st, o).right <=> st.right \/ o = "RightBetter"
             /\ After(st, o).left <=> st.left \/ o = "LeftBetter"
  BY DEF DirectionsSeen
<1>3. \A s, t \in DirectionsSeen :
        (s.right <=> t.right) /\ (s.left <=> t.left) => s = t
  BY DEF DirectionsSeen
<1> HIDE DEF After
<1>4. next \in Extend({st}, outcomes) <=> \E o \in outcomes : next = After(st, o)
  BY <1>1
<1> QED
  BY <1>2, <1>3, <1>4

LEMMA ExtendAll ==
  ASSUME NEW states, NEW outcomes, NEW next
  PROVE  next \in Extend(states, outcomes) <=>
           \E st \in states : next \in Extend({st}, outcomes)
  BY DEF Extend

LEMMA ExtendShows ==
  ASSUME NEW possible, \A i \in 1..6 : possible[i] \subseteq Directions,
         NEW k \in 0..5, NEW states, SeenAfter(possible, k, states)
  PROVE  SeenAfter(possible, k + 1, Extend(states, possible[k + 1]))
<1>1. k + 1 \in 1..6 /\ \A i : i \in 1..(k + 1) <=> i \in 1..k \/ i = k + 1
  OBVIOUS
<1>2. \A st \in states : st \in DirectionsSeen
  BY DEF SeenAfter, Shows
<1>3. ASSUME NEW next, next \in Extend(states, possible[k + 1])
      PROVE  \E f \in ChoicesOf(possible) : Shows(next, f, k + 1)
  <2>1. PICK st \in states : next \in Extend({st}, possible[k + 1])
    BY <1>3, ExtendAll
  <2>2. PICK o \in possible[k + 1] :
          /\ next \in DirectionsSeen
          /\ next.right <=> st.right \/ o = "RightBetter"
          /\ next.left <=> st.left \/ o = "LeftBetter"
    BY <1>2, <2>1, ExtendOne
  <2>3. PICK f \in ChoicesOf(possible) : Shows(st, f, k)
    BY <2>1 DEF SeenAfter
  <2> DEFINE g == [f EXCEPT ![k + 1] = o]
  <2>4. f \in [1..6 -> Directions] /\ \A i \in 1..6 : f[i] \in possible[i]
    BY DEF ChoicesOf
  <2>5. o \in Directions
    BY <1>1, <2>2
  <2>6. /\ g \in [1..6 -> Directions] /\ g[k + 1] = o
        /\ \A i \in 1..6 : i # k + 1 => g[i] = f[i]
    BY <1>1, <2>4, <2>5
  <2>7. \A i \in 1..k : i \in 1..6 /\ i # k + 1
    OBVIOUS
  <2> HIDE DEF g
  <2>8. g \in ChoicesOf(possible)
    BY <2>2, <2>4, <2>6 DEF ChoicesOf
  <2>9. \A i \in 1..k : g[i] = f[i]
    BY <2>6, <2>7
  <2>10. Shows(next, g, k + 1)
    BY <1>1, <2>2, <2>3, <2>6, <2>9 DEF Shows
  <2> QED
    BY <2>8, <2>10
<1>4. ASSUME NEW next, NEW f \in ChoicesOf(possible), Shows(next, f, k + 1)
      PROVE  next \in Extend(states, possible[k + 1])
  <2>1. PICK st : Shows(st, f, k)
    <3> DEFINE st == [right |-> \E i \in 1..k : f[i] = "RightBetter",
                      left |-> \E i \in 1..k : f[i] = "LeftBetter"]
    <3>1. /\ st \in DirectionsSeen
          /\ st.right <=> \E i \in 1..k : f[i] = "RightBetter"
          /\ st.left <=> \E i \in 1..k : f[i] = "LeftBetter"
      BY DEF DirectionsSeen
    <3> QED
      BY <3>1 DEF Shows
  <2>2. st \in states
    BY <2>1 DEF SeenAfter
  <2>3. f[k + 1] \in possible[k + 1]
    BY <1>1 DEF ChoicesOf
  <2>4. /\ next \in DirectionsSeen
        /\ next.right <=> st.right \/ f[k + 1] = "RightBetter"
        /\ next.left <=> st.left \/ f[k + 1] = "LeftBetter"
    BY <1>1, <1>4, <2>1 DEF Shows
  <2>5. next \in Extend({st}, possible[k + 1])
    BY <1>2, <2>2, <2>3, <2>4, ExtendOne
  <2> QED
    BY <2>2, <2>5, ExtendAll
<1> QED
  BY <1>3, <1>4 DEF SeenAfter

-----------------------------------------------------------------------------

None == [right |-> FALSE, left |-> FALSE]

LEMMA NothingSeen ==
  ASSUME NEW possible,
         \A i \in 1..6 : possible[i] \subseteq Directions /\ possible[i] # {}
  PROVE  SeenAfter(possible, 0, {None})
<1> DEFINE f == [i \in 1..6 |-> CHOOSE o \in possible[i] : TRUE]
<1>1. \A i \in 1..6 : f[i] \in possible[i] /\ f[i] \in Directions
  OBVIOUS
<1>2. f \in [1..6 -> Directions]
  BY <1>1
<1> HIDE DEF f
<1>3. f \in ChoicesOf(possible)
  BY <1>1, <1>2 DEF ChoicesOf
<1>4. \A i : i \notin 1..0
  OBVIOUS
<1>5. None \in DirectionsSeen /\ None.right = FALSE /\ None.left = FALSE
  BY DEF None, DirectionsSeen
<1>6. \A st \in DirectionsSeen : ~st.right /\ ~st.left => st = None
  BY DEF None, DirectionsSeen
<1>7. \A h : Shows(None, h, 0)
  BY <1>4, <1>5 DEF Shows
<1>8. \A st, h : Shows(st, h, 0) => st = None
  BY <1>4, <1>6 DEF Shows
<1> QED
  BY <1>3, <1>7, <1>8 DEF SeenAfter

LEMMA MaxOfFirst ==
  ASSUME NEW k \in Nat, k > 0
  PROVE  Max(1..k) = k /\ (1..k) \ {k} = 1..(k - 1)
<1>1. Max(1..k) \in 1..k /\ \A x \in 1..k : Max(1..k) >= x
  <2>1. k \in 1..k /\ \A x \in 1..k : k >= x
    OBVIOUS
  <2> QED
    BY <2>1 DEF Max
<1>2. Max(1..k) = k
  BY <1>1
<1> QED
  BY <1>2

LEMMA FoldedDirections ==
  ASSUME NEW possible, DOMAIN possible = 1..6,
         \A i \in 1..6 : possible[i] \subseteq Directions /\ possible[i] # {}
  PROVE  SeenAfter(possible, 6, FoldLeft(Extend, {None}, possible))
<1> DEFINE S == DOMAIN possible
           T == SUBSET DirectionsSeen
           c == [s \in SUBSET S |-> Max(s)]
           F == [x \in S |-> [t \in T |-> Extend(t, possible[x])]]
           Unrolled(g, s) == IF s = {} THEN {None}
                         ELSE Extend(g[s \ {Max(s)}], possible[Max(s)])
           g == CHOOSE g : g = [s \in SUBSET S |-> Unrolled(g, s)]
<1>1. S = 1..6 /\ IsFiniteSet(S) /\ S \in SUBSET Nat
  <2>1. IsFiniteSet(1..6)
    <3> DEFINE n == 6
    <3>1. n \in Nat
      OBVIOUS
    <3> HIDE DEF n
    <3>2. IsFiniteSet(1..n)
      BY <3>1, FS_Interval
    <3> QED
      BY <3>2 DEF n
  <2> QED
    BY <2>1
<1>2. \A s \in SUBSET S : s # {} => Max(s) \in s
  <2> SUFFICES ASSUME NEW s \in SUBSET S, s # {}
               PROVE  Max(s) \in s
    OBVIOUS
  <2>1. IsFiniteSet(s) /\ s \subseteq Int
    BY <1>1, FS_Subset
  <2> QED
    BY <2>1, GreatestIsIn
<1>3. {None} \in T
  BY DEF None, DirectionsSeen
<1>4. \A x \in S : \A t \in T : Extend(t, possible[x]) \in T
  <2> SUFFICES ASSUME NEW x \in S, NEW t \in T, NEW next \in Extend(t, possible[x])
               PROVE  next \in DirectionsSeen
    OBVIOUS
  <2>1. PICK st \in t : next \in Extend({st}, possible[x])
    BY ExtendAll
  <2> QED
    BY <2>1, ExtendOne
<1>5. \E h \in [SUBSET S -> T] : Unfolds(h, S, c, {None}, F)
  <2>1. Picks(c, S)
    BY <1>2 DEF Picks
  <2>2. StaysIn(F, S, T)
    BY <1>4 DEF StaysIn
  <2>3. IsFiniteSet(S)
    BY <1>1
  <2> HIDE DEF S, T, c, F
  <2> QED
    BY <1>3, <2>1, <2>2, <2>3, FoldExists
<1>6. \E h : h = [s \in SUBSET S |-> Unrolled(h, s)]
  <2>1. PICK h \in [SUBSET S -> T] : Unfolds(h, S, c, {None}, F)
    BY <1>5
  <2>2. ASSUME NEW s \in SUBSET S
        PROVE  h[s] = Unrolled(h, s)
    <3>1. CASE s = {}
      BY <2>1, <3>1 DEF Unfolds
    <3>2. CASE s # {}
      <4>1. c[s] = Max(s) /\ Max(s) \in S /\ h[s \ {Max(s)}] \in T
        BY <1>2, <3>2
      <4>2. F[Max(s)][h[s \ {Max(s)}]] = Extend(h[s \ {Max(s)}], possible[Max(s)])
        BY <4>1
      <4>3. h[s] = F[c[s]][h[s \ {c[s]}]]
        BY <2>1, <3>2 DEF Unfolds
      <4> HIDE DEF c, F
      <4> QED
        BY <3>2, <4>1, <4>2, <4>3
    <3> QED
      BY <3>1, <3>2
  <2> HIDE DEF Unrolled, S, T, F, c
  <2>3. h = [s \in SUBSET S |-> Unrolled(h, s)]
    BY <2>2
  <2> QED
    BY <2>3
<1> HIDE DEF Unrolled
<1>7. g = [s \in SUBSET S |-> Unrolled(g, s)]
  BY <1>6
<1>8. FoldLeft(Extend, {None}, possible) = g[S]
  BY DEF FoldLeft, MapThenFoldSet, g, Unrolled
<1> HIDE DEF g
<1>9. \A s \in SUBSET S : g[s] = IF s = {} THEN {None}
                                ELSE Extend(g[s \ {Max(s)}], possible[Max(s)])
  BY <1>7 DEF Unrolled
<1>10. g[1..0] = {None}
  <2>1. 1..0 = {}
    OBVIOUS
  <2> QED
    BY <1>9, <2>1
<1>11. ASSUME NEW k \in 0..5
       PROVE  g[1..(k + 1)] = Extend(g[1..k], possible[k + 1])
  <2>1. 1..(k + 1) \in SUBSET S /\ 1..(k + 1) # {}
    BY <1>1
  <2>2. Max(1..(k + 1)) = k + 1 /\ (1..(k + 1)) \ {k + 1} = 1..k
    <3>1. k + 1 \in Nat /\ k + 1 > 0 /\ (k + 1) - 1 = k
      OBVIOUS
    <3> QED
      BY <3>1, MaxOfFirst
  <2> QED
    BY <1>9, <2>1, <2>2
<1>12. ASSUME NEW k \in 0..5, SeenAfter(possible, k, g[1..k])
       PROVE  SeenAfter(possible, k + 1, g[1..(k + 1)])
  BY <1>11, <1>12, ExtendShows
<1>13. SeenAfter(possible, 0, g[1..0])
  BY <1>10, NothingSeen
<1>14. SeenAfter(possible, 1, g[1..1])
  BY <1>12, <1>13
<1>15. SeenAfter(possible, 2, g[1..2])
  BY <1>12, <1>14
<1>16. SeenAfter(possible, 3, g[1..3])
  BY <1>12, <1>15
<1>17. SeenAfter(possible, 4, g[1..4])
  BY <1>12, <1>16
<1>18. SeenAfter(possible, 5, g[1..5])
  BY <1>12, <1>17
<1>19. SeenAfter(possible, 6, g[1..6])
  BY <1>12, <1>18
<1> QED
  BY <1>1, <1>8, <1>19

LEMMA DirectionsOrder ==
  ASSUME NEW f \in [1..6 -> Directions], NEW st, Shows(st, f, 6)
  PROVE  OrderOfDirections(st) = PartialOrder(Range(f))
<1>1. /\ "RightBetter" \in Range(f) <=> st.right
      /\ "LeftBetter" \in Range(f) <=> st.left
      /\ Range(f) # {}
  BY DEF Range, Shows
<1>2. st.right \in BOOLEAN /\ st.left \in BOOLEAN
  BY DEF Shows, DirectionsSeen
<1> QED
  BY <1>1, <1>2 DEF OrderOfDirections, PartialOrder

LEMMA ChoiceShows ==
  ASSUME NEW f
  PROVE  \E st : Shows(st, f, 6)
<1> DEFINE st == [right |-> \E i \in 1..6 : f[i] = "RightBetter",
                  left |-> \E i \in 1..6 : f[i] = "LeftBetter"]
<1>1. /\ st \in DirectionsSeen
      /\ st.right <=> \E i \in 1..6 : f[i] = "RightBetter"
      /\ st.left <=> \E i \in 1..6 : f[i] = "LeftBetter"
  BY DEF DirectionsSeen
<1> QED
  BY <1>1 DEF Shows

(* The set of orders is what all choices of outcomes give.                  *)
LEMMA OrdersOfChoices ==
  ASSUME NEW possible, DOMAIN possible = 1..6,
         \A i \in 1..6 : possible[i] \subseteq Directions, NEW registries,
         DeriveSharpOrderSet(possible, registries).complete
  PROVE  DeriveSharpOrderSet(possible, registries).orders
           = {PartialOrder(Range(f)) : f \in ChoicesOf(possible)}
<1> DEFINE answer == DeriveSharpOrderSet(possible, registries)
           states == FoldLeft(Extend, {None}, possible)
<1>1. answer.complete <=> registries /\ \A i \in DOMAIN possible : possible[i] # {}
  BY DEF DeriveSharpOrderSet
<1>2. answer.orders = IF registries /\ \A i \in DOMAIN possible : possible[i] # {}
                      THEN {OrderOfDirections(st) : st \in states} ELSE {}
  BY DEF DeriveSharpOrderSet, None
<1> HIDE DEF answer, states
<1>3. answer.orders = {OrderOfDirections(st) : st \in states}
  BY <1>1, <1>2 DEF answer
<1>4. SeenAfter(possible, 6, states)
  BY <1>1, FoldedDirections DEF answer, states
<1>5. ASSUME NEW st \in states
      PROVE  \E f \in ChoicesOf(possible) : OrderOfDirections(st) = PartialOrder(Range(f))
  <2>1. PICK f \in ChoicesOf(possible) : Shows(st, f, 6)
    BY <1>4 DEF SeenAfter
  <2> QED
    BY <2>1, DirectionsOrder DEF ChoicesOf
<1>6. ASSUME NEW f \in ChoicesOf(possible)
      PROVE  \E st \in states : OrderOfDirections(st) = PartialOrder(Range(f))
  <2>1. PICK st : Shows(st, f, 6)
    BY ChoiceShows
  <2>2. st \in states
    BY <1>4, <2>1 DEF SeenAfter
  <2> QED
    BY <2>1, <2>2, DirectionsOrder DEF ChoicesOf
<1>7. answer.orders = {PartialOrder(Range(f)) : f \in ChoicesOf(possible)}
  BY <1>3, <1>5, <1>6
<1> QED
  BY <1>7 DEF answer

-----------------------------------------------------------------------------

Registries(left, right) == ValidSignalRegistry(left) /\ ValidSignalRegistry(right)

SharpOf(left, right) ==
  DeriveSharpOrderSet(CompareSignalIntervals(left, right), Registries(left, right))

(* The parts of an identified comparison.                                   *)
LEMMA IdentifiedParts ==
  ASSUME NEW left, NEW right
  PROVE  LET answer == CompareIdentified(left, right)
         IN  /\ answer.base = CompareProfiles(left, right)
             /\ answer.sharp = SharpOf(left, right)
             /\ answer.qualified <=>
                  /\ \A field \in {"schema", "config", "analyzers", "pinned"} :
                       answer.base.readiness[field]
                  /\ Registries(left, right) /\ answer.sharp.complete
             /\ answer.qualified_necessary =
                  IF answer.qualified THEN answer.sharp.necessary ELSE {}
  BY DEF CompareIdentified, SharpOf, Registries

LEMMA ChoicesAttained ==
  ASSUME NEW left, NEW right, Registered(left), Registered(right),
         \A i \in 1..6 : PossibleAt(left, right, i) # {}
  PROVE  ChoicesOf(CompareSignalIntervals(left, right))
           = {f \in [1..6 -> Directions] : \A i \in 1..6 : f[i] \in AttainedAt(left, right, i)}
<1>1. ASSUME NEW i \in 1..6
      PROVE  CompareSignalIntervals(left, right)[i] = AttainedAt(left, right, i)
  <2>1. PossibleAt(left, right, i) = AttainedAt(left, right, i)
    BY PossibleIsAttainable
  <2> QED
    BY <2>1, IntervalsBySignal
<1> QED
  BY <1>1 DEF ChoicesOf

LEMMA CompleteMeans ==
  ASSUME NEW left, NEW right, Registered(left), Registered(right)
  PROVE  SharpOf(left, right).complete <=>
           Registries(left, right) /\ \A i \in 1..6 : PossibleAt(left, right, i) # {}
<1> DEFINE possible == CompareSignalIntervals(left, right)
<1>1. SharpOf(left, right).complete <=>
        Registries(left, right) /\ \A i \in DOMAIN possible : possible[i] # {}
  BY DEF SharpOf, DeriveSharpOrderSet
<1> QED
  BY <1>1, IntervalsBySignal

LEMMA SharpOrders ==
  ASSUME NEW left, NEW right, Registered(left), Registered(right),
         SharpOf(left, right).complete
  PROVE  SharpOf(left, right).orders
           = {PartialOrder(Range(f)) : f \in ChoicesOf(CompareSignalIntervals(left, right))}
<1> DEFINE possible == CompareSignalIntervals(left, right)
<1>1. DOMAIN possible = 1..6 /\ \A i \in 1..6 : possible[i] \subseteq Directions
  BY IntervalsBySignal, PossibleFromIntervals
<1> HIDE DEF possible
<1>2. DeriveSharpOrderSet(possible, Registries(left, right)).complete
  BY DEF possible, SharpOf
<1>3. DeriveSharpOrderSet(possible, Registries(left, right)).orders
        = {PartialOrder(Range(f)) : f \in ChoicesOf(possible)}
  BY <1>1, <1>2, OrdersOfChoices
<1> QED
  BY <1>3 DEF possible, SharpOf

LEMMA OrdersAreSharp ==
  ASSUME NEW left, NEW right, Registered(left), Registered(right)
  PROVE  SharpSet(left, right, Top)
<1> DEFINE choices ==
             {f \in [1..6 -> Directions] : \A i \in 1..6 : f[i] \in AttainedAt(left, right, i)}
<1>1. ASSUME SharpOf(left, right).complete
      PROVE  SharpOf(left, right).orders = {PartialOrder(Range(f)) : f \in choices}
  <2>1. \A i \in 1..6 : PossibleAt(left, right, i) # {}
    BY <1>1, CompleteMeans
  <2>2. choices = ChoicesOf(CompareSignalIntervals(left, right))
    BY <2>1, ChoicesAttained
  <2> HIDE DEF choices
  <2> QED
    BY <1>1, <2>2, SharpOrders
<1>2. SharpSet(left, right, Top) <=>
        (SharpOf(left, right).complete =>
           SharpOf(left, right).orders = {PartialOrder(Range(f)) : f \in choices})
  BY IdentifiedParts DEF SharpSet, AttainedAt
<1> HIDE DEF choices
<1> QED
  BY <1>1, <1>2
-----------------------------------------------------------------------------
(* An outcome seen from the other side.                                     *)
Turned(o) == CASE o = "RightBetter" -> "LeftBetter"
               [] o = "LeftBetter"  -> "RightBetter"
               [] OTHER             -> o

LEMMA TurnedTwice ==
  ASSUME NEW o
  PROVE  /\ Turned(Turned(o)) = o
         /\ Turned(o) \in Directions <=> o \in Directions
         /\ Turned(o) = "RightBetter" <=> o = "LeftBetter"
         /\ Turned(o) = "LeftBetter" <=> o = "RightBetter"
  BY DEF Turned, Directions

LEMMA OrderMirrored ==
  ASSUME NEW there, NEW back,
         "RightBetter" \in back <=> "LeftBetter" \in there,
         "LeftBetter" \in back <=> "RightBetter" \in there,
         back = {} <=> there = {}
  PROVE  PartialOrder(back) = Mirror(PartialOrder(there))
  BY DEF PartialOrder, Mirror

LEMMA PossibleMirrored ==
  ASSUME NEW left, NEW right, Registered(left), Registered(right), NEW i \in 1..6,
         NEW o
  PROVE  o \in PossibleAt(right, left, i) <=> Turned(o) \in PossibleAt(left, right, i)
<1> DEFINE l == left.signals[i]
           r == right.signals[i]
<1>1. l.polarity = r.polarity
  BY DEF Registered
<1>2. CASE \E a \in IntervalEvidence(l), b \in IntervalEvidence(r) : TRUE
  <2>1. PICK a \in IntervalEvidence(l), b \in IntervalEvidence(r) : TRUE
    BY <1>2
  <2>2. PossibleAt(left, right, i) = LocalPossibleOutcomes(a, b, l.polarity)
    BY PossibleFromIntervals
  <2>3. PossibleAt(right, left, i) = LocalPossibleOutcomes(b, a, l.polarity)
    <3>1. PossibleAt(right, left, i) = LocalPossibleOutcomes(b, a, r.polarity)
      BY <2>1, PossibleFromIntervals
    <3> QED
      BY <1>1, <3>1
  <2>4. EquivalentPossible(a, b) <=> EquivalentPossible(b, a)
    BY DEF EquivalentPossible, Overlaps
  <2> HIDE DEF l, r
  <2> QED
    BY <2>2, <2>3, <2>4 DEF LocalPossibleOutcomes, Turned
<1>3. CASE ~ \E a \in IntervalEvidence(l), b \in IntervalEvidence(r) : TRUE
  BY <1>3, PossibleFromIntervals
<1> QED
  BY <1>2, <1>3

LEMMA CompleteMirrored ==
  ASSUME NEW left, NEW right, Registered(left), Registered(right)
  PROVE  SharpOf(right, left).complete <=> SharpOf(left, right).complete
<1>1. \A i \in 1..6 : PossibleAt(right, left, i) # {} <=> PossibleAt(left, right, i) # {}
  <2> TAKE i \in 1..6
  <2>1. \A o : o \in PossibleAt(right, left, i) => Turned(o) \in PossibleAt(left, right, i)
    BY PossibleMirrored
  <2>2. \A o : o \in PossibleAt(left, right, i) => Turned(o) \in PossibleAt(right, left, i)
    BY PossibleMirrored
  <2> QED
    BY <2>1, <2>2
<1>2. Registries(left, right) <=> Registries(right, left)
  BY DEF Registries
<1> QED
  BY <1>1, <1>2, CompleteMeans

LEMMA ChoiceMirrored ==
  ASSUME NEW left, NEW right, Registered(left), Registered(right),
         NEW f \in ChoicesOf(CompareSignalIntervals(left, right))
  PROVE  \E h \in ChoicesOf(CompareSignalIntervals(right, left)) :
           PartialOrder(Range(h)) = Mirror(PartialOrder(Range(f)))
<1> DEFINE h == [i \in 1..6 |-> Turned(f[i])]
<1>1. f \in [1..6 -> Directions]
        /\ \A i \in 1..6 : f[i] \in PossibleAt(left, right, i)
  BY IntervalsBySignal DEF ChoicesOf
<1>2. h \in [1..6 -> Directions]
  BY <1>1, TurnedTwice
<1>3. ASSUME NEW i \in 1..6
      PROVE  h[i] \in CompareSignalIntervals(right, left)[i]
  <2>1. h[i] = Turned(f[i]) /\ Turned(Turned(f[i])) = f[i]
    BY TurnedTwice
  <2>2. h[i] \in PossibleAt(right, left, i)
    BY <1>1, <2>1, PossibleMirrored
  <2> QED
    BY <2>2, IntervalsBySignal
<1>4. \A i \in 1..6 : /\ h[i] = "RightBetter" <=> f[i] = "LeftBetter"
                      /\ h[i] = "LeftBetter" <=> f[i] = "RightBetter"
  BY TurnedTwice
<1> HIDE DEF h
<1>5. /\ "RightBetter" \in Range(h) <=> "LeftBetter" \in Range(f)
      /\ "LeftBetter" \in Range(h) <=> "RightBetter" \in Range(f)
      /\ Range(h) # {} /\ Range(f) # {}
  BY <1>1, <1>2, <1>4 DEF Range
<1>6. PartialOrder(Range(h)) = Mirror(PartialOrder(Range(f)))
  BY <1>5, OrderMirrored
<1>7. h \in ChoicesOf(CompareSignalIntervals(right, left))
  BY <1>2, <1>3 DEF ChoicesOf
<1> QED
  BY <1>6, <1>7

LEMMA MirrorTwice ==
  ASSUME NEW o
  PROVE  /\ Mirror(Mirror(o)) = o
         /\ Mirror(o) \in {"RightDominates", "Equivalent"}
              <=> o \in {"LeftDominates", "Equivalent"}
  BY DEF Mirror

(* All the orders one side may find, seen from the other.                   *)
LEMMA OrdersMirrored ==
  ASSUME NEW left, NEW right, Registered(left), Registered(right), NEW o
  PROVE  o \in SharpOf(right, left).orders <=> Mirror(o) \in SharpOf(left, right).orders
<1>1. ASSUME NEW l, NEW r, Registered(l), Registered(r), NEW p \in SharpOf(l, r).orders
      PROVE  Mirror(p) \in SharpOf(r, l).orders
  <2>1. SharpOf(l, r).complete
    BY <1>1 DEF SharpOf, DeriveSharpOrderSet
  <2>2. SharpOf(r, l).complete
    BY <1>1, <2>1, CompleteMirrored
  <2>3. PICK f \in ChoicesOf(CompareSignalIntervals(l, r)) : p = PartialOrder(Range(f))
    BY <1>1, <2>1, SharpOrders
  <2>4. PICK h \in ChoicesOf(CompareSignalIntervals(r, l)) :
          PartialOrder(Range(h)) = Mirror(p)
    BY <1>1, <2>3, ChoiceMirrored
  <2> QED
    BY <1>1, <2>2, <2>4, SharpOrders
<1>2. o \in SharpOf(right, left).orders => Mirror(o) \in SharpOf(left, right).orders
  BY <1>1
<1>3. Mirror(o) \in SharpOf(left, right).orders
        => Mirror(Mirror(o)) \in SharpOf(right, left).orders
  BY <1>1
<1> QED
  BY <1>2, <1>3, MirrorTwice

(* An order is necessary where it is the only one.                          *)
LEMMA NecessaryMeans ==
  ASSUME NEW left, NEW right
  PROVE  LET sharp == SharpOf(left, right)
         IN  /\ \A o : o \in sharp.necessary <=> sharp.orders = {o}
             /\ \A o : sharp.orders = {o} => sharp.necessary = {o}
<1> DEFINE sharp == SharpOf(left, right)
           Named == {"RightDominates", "LeftDominates", "Tradeoff", "Equivalent"}
<1>1. sharp.orders \subseteq Named
  BY DEF SharpOf, DeriveSharpOrderSet, OrderOfDirections
<1>2. sharp.necessary = IF Cardinality(sharp.orders) = 1 THEN sharp.orders ELSE {}
  BY DEF SharpOf, DeriveSharpOrderSet
<1>3. IsFiniteSet(Named)
  <2>1. IsFiniteSet({})
    BY FS_EmptySet
  <2>2. IsFiniteSet({} \cup {"RightDominates"})
    BY <2>1, FS_AddElement
  <2>3. IsFiniteSet(({} \cup {"RightDominates"}) \cup {"LeftDominates"})
    BY <2>2, FS_AddElement
  <2>4. IsFiniteSet((({} \cup {"RightDominates"}) \cup {"LeftDominates"}) \cup {"Tradeoff"})
    BY <2>3, FS_AddElement
  <2>5. IsFiniteSet(((({} \cup {"RightDominates"}) \cup {"LeftDominates"})
                       \cup {"Tradeoff"}) \cup {"Equivalent"})
    BY <2>4, FS_AddElement
  <2>6. Named = ((({} \cup {"RightDominates"}) \cup {"LeftDominates"})
                       \cup {"Tradeoff"}) \cup {"Equivalent"}
    OBVIOUS
  <2> QED
    BY <2>5, <2>6
<1> HIDE DEF sharp, Named
<1>4. IsFiniteSet(sharp.orders)
  BY <1>1, <1>3, FS_Subset
<1>5. Cardinality(sharp.orders) = 1 <=> \E o : sharp.orders = {o}
  BY <1>4, FS_Singleton
<1>6. \A o : sharp.orders = {o} => sharp.necessary = {o}
  BY <1>2, <1>5
<1>7. \A o : o \in sharp.necessary => sharp.orders = {o}
  BY <1>2, <1>5
<1> QED
  BY <1>6, <1>7 DEF sharp

LEMMA SharpMirrored ==
  ASSUME NEW left, NEW right, Registered(left), Registered(right)
  PROVE  LET there == SharpOf(left, right)
             back  == SharpOf(right, left)
         IN  /\ \A o : o \in back.necessary <=> Mirror(o) \in there.necessary
             /\ back.right_not_worse = there.left_not_worse
<1> DEFINE there == SharpOf(left, right)
           back  == SharpOf(right, left)
<1>1. /\ back.right_not_worse
           = (back.orders # {} /\ back.orders \subseteq {"RightDominates", "Equivalent"})
      /\ there.left_not_worse
           = (there.orders # {} /\ there.orders \subseteq {"LeftDominates", "Equivalent"})
  BY DEF SharpOf, DeriveSharpOrderSet
<1>2. /\ \A o : o \in back.necessary <=> back.orders = {o}
      /\ \A o : o \in there.necessary <=> there.orders = {o}
  BY NecessaryMeans
<1>3. \A o : o \in back.orders <=> Mirror(o) \in there.orders
  BY OrdersMirrored
<1> HIDE DEF there, back
<1>4. \A o : o \in there.orders <=> Mirror(o) \in back.orders
  BY <1>3, MirrorTwice
<1>5. back.orders # {} <=> there.orders # {}
  BY <1>3, <1>4
<1>6. back.orders \subseteq {"RightDominates", "Equivalent"}
        <=> there.orders \subseteq {"LeftDominates", "Equivalent"}
  BY <1>3, <1>4, MirrorTwice
<1>7. \A o : back.orders = {o} <=> there.orders = {Mirror(o)}
  BY <1>3, <1>4, MirrorTwice
<1>8. back.right_not_worse = there.left_not_worse
  BY <1>1, <1>5, <1>6
<1>9. \A o : o \in back.necessary <=> Mirror(o) \in there.necessary
  BY <1>2, <1>7
<1> QED
  BY <1>8, <1>9 DEF there, back

-----------------------------------------------------------------------------

RowAt(left, right, i) == CompareSignal(left.signals[i], right.signals[i])

RowsOf(left, right) == CompareSignalSets(left.signals, right.signals)

(* The comparison of a registered signal is filed under its name.           *)
LEMMA RowsById ==
  ASSUME NEW left, NEW right, Registered(left), Registered(right), NEW i \in 1..6
  PROVE  /\ SignalIds[i] \in DOMAIN RowsOf(left, right)
         /\ RowsOf(left, right)[SignalIds[i]] = RowAt(left, right, i)
<1> DEFINE Ids(signals) == {s.id : s \in Range(signals)}
           Of(signals, id) == signals[Max({j \in DOMAIN signals : signals[j].id = id})]
<1>1. ASSUME NEW p, Registered(p)
      PROVE  SignalIds[i] \in Ids(p.signals) /\ Of(p.signals, SignalIds[i]) = p.signals[i]
  <2>1. DOMAIN p.signals = 1..6 /\ \A j \in 1..6 : p.signals[j].id = SignalContracts[j].id
    BY <1>1 DEF Registered
  <2>2. SignalIds[i] = SignalContracts[i].id
    BY ContractLines
  <2>3. {j \in DOMAIN p.signals : p.signals[j].id = SignalIds[i]} = {i}
    BY <2>1, <2>2, IdsDiffer
  <2>4. Max({i}) = i
    BY MaxOfOne
  <2>5. p.signals[i] \in Range(p.signals)
    BY <2>1 DEF Range
  <2> QED
    BY <2>1, <2>2, <2>3, <2>4, <2>5
<1>2. RowsOf(left, right) =
        [id \in Ids(left.signals) \cup Ids(right.signals) |->
           IF id \in Ids(left.signals) \cap Ids(right.signals)
           THEN CompareSignal(Of(left.signals, id), Of(right.signals, id)) ELSE "Incompatible"]
  BY DEF RowsOf, CompareSignalSets
<1>3. /\ SignalIds[i] \in Ids(left.signals) /\ SignalIds[i] \in Ids(right.signals)
      /\ Of(left.signals, SignalIds[i]) = left.signals[i]
      /\ Of(right.signals, SignalIds[i]) = right.signals[i]
  BY <1>1
<1> HIDE DEF Ids, Of
<1> QED
  BY <1>2, <1>3 DEF RowAt

(* The directions the comparable signals have.                              *)
DirectedRows(left, right) == {RowAt(left, right, i) : i \in 1..6} \cap Directions

LEMMA SliceOfAll ==
  ASSUME NEW left, NEW right, Registered(left), Registered(right)
  PROVE  LET slice == ComparisonSlice(RowsOf(left, right), SignalIds)
         IN  /\ slice.complete <=> \A i \in 1..6 : RowAt(left, right, i) \in Directions
             /\ slice.order = PartialOrder(DirectedRows(left, right))
<1> DEFINE rows == RowsOf(left, right)
           usable == {id \in Range(SignalIds) : id \in DOMAIN rows /\ rows[id] \in Directions}
<1>1. ComparisonSlice(rows, SignalIds) =
        [complete |-> usable = Range(SignalIds),
         order    |-> PartialOrder({rows[id] : id \in usable})]
  BY DEF ComparisonSlice
<1>2. \A i \in 1..6 : /\ SignalIds[i] \in DOMAIN rows
                      /\ rows[SignalIds[i]] = RowAt(left, right, i)
  BY RowsById
<1>3. Range(SignalIds) = {SignalIds[i] : i \in 1..6}
  BY ContractLines DEF Range
<1> HIDE DEF rows
<1>4. usable = Range(SignalIds) <=> \A i \in 1..6 : RowAt(left, right, i) \in Directions
  BY <1>2, <1>3
<1>5. {rows[id] : id \in usable} = DirectedRows(left, right)
  BY <1>2, <1>3 DEF DirectedRows
<1> DEFINE all == usable = Range(SignalIds)
           order == PartialOrder({rows[id] : id \in usable})
<1>6. all \in BOOLEAN
  OBVIOUS
<1>7. ComparisonSlice(rows, SignalIds) = [complete |-> all, order |-> order]
  BY <1>1
<1>8. /\ all <=> \A i \in 1..6 : RowAt(left, right, i) \in Directions
      /\ order = PartialOrder(DirectedRows(left, right))
  BY <1>4, <1>5
<1> HIDE DEF usable, all, order
<1> QED
  BY <1>6, <1>7, <1>8 DEF rows

Ready(left, right) ==
  /\ left.schema = right.schema /\ left.schema = "seval.frontier.v1"
  /\ CompatibleConfig(left.config, right.config)
  /\ CompatibleImplementations(left, right)
  /\ ArtifactIsPinned(left) /\ ArtifactIsPinned(right)

LEMMA BaseParts ==
  ASSUME NEW left, NEW right, Registered(left), Registered(right)
  PROVE  LET base == CompareProfiles(left, right)
         IN  /\ base.order = PartialOrder(DirectedRows(left, right))
             /\ (\A field \in {"schema", "config", "analyzers", "pinned"} :
                   base.readiness[field]) <=> Ready(left, right)
             /\ base.qualified <=>
                  /\ Ready(left, right) /\ Registries(left, right)
                  /\ \A i \in 1..6 : RowAt(left, right, i) \in Directions
             /\ base.qualified_order = IF base.qualified THEN {base.order} ELSE {}
<1> DEFINE base == CompareProfiles(left, right)
           overall == ComparisonSlice(RowsOf(left, right), SignalIds)
           schemas == left.schema = right.schema /\ left.schema = "seval.frontier.v1"
           configs == CompatibleConfig(left.config, right.config)
           analyzers == CompatibleImplementations(left, right)
           pinned == ArtifactIsPinned(left) /\ ArtifactIsPinned(right)
           complete == overall.complete /\ Registries(left, right)
<1>1. /\ base.order = overall.order
      /\ base.qualified_order = IF base.qualified THEN {overall.order} ELSE {}
      /\ base.qualified = (\A field \in DOMAIN base.readiness : base.readiness[field])
      /\ base.readiness = [schema |-> schemas, config |-> configs, analyzers |-> analyzers,
                           pinned |-> pinned, complete |-> complete]
  BY DEF CompareProfiles, RowsOf, Registries
<1>2. /\ overall.complete <=> \A i \in 1..6 : RowAt(left, right, i) \in Directions
      /\ overall.order = PartialOrder(DirectedRows(left, right))
  BY SliceOfAll
<1>3. /\ schemas \in BOOLEAN /\ configs \in BOOLEAN /\ analyzers \in BOOLEAN
      /\ pinned \in BOOLEAN /\ complete \in BOOLEAN
  BY DEF CompatibleConfig, CompatibleImplementations
<1>4. /\ Ready(left, right) <=> schemas /\ configs /\ analyzers /\ pinned
      /\ complete <=> overall.complete /\ Registries(left, right)
  BY DEF Ready
<1> HIDE DEF base, overall, schemas, configs, analyzers, pinned, complete
<1>5. /\ DOMAIN base.readiness = {"schema", "config", "analyzers", "pinned", "complete"}
      /\ base.readiness["schema"] <=> schemas
      /\ base.readiness["config"] <=> configs
      /\ base.readiness["analyzers"] <=> analyzers
      /\ base.readiness["pinned"] <=> pinned
      /\ base.readiness["complete"] <=> complete
  BY <1>1, <1>3
<1>6. (\A field \in {"schema", "config", "analyzers", "pinned"} : base.readiness[field])
        <=> Ready(left, right)
  BY <1>4, <1>5
<1>7. base.qualified <=> Ready(left, right) /\ overall.complete /\ Registries(left, right)
  <2>1. base.qualified <=>
          /\ base.readiness["schema"] /\ base.readiness["config"]
          /\ base.readiness["analyzers"] /\ base.readiness["pinned"]
          /\ base.readiness["complete"]
    BY <1>1, <1>5
  <2> QED
    BY <1>4, <1>5, <2>1
<1>8. /\ base.order = overall.order
      /\ base.qualified_order = IF base.qualified THEN {base.order} ELSE {}
  BY <1>1
<1> QED
  BY <1>2, <1>6, <1>7, <1>8 DEF base

-----------------------------------------------------------------------------
(* A comparison of two plain observations, seen from the other side.        *)
LEMMA OutcomeMirrored ==
  ASSUME NEW v \in Nat, NEW w \in Nat, NEW polarity
  PROVE  OutcomeOf(w, v, polarity) = Turned(OutcomeOf(v, w, polarity))
<1>1. ApproximatelyEqual(v, w) <=> ApproximatelyEqual(w, v)
  BY EqualInOrder
<1>2. ~ApproximatelyEqual(v, w) => (w < v <=> ~(v < w))
  BY EqualsItself
<1> DEFINE same == ApproximatelyEqual(v, w)
           less == v < w
           more == w < v
<1>3. /\ OutcomeOf(v, w, polarity) = IF same THEN "Equivalent"
                                     ELSE IF (polarity = "lower") = more
                                     THEN "RightBetter" ELSE "LeftBetter"
      /\ OutcomeOf(w, v, polarity) = IF same THEN "Equivalent"
                                     ELSE IF (polarity = "lower") = less
                                     THEN "RightBetter" ELSE "LeftBetter"
  BY <1>1 DEF OutcomeOf
<1>4. ~same => (more <=> ~less)
  BY <1>2
<1>5. less \in BOOLEAN /\ more \in BOOLEAN
  OBVIOUS
<1> HIDE DEF same, less, more
<1> QED
  BY <1>3, <1>4, <1>5 DEF Turned

(* Which comparisons of signals have a direction.                           *)
LEMMA RowMeans ==
  ASSUME NEW left, NEW right, Registered(left), Registered(right), NEW i \in 1..6
  PROVE  LET l == left.signals[i]
             r == right.signals[i]
         IN  IF l.status = "Observed" /\ r.status = "Observed"
             THEN \E v, w \in Nat :
                    /\ l.value = {v} /\ IntervalEvidence(l) = {Interval(v, {v})}
                    /\ r.value = {w} /\ IntervalEvidence(r) = {Interval(w, {w})}
                    /\ RowAt(left, right, i) = OutcomeOf(v, w, l.polarity)
             ELSE RowAt(left, right, i) = "Unavailable"
<1> DEFINE l == left.signals[i]
           r == right.signals[i]
<1>1. Matching(l, r)
  BY DEF Registered, Matching
<1>2. CASE l.status = "Observed" /\ r.status = "Observed"
  <2>1. PICK v \in Nat : l.value = {v} /\ IntervalEvidence(l) = {Interval(v, {v})}
    BY <1>2 DEF Registered, Evidence
  <2>2. PICK w \in Nat : r.value = {w} /\ IntervalEvidence(r) = {Interval(w, {w})}
    BY <1>2 DEF Registered, Evidence
  <2>3. Max(l.value) = v /\ Max(r.value) = w
    BY <2>1, <2>2, MaxOfOne
  <2>4. RowAt(left, right, i) = OutcomeOf(v, w, l.polarity)
    <3>1. RowAt(left, right, i) = OutcomeOf(Max(l.value), Max(r.value), l.polarity)
      BY <1>1, <1>2, <2>1, <2>2 DEF RowAt, CompareSignal
    <3> QED
      BY <2>3, <3>1
  <2> QED
    BY <1>2, <2>1, <2>2, <2>4
<1>3. CASE ~(l.status = "Observed" /\ r.status = "Observed")
  BY <1>1, <1>3 DEF RowAt, CompareSignal
<1> QED
  BY <1>2, <1>3

LEMMA RowMirrored ==
  ASSUME NEW left, NEW right, Registered(left), Registered(right), NEW i \in 1..6
  PROVE  RowAt(right, left, i) = Turned(RowAt(left, right, i))
<1> DEFINE l == left.signals[i]
           r == right.signals[i]
<1>1. l.polarity = r.polarity
  BY DEF Registered
<1>2. CASE l.status = "Observed" /\ r.status = "Observed"
  <2>1. PICK v \in Nat, w \in Nat : /\ l.value = {v} /\ r.value = {w}
                                    /\ RowAt(left, right, i) = OutcomeOf(v, w, l.polarity)
    BY <1>2, RowMeans
  <2>2. PICK x \in Nat, y \in Nat : /\ r.value = {x} /\ l.value = {y}
                                    /\ RowAt(right, left, i) = OutcomeOf(x, y, r.polarity)
    BY <1>2, RowMeans
  <2>3. x = w /\ y = v
    BY <2>1, <2>2
  <2> QED
    BY <1>1, <2>1, <2>2, <2>3, OutcomeMirrored
<1>3. CASE ~(l.status = "Observed" /\ r.status = "Observed")
  <2>1. RowAt(left, right, i) = "Unavailable" /\ RowAt(right, left, i) = "Unavailable"
    BY <1>3, RowMeans
  <2> QED
    BY <2>1 DEF Turned
<1> QED
  BY <1>2, <1>3

LEMMA BaseMirrored ==
  ASSUME NEW left, NEW right, Registered(left), Registered(right)
  PROVE  LET there == CompareProfiles(left, right)
             back  == CompareProfiles(right, left)
         IN  /\ back.order = Mirror(there.order)
             /\ back.qualified <=> there.qualified
             /\ Ready(right, left) <=> Ready(left, right)
<1> DEFINE there == CompareProfiles(left, right)
           back  == CompareProfiles(right, left)
<1>1. \A i \in 1..6 : RowAt(right, left, i) = Turned(RowAt(left, right, i))
  BY RowMirrored
<1>2. Ready(right, left) <=> Ready(left, right)
  <2>1. CompatibleConfig(right.config, left.config)
          <=> CompatibleConfig(left.config, right.config)
    BY DEF CompatibleConfig
  <2>2. CompatibleImplementations(right, left) <=> CompatibleImplementations(left, right)
    BY DEF CompatibleImplementations
  <2> QED
    BY <2>1, <2>2 DEF Ready
<1>3. \A i \in 1..6 : RowAt(right, left, i) \in Directions
                        <=> RowAt(left, right, i) \in Directions
  BY <1>1, TurnedTwice
<1>4. /\ "RightBetter" \in DirectedRows(right, left)
           <=> "LeftBetter" \in DirectedRows(left, right)
      /\ "LeftBetter" \in DirectedRows(right, left)
           <=> "RightBetter" \in DirectedRows(left, right)
      /\ DirectedRows(right, left) = {} <=> DirectedRows(left, right) = {}
  <2>1. \A o \in Directions : o \in DirectedRows(right, left)
                                <=> \E i \in 1..6 : RowAt(right, left, i) = o
    BY DEF DirectedRows
  <2>2. \A o \in Directions : o \in DirectedRows(left, right)
                                <=> \E i \in 1..6 : RowAt(left, right, i) = o
    BY DEF DirectedRows
  <2>3. /\ \A o \in DirectedRows(right, left) : o \in Directions
        /\ \A o \in DirectedRows(left, right) : o \in Directions
    BY DEF DirectedRows
  <2>4. "RightBetter" \in Directions /\ "LeftBetter" \in Directions
    BY DEF Directions
  <2>5. DirectedRows(right, left) = {} <=> \A i \in 1..6 : RowAt(right, left, i) \notin Directions
    BY DEF DirectedRows
  <2>6. DirectedRows(left, right) = {} <=> \A i \in 1..6 : RowAt(left, right, i) \notin Directions
    BY DEF DirectedRows
  <2>7. \A i \in 1..6 : /\ RowAt(right, left, i) = "RightBetter"
                             <=> RowAt(left, right, i) = "LeftBetter"
                        /\ RowAt(right, left, i) = "LeftBetter"
                             <=> RowAt(left, right, i) = "RightBetter"
    BY <1>1, TurnedTwice
  <2> QED
    BY <1>3, <2>1, <2>2, <2>4, <2>5, <2>6, <2>7
<1>5. back.order = Mirror(there.order)
  <2>1. PartialOrder(DirectedRows(right, left)) = Mirror(PartialOrder(DirectedRows(left, right)))
    BY <1>4, OrderMirrored
  <2>2. /\ there.order = PartialOrder(DirectedRows(left, right))
        /\ back.order = PartialOrder(DirectedRows(right, left))
    BY BaseParts
  <2> QED
    BY <2>1, <2>2
<1>6. Registries(right, left) <=> Registries(left, right)
  BY DEF Registries
<1>7. back.qualified <=> there.qualified
  BY <1>2, <1>3, <1>6, BaseParts
<1> QED
  BY <1>2, <1>5, <1>7

(* Two plain observations leave one outcome possible: theirs.               *)
LEMMA RowIsPossible ==
  ASSUME NEW left, NEW right, Registered(left), Registered(right), NEW i \in 1..6,
         RowAt(left, right, i) \in Directions
  PROVE  PossibleAt(left, right, i) = {RowAt(left, right, i)}
<1> DEFINE l == left.signals[i]
           r == right.signals[i]
<1>1. l.status = "Observed" /\ r.status = "Observed"
  BY RowMeans DEF Directions
<1>2. PICK v \in Nat, w \in Nat :
        /\ IntervalEvidence(l) = {Interval(v, {v})}
        /\ IntervalEvidence(r) = {Interval(w, {w})}
        /\ RowAt(left, right, i) = OutcomeOf(v, w, l.polarity)
  BY <1>1, RowMeans
<1> DEFINE a == Interval(v, {v})
           b == Interval(w, {w})
<1>3. a \in IntervalEvidence(l) /\ b \in IntervalEvidence(r)
  BY <1>2
<1>4. Below(a) = {v} /\ Below(b) = {w}
  <2>1. ASSUME NEW x \in Nat
        PROVE  Below(Interval(x, {x})) = {x}
    <3>1. Max({x}) = x
      BY MaxOfOne
    <3>2. Below(Interval(x, {x})) = x..Max({x})
      BY DEF Below, Interval
    <3>3. x..x = {x}
      OBVIOUS
    <3> QED
      BY <3>1, <3>2, <3>3
  <2> QED
    BY <2>1
<1> HIDE DEF a, b
<1>5. a \in Intervals /\ b \in Intervals /\ RoomAbove(a, b)
  BY <1>3, RoomForEvidence
<1>6. PossibleAt(left, right, i) = LocalPossibleOutcomes(a, b, l.polarity)
  BY <1>3, PossibleFromIntervals
<1>7. LocalPossibleOutcomes(a, b, l.polarity)
        = {OutcomeOf(x, y, l.polarity) : x \in Below(a), y \in Below(b)}
  BY <1>5, OutcomesBelow
<1>8. LocalPossibleOutcomes(a, b, l.polarity) = {OutcomeOf(v, w, l.polarity)}
  BY <1>4, <1>7
<1> QED
  BY <1>2, <1>6, <1>8

(* What the plain comparison qualifies is what the other finds necessary.   *)
LEMMA QualifiedIsNecessary ==
  ASSUME NEW left, NEW right, Registered(left), Registered(right),
         CompareProfiles(left, right).qualified
  PROVE  /\ SharpOf(left, right).complete
         /\ SharpOf(left, right).necessary = {CompareProfiles(left, right).order}
<1> DEFINE f == [i \in 1..6 |-> RowAt(left, right, i)]
           possible == CompareSignalIntervals(left, right)
<1>1. \A i \in 1..6 : RowAt(left, right, i) \in Directions
  BY BaseParts
<1>2. \A i \in 1..6 : possible[i] = {f[i]}
  BY <1>1, RowIsPossible, IntervalsBySignal
<1>3. SharpOf(left, right).complete
  <2>1. \A i \in 1..6 : PossibleAt(left, right, i) # {}
    BY <1>1, RowIsPossible
  <2> QED
    BY <2>1, BaseParts, CompleteMeans
<1>4. f \in [1..6 -> Directions]
  BY <1>1
<1>5. Range(f) = DirectedRows(left, right)
  BY <1>1 DEF Range, DirectedRows
<1> HIDE DEF f
<1>6. ASSUME NEW h
      PROVE  h \in ChoicesOf(possible) <=> h = f
  <2>1. h \in ChoicesOf(possible) <=> h \in [1..6 -> Directions] /\ \A i \in 1..6 : h[i] = f[i]
    BY <1>2 DEF ChoicesOf
  <2> QED
    BY <1>4, <2>1
<1>7. ChoicesOf(possible) = {f}
  BY <1>6
<1> HIDE DEF possible
<1>8. SharpOf(left, right).orders = {PartialOrder(Range(h)) : h \in ChoicesOf(possible)}
  BY <1>3, SharpOrders DEF possible
<1>9. SharpOf(left, right).orders = {PartialOrder(Range(f))}
  BY <1>7, <1>8
<1>10. SharpOf(left, right).necessary = {PartialOrder(Range(f))}
  BY <1>9, NecessaryMeans
<1>11. CompareProfiles(left, right).order = PartialOrder(DirectedRows(left, right))
  BY BaseParts
<1> QED
  BY <1>3, <1>5, <1>10, <1>11

LEMMA ComparisonsDoAgree ==
  ASSUME NEW left, NEW right, Registered(left), Registered(right)
  PROVE  ComparisonsAgree(left, right)
<1> DEFINE there == CompareIdentified(left, right)
           back  == CompareIdentified(right, left)
<1>1. ASSUME NEW l, NEW r, Registered(l), Registered(r)
      PROVE  LET answer == CompareIdentified(l, r)
             IN  /\ answer.base = CompareProfiles(l, r) /\ answer.sharp = SharpOf(l, r)
                 /\ answer.qualified <=> Ready(l, r) /\ Registries(l, r)
                                           /\ SharpOf(l, r).complete
                 /\ answer.qualified_necessary =
                      IF answer.qualified THEN SharpOf(l, r).necessary ELSE {}
  <2> DEFINE answer == CompareIdentified(l, r)
  <2>1. /\ answer.base = CompareProfiles(l, r) /\ answer.sharp = SharpOf(l, r)
        /\ answer.qualified <=>
             /\ \A field \in {"schema", "config", "analyzers", "pinned"} :
                  answer.base.readiness[field]
             /\ Registries(l, r) /\ answer.sharp.complete
        /\ answer.qualified_necessary =
             IF answer.qualified THEN answer.sharp.necessary ELSE {}
    BY IdentifiedParts
  <2>2. (\A field \in {"schema", "config", "analyzers", "pinned"} :
           CompareProfiles(l, r).readiness[field]) <=> Ready(l, r)
    BY <1>1, BaseParts
  <2> HIDE DEF answer
  <2>3. (\A field \in {"schema", "config", "analyzers", "pinned"} :
           answer.base.readiness[field]) <=> Ready(l, r)
    BY <2>1, <2>2
  <2> QED
    BY <2>1, <2>3 DEF answer
<1>2. there.base = CompareProfiles(left, right) /\ back.base = CompareProfiles(right, left)
  BY <1>1
<1>3. there.sharp = SharpOf(left, right) /\ back.sharp = SharpOf(right, left)
  BY <1>1
<1>4. /\ there.qualified <=> Ready(left, right) /\ Registries(left, right)
                               /\ SharpOf(left, right).complete
      /\ back.qualified <=> Ready(right, left) /\ Registries(right, left)
                              /\ SharpOf(right, left).complete
  BY <1>1
<1>5. /\ there.qualified_necessary =
           IF there.qualified THEN SharpOf(left, right).necessary ELSE {}
      /\ back.qualified_necessary =
           IF back.qualified THEN SharpOf(right, left).necessary ELSE {}
  BY <1>1
<1> HIDE DEF there, back
<1>6. there.base.qualified =>
        there.qualified /\ there.qualified_necessary = there.base.qualified_order
  <2> SUFFICES ASSUME CompareProfiles(left, right).qualified
               PROVE  there.qualified /\ there.qualified_necessary = there.base.qualified_order
    BY <1>2
  <2>1. /\ SharpOf(left, right).complete
        /\ SharpOf(left, right).necessary = {CompareProfiles(left, right).order}
    BY QualifiedIsNecessary
  <2>2. Ready(left, right) /\ Registries(left, right)
    BY BaseParts
  <2>3. CompareProfiles(left, right).qualified_order = {CompareProfiles(left, right).order}
    BY BaseParts
  <2> QED
    BY <1>2, <1>4, <1>5, <2>1, <2>2, <2>3
<1>7. /\ back.base.order = Mirror(there.base.order)
      /\ back.base.qualified <=> there.base.qualified
      /\ Ready(right, left) <=> Ready(left, right)
  BY <1>2, BaseMirrored
<1>8. back.base.qualified_order = {Mirror(o) : o \in there.base.qualified_order}
  <2>1. /\ there.base.qualified_order = IF there.base.qualified THEN {there.base.order} ELSE {}
        /\ back.base.qualified_order = IF back.base.qualified THEN {back.base.order} ELSE {}
    BY <1>2, BaseParts
  <2>2. CASE there.base.qualified
    BY <1>7, <2>1, <2>2
  <2>3. CASE ~there.base.qualified
    BY <1>7, <2>1, <2>3
  <2> QED
    BY <2>2, <2>3
<1>9. back.qualified <=> there.qualified
  <2>1. Registries(right, left) <=> Registries(left, right)
    BY DEF Registries
  <2> QED
    BY <1>4, <1>7, <2>1, CompleteMirrored
<1>10. back.qualified_necessary = {Mirror(o) : o \in there.qualified_necessary}
  <2>1. \A o : o \in SharpOf(right, left).necessary
                 <=> Mirror(o) \in SharpOf(left, right).necessary
    BY SharpMirrored
  <2>2. CASE there.qualified
    <3>1. \A o : o \in back.qualified_necessary <=> Mirror(o) \in there.qualified_necessary
      BY <1>5, <1>9, <2>1, <2>2
    <3> QED
      BY <3>1, MirrorTwice
  <2>3. CASE ~there.qualified
    BY <1>5, <1>9, <2>3
  <2> QED
    BY <2>2, <2>3
<1>11. back.sharp.right_not_worse = there.sharp.left_not_worse
  BY <1>3, SharpMirrored
<1> QED
  BY <1>6, <1>7, <1>8, <1>10, <1>11 DEF ComparisonsAgree, there, back

(* Whatever two profiles this program makes say: the orders reported        *)
(* possible are the ones some values inside the intervals attain, no more   *)
(* and no fewer; an order the plain comparison qualifies is the one found   *)
(* necessary, and from the other side every answer is the mirror image      *)
(* (derive_sharp_order_set; compare_profiles in both modules).              *)
THEOREM OrdersAreRight == OrdersSpec => []OrdersRight
<1>1. MadeProfiles => OrdersRight
  <2> SUFFICES ASSUME MadeProfiles, case.kind = "profiles"
               PROVE  /\ SharpSet(case.left, case.right, Top)
                      /\ ComparisonsAgree(case.left, case.right)
    BY DEF OrdersRight
  <2>1. Registered(case.left) /\ Registered(case.right)
    BY MadeIsRegistered DEF MadeProfiles
  <2> QED
    BY <2>1, OrdersAreSharp, ComparisonsDoAgree
<1> QED
  BY <1>1, ProfilesAreMade, PTL

-----------------------------------------------------------------------------
(* Plans: products and sums of the planner.                                 *)

(* Terms added in the order CHOOSE takes them are their sum.                *)
LEMMA SumFunctionIsSum ==
  ASSUME NEW f, IsFiniteSet(DOMAIN f)
  PROVE  SumFunction(f) = Sum(f, DOMAIN f)
  BY MassIsSum DEF SumFunction, SumFunctionOnSet, FoldFunctionOnSet, MapThenSumSet

(* A product, factor by factor.                                             *)
Multiplies(g, f, S) ==
  \A s \in SUBSET S : g[s] = IF s = {} THEN 1 ELSE f[OneOf(s)] * g[s \ {OneOf(s)}]

LEMMA ProductIs ==
  ASSUME NEW f, NEW S, DOMAIN f = S, IsFiniteSet(S), \A x \in S : f[x] \in Nat
  PROVE  \E g \in [SUBSET S -> Nat] : Multiplies(g, f, S) /\ ProductOf(f) = g[S]
<1> DEFINE c == [s \in SUBSET S |-> OneOf(s)]
           F == [x \in S |-> [t \in Nat |-> f[x] * t]]
           Unrolled(g, s) ==
             IF s = {} THEN 1
             ELSE f[CHOOSE x \in s : TRUE] * g[s \ {CHOOSE x \in s : TRUE}]
           g == CHOOSE g : g = [s \in SUBSET S |-> Unrolled(g, s)]
<1>1. \A s \in SUBSET S : s # {} => OneOf(s) \in s
  BY DEF OneOf
<1>2. \E h \in [SUBSET S -> Nat] : Unfolds(h, S, c, 1, F)
  <2>1. Picks(c, S)
    BY <1>1 DEF Picks
  <2>2. StaysIn(F, S, Nat)
    BY DEF StaysIn
  <2>3. 1 \in Nat
    OBVIOUS
  <2> HIDE DEF c, F
  <2> QED
    BY <2>1, <2>2, <2>3, FoldExists
<1>3. \A h \in [SUBSET S -> Nat] : Unfolds(h, S, c, 1, F) <=> Multiplies(h, f, S)
  <2> SUFFICES ASSUME NEW h \in [SUBSET S -> Nat]
               PROVE  Unfolds(h, S, c, 1, F) <=> Multiplies(h, f, S)
    OBVIOUS
  <2>1. ASSUME NEW s \in SUBSET S, s # {}
        PROVE  F[c[s]][h[s \ {c[s]}]] = f[OneOf(s)] * h[s \ {OneOf(s)}]
    <3>1. c[s] = OneOf(s) /\ OneOf(s) \in S /\ h[s \ {OneOf(s)}] \in Nat
      BY <1>1, <2>1
    <3>2. F[OneOf(s)][h[s \ {OneOf(s)}]] = f[OneOf(s)] * h[s \ {OneOf(s)}]
      BY <3>1
    <3> HIDE DEF c, F
    <3> QED
      BY <3>1, <3>2
  <2> HIDE DEF c, F
  <2> QED
    BY <2>1 DEF Unfolds, Multiplies
<1>4. \A h : \A s \in SUBSET S :
        Unrolled(h, s) = IF s = {} THEN 1 ELSE f[OneOf(s)] * h[s \ {OneOf(s)}]
  BY DEF OneOf
<1> HIDE DEF Unrolled, c, F
<1>5. \E h : h = [s \in SUBSET S |-> Unrolled(h, s)]
  <2>1. PICK h \in [SUBSET S -> Nat] : Multiplies(h, f, S)
    BY <1>2, <1>3
  <2>2. \A s \in SUBSET S : h[s] = Unrolled(h, s)
    BY <1>4, <2>1 DEF Multiplies
  <2>3. h = [s \in SUBSET S |-> Unrolled(h, s)]
    BY <2>2
  <2> QED
    BY <2>3
<1>6. g = [s \in SUBSET S |-> Unrolled(g, s)]
  BY <1>5
<1>7. ProductOf(f) = g[S]
  BY DEF ProductOf, FoldFunction, FoldFunctionOnSet, MapThenFoldSet, g, Unrolled
<1> HIDE DEF g
<1>8. Multiplies(g, f, S)
  BY <1>4, <1>6 DEF Multiplies
<1>9. g \in [SUBSET S -> Nat]
  <2> DEFINE P == {s \in SUBSET S : g[s] \in Nat}
  <2>1. \A s \in SUBSET S : s \in P
    <3> DEFINE Q == {n \in Nat : \A s \in SUBSET S : Cardinality(s) = n => s \in P}
    <3>1. \A s \in SUBSET S : /\ IsFiniteSet(s) /\ Cardinality(s) \in Nat
                              /\ s # {} => Cardinality(s \ {OneOf(s)}) = Cardinality(s) - 1
      BY <1>1, FS_Subset, FS_CardinalityType, FS_RemoveElement
    <3>2. 0 \in Q
      <4>1. \A s \in SUBSET S : Cardinality(s) = 0 => s = {}
        BY <3>1, FS_EmptySet
      <4>2. g[{}] = 1
        BY <1>8 DEF Multiplies
      <4> QED
        BY <4>1, <4>2
    <3>3. ASSUME NEW n \in Nat, n \in Q
          PROVE  n + 1 \in Q
      <4> SUFFICES ASSUME NEW s \in SUBSET S, Cardinality(s) = n + 1
                   PROVE  s \in P
        OBVIOUS
      <4>1. s # {}
        BY <3>1, FS_EmptySet
      <4>2. s \ {OneOf(s)} \in P
        BY <3>1, <3>3, <4>1
      <4>3. OneOf(s) \in S
        BY <1>1, <4>1
      <4>4. g[s] = f[OneOf(s)] * g[s \ {OneOf(s)}]
        BY <1>8, <4>1 DEF Multiplies
      <4> QED
        BY <4>2, <4>3, <4>4
    <3> HIDE DEF Q
    <3>4. Nat \subseteq Q
      BY <3>2, <3>3, NaturalInduction
    <3> QED
      BY <3>1, <3>4 DEF Q
  <2> QED
    BY <1>6, <2>1
<1> QED
  BY <1>7, <1>8, <1>9

LEMMA ProductNat ==
  ASSUME NEW f, IsFiniteSet(DOMAIN f), \A x \in DOMAIN f : f[x] \in Nat
  PROVE  ProductOf(f) \in Nat
<1>1. PICK g \in [SUBSET (DOMAIN f) -> Nat] :
        Multiplies(g, f, DOMAIN f) /\ ProductOf(f) = g[DOMAIN f]
  BY ProductIs
<1>2. DOMAIN f \in SUBSET (DOMAIN f)
  OBVIOUS
<1> QED
  BY <1>1, <1>2

LEMMA ProductOfNone ==
  ASSUME NEW f, DOMAIN f = {}
  PROVE  ProductOf(f) = 1
<1>1. IsFiniteSet({}) /\ {} \in SUBSET {}
  BY FS_EmptySet
<1>2. PICK g \in [SUBSET {} -> Nat] : Multiplies(g, f, {}) /\ ProductOf(f) = g[{}]
  BY <1>1, ProductIs
<1> QED
  BY <1>1, <1>2 DEF Multiplies

LEMMA ProductOfOne ==
  ASSUME NEW f, NEW x, DOMAIN f = {x}, f[x] \in Nat
  PROVE  ProductOf(f) = f[x]
<1>1. IsFiniteSet({x}) /\ {} \in SUBSET {x} /\ {x} \in SUBSET {x} /\ {x} # {} /\ {x} \ {x} = {}
  BY FS_Singleton
<1>2. PICK g \in [SUBSET {x} -> Nat] : Multiplies(g, f, {x}) /\ ProductOf(f) = g[{x}]
  BY <1>1, ProductIs
<1>3. OneOf({x}) = x
  BY DEF OneOf
<1>4. g[{}] = 1
  BY <1>1, <1>2 DEF Multiplies
<1>5. g[{x}] = f[x] * g[{}]
  BY <1>1, <1>2, <1>3 DEF Multiplies
<1>6. f[x] * 1 = f[x]
  OBVIOUS
<1> QED
  BY <1>2, <1>4, <1>5, <1>6

LEMMA UpToFinite ==
  ASSUME NEW n \in Int
  PROVE  IsFiniteSet(1..n)
<1>1. CASE n \in Nat
  BY <1>1, FS_Interval
<1>2. CASE n \notin Nat
  <2>1. 1..n = {}
    BY <1>2
  <2> QED
    BY <2>1, FS_EmptySet
<1> QED
  BY <1>1, <1>2

LEMMA PowerNat ==
  ASSUME NEW n \in Int
  PROVE  Power(n) \in Nat
<1> DEFINE f == [i \in 1..n |-> Unit]
<1>1. IsFiniteSet(DOMAIN f) /\ \A x \in DOMAIN f : f[x] \in Nat
  BY UpToFinite, PlannerAssumption
<1>2. Power(n) = ProductOf(f)
  BY DEF Power
<1> HIDE DEF f
<1> QED
  BY <1>1, <1>2, ProductNat

-----------------------------------------------------------------------------
(* Masses and the metrics of a set of probes.                               *)

LEMMA SmallerScales ==
  ASSUME NEW a \in Int, NEW b \in Int, NEW c \in Nat
  PROVE  Smaller(a * c, b * c) = c * Smaller(a, b)
<1>1. CASE c = 0
  BY <1>1 DEF Smaller
<1>2. CASE c > 0
  <2>1. a < b <=> a * c < b * c
    <3>1. a < b => a * c < b * c
      BY <1>2
    <3>2. a >= b => a * c >= b * c
      BY <1>2
    <3> QED
      BY <3>1, <3>2
  <2> QED
    BY <2>1 DEF Smaller
<1> QED
  BY <1>1, <1>2

LEMMA EntropyNat ==
  ASSUME NEW t \in Nat, NEW f \in Nat
  PROVE  EntropyMass(t, f) \in Nat
  BY DEF EntropyMass, Smaller

LEMMA EntropyScales ==
  ASSUME NEW t \in Nat, NEW f \in Nat, NEW c \in Nat
  PROVE  EntropyMass(t * c, f * c) = c * EntropyMass(t, f)
<1> DEFINE a1 == Smaller(3 * t, f)
           a2 == Smaller(2 * t, 2 * f)
           a3 == Smaller(t, 3 * f)
<1>1. /\ 3 * (t * c) = (3 * t) * c /\ 2 * (t * c) = (2 * t) * c
      /\ 3 * (f * c) = (3 * f) * c /\ 2 * (f * c) = (2 * f) * c
  OBVIOUS
<1>2. /\ Smaller(3 * (t * c), f * c) = c * a1
      /\ Smaller(2 * (t * c), 2 * (f * c)) = c * a2
      /\ Smaller(t * c, 3 * (f * c)) = c * a3
  <2> DEFINE x == 3 * t
             y == 2 * t
             z == 2 * f
             w == 3 * f
  <2>1. x \in Int /\ y \in Int /\ z \in Int /\ w \in Int /\ t \in Int /\ f \in Int
    OBVIOUS
  <2>2. /\ 3 * (t * c) = x * c /\ 2 * (t * c) = y * c
        /\ 3 * (f * c) = w * c /\ 2 * (f * c) = z * c
    BY <1>1
  <2>3. a1 = Smaller(x, f) /\ a2 = Smaller(y, z) /\ a3 = Smaller(t, w)
    OBVIOUS
  <2> HIDE DEF x, y, z, w, a1, a2, a3
  <2>4. /\ Smaller(x * c, f * c) = c * Smaller(x, f)
        /\ Smaller(y * c, z * c) = c * Smaller(y, z)
        /\ Smaller(t * c, w * c) = c * Smaller(t, w)
    BY <2>1, SmallerScales
  <2> QED
    BY <2>2, <2>3, <2>4, Zenon
<1>3. a1 \in Int /\ a2 \in Int /\ a3 \in Int
  BY DEF Smaller
<1>4. EntropyMass(t, f) = a1 + a2 + a3
  BY DEF EntropyMass
<1>5. EntropyMass(t * c, f * c) = c * a1 + c * a2 + c * a3
  BY <1>2 DEF EntropyMass
<1> HIDE DEF a1, a2, a3
<1>6. c * (a1 + a2 + a3) = c * a1 + c * a2 + c * a3
  BY <1>3
<1> QED
  BY <1>4, <1>5, <1>6

LEMMA RiskNat ==
  ASSUME NEW claim, claim.fp \in Nat, claim.fn \in Nat, NEW t \in Nat, NEW f \in Nat
  PROVE  RiskMass(claim, t, f) \in Nat
  BY DEF RiskMass, Smaller

LEMMA RiskScales ==
  ASSUME NEW claim, claim.fp \in Nat, claim.fn \in Nat, NEW t \in Nat, NEW f \in Nat,
         NEW c \in Nat
  PROVE  RiskMass(claim, t * c, f * c) = c * RiskMass(claim, t, f)
<1> DEFINE p == claim.fp
           n == claim.fn
<1>1. p \in Nat /\ n \in Nat
  OBVIOUS
<1>2. /\ RiskMass(claim, t * c, f * c) = Smaller((f * c) * p, (t * c) * n)
      /\ RiskMass(claim, t, f) = Smaller(f * p, t * n)
  BY DEF RiskMass
<1> HIDE DEF p, n
<1>3. (f * c) * p = (f * p) * c /\ (t * c) * n = (t * n) * c
  BY <1>1
<1>4. f * p \in Int /\ t * n \in Int
  BY <1>1
<1> QED
  BY <1>2, <1>3, <1>4, SmallerScales

-----------------------------------------------------------------------------
(* A specification the planner accepts.                                     *)
Accepted(spec) == spec \in PlanSpec /\ ValidPlanSpec(spec)

LEMMA AcceptedClaims ==
  ASSUME NEW spec, Accepted(spec), NEW c \in DOMAIN spec.claims
  PROVE  LET claim == spec.claims[c]
         IN  /\ claim.id \in Nat /\ claim.prior \in 0..Unit
             /\ claim.fp \in Nat /\ claim.fn \in Nat /\ claim.importance \in Nat
<1>1. spec.claims \in Seq(ClaimSpec)
  BY DEF Accepted, PlanSpec
<1>2. spec.claims[c] \in ClaimSpec
  BY <1>1, ElementOfSeq, LenProperties
<1>3. spec.claims[c] \in Range(spec.claims)
  BY DEF Range
<1>4. ValidClaim(spec.claims[c])
  BY <1>3 DEF Accepted, ValidPlanSpec
<1> QED
  BY <1>2, <1>4 DEF ValidClaim, ClaimSpec

LEMMA AcceptedProbes ==
  ASSUME NEW spec, Accepted(spec), NEW p \in DOMAIN spec.probes
  PROVE  LET told == spec.probes[p]
         IN  /\ told.id \in Nat /\ told.claim \in Nat /\ told.group \in Nat
             /\ told.sensitivity \in 0..Unit /\ told.specificity \in 0..Unit
             /\ told.usd \in Nat /\ told.seconds \in Nat
             /\ \E c \in DOMAIN spec.claims : spec.claims[c].id = told.claim
<1>1. spec.probes \in Seq(ProbeSpec)
  BY DEF Accepted, PlanSpec
<1>2. spec.probes[p] \in ProbeSpec
  BY <1>1, ElementOfSeq, LenProperties
<1>3. spec.probes[p] \in Range(spec.probes)
  BY DEF Range
<1>4. /\ ValidProbe(spec.probes[p])
      /\ \E c \in Range(spec.claims) : c.id = spec.probes[p].claim
  BY <1>3 DEF Accepted, ValidPlanSpec
<1>5. \E c \in DOMAIN spec.claims : spec.claims[c].id = spec.probes[p].claim
  BY <1>4 DEF Range
<1> QED
  BY <1>2, <1>4, <1>5 DEF ValidProbe, ProbeSpec

LEMMA AcceptedSizes ==
  ASSUME NEW spec, Accepted(spec)
  PROVE  /\ Len(spec.probes) \in Nat /\ DOMAIN spec.probes = 1..Len(spec.probes)
         /\ Len(spec.claims) \in Nat /\ DOMAIN spec.claims = 1..Len(spec.claims)
         /\ IsFiniteSet(DOMAIN spec.probes) /\ IsFiniteSet(DOMAIN spec.claims)
         /\ Distinct(spec.claims) /\ Distinct(spec.probes)
         /\ spec.budget.usd \in Nat /\ spec.budget.seconds \in Nat
         /\ spec.budget.probes \in Nat
         /\ spec.strategy \in Strategies /\ spec.independent \in BOOLEAN
<1>1. spec.claims \in Seq(ClaimSpec) /\ spec.probes \in Seq(ProbeSpec)
  BY DEF Accepted, PlanSpec
<1>2. /\ Len(spec.probes) \in Nat /\ DOMAIN spec.probes = 1..Len(spec.probes)
      /\ Len(spec.claims) \in Nat /\ DOMAIN spec.claims = 1..Len(spec.claims)
  BY <1>1, LenProperties
<1>3. IsFiniteSet(DOMAIN spec.probes) /\ IsFiniteSet(DOMAIN spec.claims)
  BY <1>2, FS_Interval
<1>4. /\ Distinct(spec.claims) /\ Distinct(spec.probes)
      /\ spec.budget.usd >= 0 /\ spec.budget.seconds >= 0
  BY DEF Accepted, ValidPlanSpec
<1>5. /\ spec.budget.usd \in Int /\ spec.budget.seconds \in Int
      /\ spec.budget.probes \in Nat
      /\ spec.strategy \in Strategies /\ spec.independent \in BOOLEAN
  BY DEF Accepted, PlanSpec
<1> QED
  BY <1>2, <1>3, <1>4, <1>5

-----------------------------------------------------------------------------
(* The masses of outcomes and the metrics of some probes of a claim.        *)
Fair(probes) ==
  /\ IsFiniteSet(DOMAIN probes)
  /\ \A i \in DOMAIN probes : /\ probes[i].sensitivity \in 0..Unit
                              /\ probes[i].specificity \in 0..Unit

FairClaim(claim) ==
  claim.prior \in 0..Unit /\ claim.fp \in Nat /\ claim.fn \in Nat

LEMMA MassesNat ==
  ASSUME NEW claim, FairClaim(claim), NEW probes, Fair(probes), NEW outcome
  PROVE  /\ TrueMass(claim, probes, outcome) \in Nat
         /\ FalseMass(claim, probes, outcome) \in Nat
<1> DEFINE f == [i \in DOMAIN probes |->
                   IF i \in outcome THEN probes[i].sensitivity ELSE Unit - probes[i].sensitivity]
           g == [i \in DOMAIN probes |->
                   IF i \in outcome THEN Unit - probes[i].specificity ELSE probes[i].specificity]
<1>1. Unit \in Nat
  BY PlannerAssumption
<1>2. /\ IsFiniteSet(DOMAIN f) /\ \A i \in DOMAIN f : f[i] \in Nat
      /\ IsFiniteSet(DOMAIN g) /\ \A i \in DOMAIN g : g[i] \in Nat
  BY <1>1 DEF Fair
<1>3. /\ TrueMass(claim, probes, outcome) = claim.prior * ProductOf(f)
      /\ FalseMass(claim, probes, outcome) = (Unit - claim.prior) * ProductOf(g)
  BY DEF TrueMass, FalseMass
<1> HIDE DEF f, g
<1>4. ProductOf(f) \in Nat /\ ProductOf(g) \in Nat
  BY <1>2, ProductNat
<1>5. claim.prior \in Nat /\ Unit - claim.prior \in Nat
  BY <1>1 DEF FairClaim
<1> QED
  BY <1>3, <1>4, <1>5

Scaled(probes, size) == Power(size - Cardinality(DOMAIN probes))

EntropyOf(claim, probes, size) ==
  [o \in SUBSET DOMAIN probes |->
     Scaled(probes, size) * EntropyMass(TrueMass(claim, probes, o), FalseMass(claim, probes, o))]

RiskOf(claim, probes, size) ==
  [o \in SUBSET DOMAIN probes |->
     Scaled(probes, size) * RiskMass(claim, TrueMass(claim, probes, o), FalseMass(claim, probes, o))]

LEMMA JointIs ==
  ASSUME NEW claim, FairClaim(claim), NEW probes, Fair(probes), NEW size \in Nat
  PROVE  LET t == claim.prior * Power(size)
             f == (Unit - claim.prior) * Power(size)
             outcomes == SUBSET DOMAIN probes
         IN  /\ JointMetrics(claim, probes, size).information
                  = EntropyMass(t, f) - Sum(EntropyOf(claim, probes, size), outcomes)
             /\ JointMetrics(claim, probes, size).risk
                  = RiskMass(claim, t, f) - Sum(RiskOf(claim, probes, size), outcomes)
             /\ JointMetrics(claim, probes, size) \in [information : Int, risk : Int]
             /\ IsFiniteSet(outcomes)
             /\ \A o \in outcomes : /\ EntropyOf(claim, probes, size)[o] \in Int
                                    /\ RiskOf(claim, probes, size)[o] \in Int
<1> DEFINE t == claim.prior * Power(size)
           f == (Unit - claim.prior) * Power(size)
           outcomes == SUBSET DOMAIN probes
           E == EntropyOf(claim, probes, size)
           R == RiskOf(claim, probes, size)
<1>1. IsFiniteSet(outcomes)
  BY FS_SUBSET DEF Fair
<1>2. Scaled(probes, size) \in Nat
  <2>1. Cardinality(DOMAIN probes) \in Nat
    BY FS_CardinalityType DEF Fair
  <2>2. size - Cardinality(DOMAIN probes) \in Int
    BY <2>1
  <2> QED
    BY <2>2, PowerNat DEF Scaled
<1>3. \A o \in outcomes : E[o] \in Int /\ R[o] \in Int
  <2> TAKE o \in outcomes
  <2>1. /\ TrueMass(claim, probes, o) \in Nat /\ FalseMass(claim, probes, o) \in Nat
    BY MassesNat
  <2>2. /\ EntropyMass(TrueMass(claim, probes, o), FalseMass(claim, probes, o)) \in Nat
        /\ RiskMass(claim, TrueMass(claim, probes, o), FalseMass(claim, probes, o)) \in Nat
    BY <2>1, EntropyNat, RiskNat DEF FairClaim
  <2> QED
    BY <1>2, <2>2 DEF EntropyOf, RiskOf
<1>4. DOMAIN E = outcomes /\ DOMAIN R = outcomes
  BY DEF EntropyOf, RiskOf
<1>5. JointMetrics(claim, probes, size) =
        [information |-> EntropyMass(t, f) - SumFunction(E),
         risk |-> RiskMass(claim, t, f) - SumFunction(R)]
  BY DEF JointMetrics, EntropyOf, RiskOf, Scaled
<1>6. EntropyMass(t, f) \in Int /\ RiskMass(claim, t, f) \in Int
  <2>1. Power(size) \in Nat
    BY PowerNat
  <2>2. claim.prior \in Nat /\ Unit - claim.prior \in Nat
    BY PlannerAssumption DEF FairClaim
  <2>3. t \in Nat /\ f \in Nat
    BY <2>1, <2>2
  <2> HIDE DEF t, f
  <2>4. EntropyMass(t, f) \in Nat
    BY <2>3, EntropyNat
  <2>5. RiskMass(claim, t, f) \in Nat
    BY <2>3, RiskNat DEF FairClaim
  <2> QED
    BY <2>4, <2>5
<1> HIDE DEF E, R, outcomes, t, f
<1>7. SumFunction(E) = Sum(E, outcomes) /\ SumFunction(R) = Sum(R, outcomes)
  BY <1>1, <1>4, SumFunctionIsSum
<1>8. Sum(E, outcomes) \in Int /\ Sum(R, outcomes) \in Int
  BY <1>1, <1>3, SumStep
<1>9. /\ JointMetrics(claim, probes, size).information = EntropyMass(t, f) - Sum(E, outcomes)
      /\ JointMetrics(claim, probes, size).risk = RiskMass(claim, t, f) - Sum(R, outcomes)
      /\ JointMetrics(claim, probes, size) \in [information : Int, risk : Int]
  BY <1>5, <1>6, <1>7, <1>8
<1> QED
  BY <1>1, <1>3, <1>9 DEF E, R, outcomes, t, f

(* No probe tells nothing.                                                  *)
LEMMA NoProbes ==
  ASSUME NEW claim, FairClaim(claim), NEW probes, DOMAIN probes = {}, NEW size \in Nat
  PROVE  JointMetrics(claim, probes, size) = [information |-> 0, risk |-> 0]
<1> DEFINE s == Power(size)
           E == EntropyOf(claim, probes, size)
           R == RiskOf(claim, probes, size)
<1>1. Fair(probes)
  BY FS_EmptySet DEF Fair
<1>2. SUBSET DOMAIN probes = {{}}
  OBVIOUS
<1>3. Scaled(probes, size) = s
  <2>1. Cardinality(DOMAIN probes) = 0 /\ size - 0 = size
    BY FS_EmptySet
  <2> QED
    BY <2>1 DEF Scaled
<1>4. s \in Nat /\ claim.prior \in Nat /\ Unit - claim.prior \in Nat
  <2>1. s \in Nat
    BY PowerNat
  <2>2. claim.prior \in Nat /\ Unit - claim.prior \in Nat
    BY PlannerAssumption DEF FairClaim
  <2> QED
    BY <2>1, <2>2
<1>5. TrueMass(claim, probes, {}) = claim.prior
  <2>1. \A f : DOMAIN f = {} => ProductOf(f) = 1
    BY ProductOfNone
  <2>2. TrueMass(claim, probes, {}) = claim.prior * 1
    BY <2>1 DEF TrueMass
  <2> QED
    BY <1>4, <2>2
<1>6. FalseMass(claim, probes, {}) = Unit - claim.prior
  <2>1. \A f : DOMAIN f = {} => ProductOf(f) = 1
    BY ProductOfNone
  <2>2. FalseMass(claim, probes, {}) = (Unit - claim.prior) * 1
    BY <2>1 DEF FalseMass
  <2> QED
    BY <1>4, <2>2
<1> DEFINE u == claim.prior
           v == Unit - claim.prior
<1>7. /\ E[{}] = s * EntropyMass(u, v) /\ R[{}] = s * RiskMass(claim, u, v)
  BY <1>2, <1>3, <1>5, <1>6 DEF EntropyOf, RiskOf
<1>8. /\ EntropyMass(u * s, v * s) = s * EntropyMass(u, v)
      /\ RiskMass(claim, u * s, v * s) = s * RiskMass(claim, u, v)
  <2>1. s \in Nat /\ u \in Nat /\ v \in Nat
    BY <1>4
  <2> HIDE DEF s, u, v
  <2>2. EntropyMass(u * s, v * s) = s * EntropyMass(u, v)
    BY <2>1, EntropyScales
  <2>3. RiskMass(claim, u * s, v * s) = s * RiskMass(claim, u, v)
    BY <2>1, RiskScales DEF FairClaim
  <2> QED
    BY <2>2, <2>3
<1>9. /\ JointMetrics(claim, probes, size).information
           = EntropyMass(u * s, v * s) - Sum(E, SUBSET DOMAIN probes)
      /\ JointMetrics(claim, probes, size).risk
           = RiskMass(claim, u * s, v * s) - Sum(R, SUBSET DOMAIN probes)
      /\ JointMetrics(claim, probes, size) \in [information : Int, risk : Int]
      /\ IsFiniteSet(SUBSET DOMAIN probes)
      /\ \A o \in SUBSET DOMAIN probes : E[o] \in Int /\ R[o] \in Int
  BY <1>1, JointIs
<1> HIDE DEF E, R, u, v, s
<1>10. Sum(E, {{}}) = E[{}] /\ Sum(R, {{}}) = R[{}]
  <2>1. ASSUME NEW h, h[{}] \in Int
        PROVE  Sum(h, {{}}) = h[{}]
    <3>1. IsFiniteSet({}) /\ {{}} = {} \cup {{}} /\ {} \notin {}
      BY FS_EmptySet
    <3>2. Sum(h, {}) = 0
      BY <3>1, SumStep
    <3>3. Sum(h, {} \cup {{}}) = h[{}] + Sum(h, {})
      BY <2>1, <3>1, SumAdd
    <3> QED
      BY <2>1, <3>1, <3>2, <3>3
  <2> QED
    BY <1>2, <1>9, <2>1
<1>11. E[{}] \in Int /\ R[{}] \in Int
  BY <1>2, <1>9
<1>12. /\ JointMetrics(claim, probes, size).information = 0
       /\ JointMetrics(claim, probes, size).risk = 0
  <2>1. /\ JointMetrics(claim, probes, size).information = E[{}] - E[{}]
        /\ JointMetrics(claim, probes, size).risk = R[{}] - R[{}]
    BY <1>2, <1>7, <1>8, <1>9, <1>10, Zenon
  <2> QED
    BY <1>11, <2>1
<1> QED
  BY <1>9, <1>12

-----------------------------------------------------------------------------
(* What a set of probes is worth to claim c.                                *)
MetricsOf(spec, c, S) ==
  JointMetrics(spec.claims[c], [q \in S |-> spec.probes[q]], Len(spec.probes))

LEMMA MetricsTyped ==
  ASSUME NEW spec, Accepted(spec), NEW c \in DOMAIN spec.claims,
         NEW S \in SUBSET DOMAIN spec.probes
  PROVE  /\ MetricsOf(spec, c, S) \in [information : Int, risk : Int]
         /\ S = {} => MetricsOf(spec, c, S) = [information |-> 0, risk |-> 0]
<1> DEFINE probes == [q \in S |-> spec.probes[q]]
           claim == spec.claims[c]
           size == Len(spec.probes)
<1>1. FairClaim(claim)
  BY AcceptedClaims DEF FairClaim
<1>2. size \in Nat /\ IsFiniteSet(S)
  BY AcceptedSizes, FS_Subset
<1>3. \A q \in S : /\ spec.probes[q].sensitivity \in 0..Unit
                   /\ spec.probes[q].specificity \in 0..Unit
  BY AcceptedProbes
<1>4. DOMAIN probes = S /\ \A q \in S : probes[q] = spec.probes[q]
  OBVIOUS
<1>5. MetricsOf(spec, c, S) = JointMetrics(claim, probes, size)
  BY DEF MetricsOf
<1> HIDE DEF probes, claim, size
<1>6. Fair(probes)
  BY <1>2, <1>3, <1>4 DEF Fair
<1>7. JointMetrics(claim, probes, size) \in [information : Int, risk : Int]
  BY <1>1, <1>2, <1>6, JointIs
<1>8. S = {} => JointMetrics(claim, probes, size) = [information |-> 0, risk |-> 0]
  BY <1>1, <1>2, <1>4, NoProbes
<1> QED
  BY <1>5, <1>7, <1>8

(* The claim of a probe.                                                    *)
LEMMA ClaimIs ==
  ASSUME NEW spec, Accepted(spec), NEW p \in DOMAIN spec.probes
  PROVE  /\ ClaimIndex(spec, p) \in DOMAIN spec.claims
         /\ spec.claims[ClaimIndex(spec, p)].id = spec.probes[p].claim
         /\ ClaimOf(spec, p) = spec.claims[ClaimIndex(spec, p)]
         /\ \A c \in DOMAIN spec.claims :
              spec.claims[c].id = spec.probes[p].claim <=> c = ClaimIndex(spec, p)
<1>1. \E c \in DOMAIN spec.claims : spec.claims[c].id = spec.probes[p].claim
  BY AcceptedProbes
<1>2. /\ ClaimIndex(spec, p) \in DOMAIN spec.claims
      /\ spec.claims[ClaimIndex(spec, p)].id = spec.probes[p].claim
  BY <1>1 DEF ClaimIndex
<1>3. \A c \in DOMAIN spec.claims :
        spec.claims[c].id = spec.probes[p].claim => c = ClaimIndex(spec, p)
  BY <1>2, AcceptedSizes DEF Distinct
<1>4. ClaimOf(spec, p) \in Range(spec.claims) /\ ClaimOf(spec, p).id = spec.probes[p].claim
  BY <1>1 DEF ClaimOf, Range
<1>5. PICK c \in DOMAIN spec.claims : ClaimOf(spec, p) = spec.claims[c]
  BY <1>4 DEF Range
<1>6. c = ClaimIndex(spec, p)
  BY <1>3, <1>4, <1>5
<1> QED
  BY <1>2, <1>3, <1>5, <1>6

-----------------------------------------------------------------------------
(* Costs and values of the probes chosen.                                   *)

Cost(spec, field) == [q \in DOMAIN spec.probes |-> spec.probes[q][field]]

LEMMA SpentIs ==
  ASSUME NEW spec, Accepted(spec), NEW field \in {"usd", "seconds"},
         NEW S \in SUBSET DOMAIN spec.probes
  PROVE  /\ Spent(spec, S, field) \in Int
         /\ S = {} => Spent(spec, S, field) = 0
         /\ \A p \in DOMAIN spec.probes \ S :
              Spent(spec, S \cup {p}, field) = Spent(spec, S, field) + spec.probes[p][field]
<1> DEFINE cost == Cost(spec, field)
<1>1. \A q \in DOMAIN spec.probes : cost[q] = spec.probes[q][field] /\ cost[q] \in Int
  <2>1. \A q \in DOMAIN spec.probes : /\ spec.probes[q]["usd"] \in Int
                                      /\ spec.probes[q]["seconds"] \in Int
    BY AcceptedProbes
  <2> QED
    BY <2>1 DEF Cost
<1>2. ASSUME NEW T \in SUBSET DOMAIN spec.probes
      PROVE  Spent(spec, T, field) = Sum(cost, T) /\ IsFiniteSet(T) /\ Sum(cost, T) \in Int
  <2> DEFINE f == [q \in T |-> spec.probes[q][field]]
  <2>1. IsFiniteSet(T)
    BY AcceptedSizes, FS_Subset
  <2>2. DOMAIN f = T /\ \A q \in T : f[q] = spec.probes[q][field]
    OBVIOUS
  <2>3. Spent(spec, T, field) = SumFunction(f)
    BY DEF Spent
  <2> HIDE DEF f, cost
  <2>4. SumFunction(f) = Sum(f, T)
    BY <2>1, <2>2, SumFunctionIsSum
  <2>5. Sum(f, T) = Sum(cost, T)
    BY <1>1, <2>1, <2>2, SumSame
  <2>6. Sum(cost, T) \in Int
    BY <1>1, <2>1, SumStep
  <2> QED
    BY <2>1, <2>3, <2>4, <2>5, <2>6
<1> HIDE DEF cost
<1>3. S = {} => Sum(cost, S) = 0
  BY <1>1, <1>2, SumStep
<1>4. ASSUME NEW p \in DOMAIN spec.probes \ S
      PROVE  Spent(spec, S \cup {p}, field) = Spent(spec, S, field) + spec.probes[p][field]
  <2>1. Sum(cost, S \cup {p}) = cost[p] + Sum(cost, S)
    BY <1>1, <1>2, SumAdd
  <2>2. S \cup {p} \in SUBSET DOMAIN spec.probes
    OBVIOUS
  <2>3. /\ Spent(spec, S \cup {p}, field) = Sum(cost, S \cup {p})
        /\ Spent(spec, S, field) = Sum(cost, S) /\ Sum(cost, S) \in Int
    BY <1>2, <2>2
  <2> QED
    BY <1>1, <2>1, <2>3
<1> QED
  BY <1>2, <1>3, <1>4

Fields == {"information", "risk"}

(* The probes of a claim, and what they are worth to it.                    *)
Mine(spec, S, c) == SameClaim(spec, S, spec.claims[c])

LEMMA MineGrows ==
  ASSUME NEW spec, Accepted(spec), NEW S \in SUBSET DOMAIN spec.probes,
         NEW p \in DOMAIN spec.probes, NEW c \in DOMAIN spec.claims
  PROVE  /\ Mine(spec, S, c) \in SUBSET DOMAIN spec.probes
         /\ c # ClaimIndex(spec, p) => Mine(spec, S \cup {p}, c) = Mine(spec, S, c)
         /\ c = ClaimIndex(spec, p) =>
              /\ Mine(spec, S \cup {p}, c) = OfClaim(spec, S, p) \cup {p}
              /\ Mine(spec, S, c) = OfClaim(spec, S, p)
<1>1. spec.claims[c].id = spec.probes[p].claim <=> c = ClaimIndex(spec, p)
  BY ClaimIs
<1> QED
  BY <1>1 DEF Mine, SameClaim, OfClaim

Share(spec, S, c, field) ==
  spec.claims[c].importance * MetricsOf(spec, c, Mine(spec, S, c))[field]

LEMMA ShareOfOthers ==
  ASSUME NEW spec, Accepted(spec), NEW S \in SUBSET DOMAIN spec.probes, NEW field,
         NEW p \in DOMAIN spec.probes, NEW k \in DOMAIN spec.claims,
         k # ClaimIndex(spec, p)
  PROVE  Share(spec, S \cup {p}, k, field) = Share(spec, S, k, field)
<1>1. Mine(spec, S \cup {p}, k) = Mine(spec, S, k)
  <2>1. spec.claims[k].id # spec.probes[p].claim
    BY ClaimIs
  <2> QED
    BY <2>1 DEF Mine, SameClaim
<1> QED
  BY <1>1 DEF Share

LEMMA WorthIs ==
  ASSUME NEW spec, Accepted(spec), NEW field \in Fields,
         NEW S \in SUBSET DOMAIN spec.probes
  PROVE  LET share == [c \in DOMAIN spec.claims |-> Share(spec, S, c, field)]
         IN  /\ Worth(spec, S, field) = Sum(share, DOMAIN spec.claims)
             /\ Worth(spec, S, field) \in Int
             /\ \A c \in DOMAIN spec.claims : Share(spec, S, c, field) \in Int
<1> DEFINE share == [c \in DOMAIN spec.claims |-> Share(spec, S, c, field)]
<1>1. \A c \in DOMAIN spec.claims : Share(spec, S, c, field) \in Int
  <2> TAKE c \in DOMAIN spec.claims
  <2>1. Mine(spec, S, c) \in SUBSET DOMAIN spec.probes
    BY DEF Mine, SameClaim
  <2>2. MetricsOf(spec, c, Mine(spec, S, c)) \in [information : Int, risk : Int]
    BY <2>1, MetricsTyped
  <2>3. MetricsOf(spec, c, Mine(spec, S, c))[field] \in Int
    BY <2>2 DEF Fields
  <2>4. spec.claims[c].importance \in Int
    BY AcceptedClaims
  <2> QED
    BY <2>3, <2>4 DEF Share
<1>2. DOMAIN share = DOMAIN spec.claims /\ \A c \in DOMAIN spec.claims : share[c] \in Int
  BY <1>1
<1>3. Worth(spec, S, field) = SumFunction(share)
  BY DEF Worth, Share, MetricsOf, Mine
<1>4. IsFiniteSet(DOMAIN spec.claims)
  BY AcceptedSizes
<1> HIDE DEF share
<1>5. SumFunction(share) = Sum(share, DOMAIN spec.claims)
  BY <1>2, <1>4, SumFunctionIsSum
<1>6. Sum(share, DOMAIN spec.claims) \in Int
  BY <1>2, <1>4, SumStep
<1> QED
  BY <1>1, <1>3, <1>5, <1>6 DEF share

(* A probe changes the worth to its own claim only.                         *)
LEMMA GainIs ==
  ASSUME NEW spec, Accepted(spec), NEW field \in Fields,
         NEW S \in SUBSET DOMAIN spec.probes, NEW p \in DOMAIN spec.probes
  PROVE  LET c == ClaimIndex(spec, p)
         IN  /\ Gain(spec, S, p, field) \in Int
             /\ Gain(spec, S, p, field) =
                  (MetricsOf(spec, c, OfClaim(spec, S, p) \cup {p})[field]
                     - MetricsOf(spec, c, OfClaim(spec, S, p))[field])
                  * spec.claims[c].importance
<1> DEFINE c == ClaimIndex(spec, p)
           D == DOMAIN spec.claims
           f == [k \in D |-> Share(spec, S, k, field)]
           g == [k \in D |-> Share(spec, S \cup {p}, k, field)]
           new == MetricsOf(spec, c, OfClaim(spec, S, p) \cup {p})[field]
           old == MetricsOf(spec, c, OfClaim(spec, S, p))[field]
           importance == spec.claims[c].importance
<1>1. c \in D /\ IsFiniteSet(D)
  BY ClaimIs, AcceptedSizes
<1>2. S \cup {p} \in SUBSET DOMAIN spec.probes
  OBVIOUS
<1>3. /\ Worth(spec, S, field) = Sum(f, D) /\ Worth(spec, S, field) \in Int
      /\ \A k \in D : f[k] = Share(spec, S, k, field) /\ f[k] \in Int
  BY WorthIs
<1>4. /\ Worth(spec, S \cup {p}, field) = Sum(g, D) /\ Worth(spec, S \cup {p}, field) \in Int
      /\ \A k \in D : g[k] = Share(spec, S \cup {p}, k, field) /\ g[k] \in Int
  BY <1>2, WorthIs
<1> HIDE DEF f, g
<1>5. \A k \in D \ {c} : f[k] = g[k]
  <2> TAKE k \in D \ {c}
  <2>1. k \in DOMAIN spec.claims /\ k # ClaimIndex(spec, p)
    OBVIOUS
  <2>2. Share(spec, S \cup {p}, k, field) = Share(spec, S, k, field)
    BY <2>1, ShareOfOthers
  <2> QED
    BY <1>3, <1>4, <2>2
<1>6. /\ Mine(spec, S \cup {p}, c) = OfClaim(spec, S, p) \cup {p}
      /\ Mine(spec, S, c) = OfClaim(spec, S, p)
  BY <1>1, MineGrows
<1>7. f[c] = importance * old /\ g[c] = importance * new
  BY <1>1, <1>3, <1>4, <1>6 DEF Share
<1>8. new \in Int /\ old \in Int /\ importance \in Int
  <2>1. /\ OfClaim(spec, S, p) \cup {p} \in SUBSET DOMAIN spec.probes
        /\ OfClaim(spec, S, p) \in SUBSET DOMAIN spec.probes
    BY DEF OfClaim
  <2>2. /\ MetricsOf(spec, c, OfClaim(spec, S, p) \cup {p}) \in [information : Int, risk : Int]
        /\ MetricsOf(spec, c, OfClaim(spec, S, p)) \in [information : Int, risk : Int]
    BY <1>1, <2>1, MetricsTyped
  <2> QED
    BY <1>1, <2>2, AcceptedClaims DEF Fields
<1> HIDE DEF new, old, importance, c, D
<1>9. /\ Sum(f, D) = f[c] + Sum(f, D \ {c}) /\ Sum(g, D) = g[c] + Sum(g, D \ {c})
  <2>1. \A k \in D : f[k] \in Int /\ g[k] \in Int
    BY <1>3, <1>4
  <2>2. Sum(f, D) = f[c] + Sum(f, D \ {c})
    BY <1>1, <2>1, SumStep
  <2>3. Sum(g, D) = g[c] + Sum(g, D \ {c})
    BY <1>1, <2>1, SumStep
  <2> QED
    BY <2>2, <2>3
<1>10. Sum(f, D \ {c}) = Sum(g, D \ {c}) /\ Sum(f, D \ {c}) \in Int
  <2>1. IsFiniteSet(D \ {c})
    BY <1>1, FS_Subset
  <2> QED
    BY <1>3, <1>5, <2>1, SumSame, SumStep
<1>11. Gain(spec, S, p, field) = g[c] - f[c]
  BY <1>1, <1>3, <1>4, <1>9, <1>10 DEF Gain
<1>12. importance * new - importance * old = (new - old) * importance
  BY <1>8
<1>13. Gain(spec, S, p, field) = (new - old) * importance
  BY <1>7, <1>11, <1>12
<1>14. Gain(spec, S, p, field) \in Int
  BY <1>8, <1>13
<1> QED
  BY <1>13, <1>14 DEF new, old, importance, c

-----------------------------------------------------------------------------
(* The order of candidates.                                                 *)

(* What a candidate shows of itself.                                        *)
Offer(x) ==
  /\ x.information \in Int /\ x.risk \in Int
  /\ x.usd \in Nat /\ x.seconds \in Nat /\ x.index \in Nat

Rate(value, cost) ==
  IF cost > 0 THEN <<value, cost>> ELSE IF value > 0 THEN <<1, 0>> ELSE <<0, 1>>

(* What the strategy maximises, as a fraction: of a candidate.              *)
Key(x, strategy) ==
  CASE strategy = "max_information" -> <<x.information, 1>>
    [] strategy = "information_per_usd" -> Rate(x.information, x.usd)
    [] strategy = "information_per_second" -> Rate(x.information, x.seconds)
    [] strategy = "max_risk_reduction" -> <<x.risk, 1>>

Fraction(v) == v[1] \in Int /\ v[2] \in Nat /\ (v[2] = 0 => v[1] = 1)

LEMMA RateIs ==
  ASSUME NEW value \in Int, NEW cost \in Nat
  PROVE  /\ Fraction(Rate(value, cost))
         /\ Rate(value, cost)[1] > 0 <=> value > 0
  BY DEF Fraction, Rate

LEMMA KeyIs ==
  ASSUME NEW x, Offer(x), NEW strategy \in Strategies
  PROVE  /\ Fraction(Key(x, strategy))
         /\ Key(x, strategy)[1] > 0 <=> HasPositiveValue(x, strategy)
         /\ Key(x, strategy)[1] > 0 => x.information > 0 \/ x.risk > 0
<1>1. \A v \in Int : Fraction(<<v, 1>>) /\ <<v, 1>>[1] = v
  BY DEF Fraction
<1>2. /\ Fraction(Rate(x.information, x.usd))
      /\ Rate(x.information, x.usd)[1] > 0 <=> x.information > 0
      /\ Fraction(Rate(x.information, x.seconds))
      /\ Rate(x.information, x.seconds)[1] > 0 <=> x.information > 0
  BY RateIs DEF Offer
<1>3. x.information \in Int /\ x.risk \in Int
  BY DEF Offer
<1>4. CASE strategy = "max_information"
  BY <1>1, <1>3, <1>4 DEF Key, HasPositiveValue
<1>5. CASE strategy = "information_per_usd"
  BY <1>2, <1>3, <1>5 DEF Key, HasPositiveValue
<1>6. CASE strategy = "information_per_second"
  BY <1>2, <1>3, <1>6 DEF Key, HasPositiveValue
<1>7. CASE strategy = "max_risk_reduction"
  BY <1>1, <1>3, <1>7 DEF Key, HasPositiveValue
<1> QED
  BY <1>4, <1>5, <1>6, <1>7 DEF Strategies

LEMMA ProductsInOrder ==
  ASSUME NEW a \in Int, NEW b \in Int, NEW d \in Nat, a >= b
  PROVE  a * d >= b * d
  OBVIOUS

LEMMA DivideOut ==
  ASSUME NEW a \in Int, NEW b \in Int, NEW d \in Nat, d > 0, a * d >= b * d
  PROVE  a >= b
  OBVIOUS

LEMMA AtLeastTransitive ==
  ASSUME NEW u, NEW v, NEW w, Fraction(u), Fraction(v), Fraction(w),
         AtLeast(u, v), AtLeast(v, w)
  PROVE  AtLeast(u, w)
<1> DEFINE a == u[1]
           b == u[2]
           c == v[1]
           d == v[2]
           e == w[1]
           f == w[2]
<1>1. /\ a \in Int /\ c \in Int /\ e \in Int /\ b \in Nat /\ d \in Nat /\ f \in Nat
      /\ b = 0 => a = 1
      /\ d = 0 => c = 1
  BY DEF Fraction
<1>2. a * d >= c * b /\ c * f >= e * d
  BY DEF AtLeast
<1>3. AtLeast(u, w) <=> a * f >= e * b
  BY DEF AtLeast
<1> HIDE DEF a, b, c, d, e, f
<1>4. CASE d > 0
  <2>1. a * d \in Int /\ c * b \in Int /\ c * f \in Int /\ e * d \in Int
        /\ a * f \in Int /\ e * b \in Int
    BY <1>1
  <2>2. (a * d) * f >= (c * b) * f /\ (c * f) * b >= (e * d) * b
    BY <1>1, <1>2, <2>1, ProductsInOrder
  <2>3. /\ (a * d) * f = (a * f) * d /\ (c * b) * f = (c * f) * b
        /\ (e * d) * b = (e * b) * d
    BY <1>1
  <2>4. (a * f) * d \in Int /\ (c * f) * b \in Int /\ (e * b) * d \in Int
    BY <1>1, <2>1
  <2>5. (a * f) * d >= (e * b) * d
    BY <2>2, <2>3, <2>4
  <2>6. a * f >= e * b
    BY <1>1, <1>4, <2>1, <2>5, DivideOut
  <2> QED
    BY <1>3, <2>6
<1>5. CASE d = 0
  <2>1. c = 1 /\ a * d = 0 /\ c * b = b
    BY <1>1, <1>5
  <2>2. b = 0 /\ a = 1
    BY <1>1, <1>2, <2>1
  <2>3. a * f = f /\ e * b = 0
    BY <1>1, <2>2
  <2> QED
    BY <1>1, <1>3, <2>3
<1> QED
  BY <1>1, <1>4, <1>5

LEMMA SignIs ==
  ASSUME NEW n \in Int
  PROVE  /\ Sign(n) \in {-1, 0, 1}
         /\ Sign(n) = 1 <=> n > 0
         /\ Sign(n) = -1 <=> n < 0
  BY DEF Sign

LEMMA RatioIs ==
  ASSUME NEW value \in Int, NEW cost \in Nat, NEW value2 \in Int, NEW cost2 \in Nat
  PROVE  /\ RatioOrder(value, cost, value2, cost2) \in {-1, 0, 1}
         /\ RatioOrder(value, cost, value2, cost2) # -1
              => AtLeast(Rate(value, cost), Rate(value2, cost2))
         /\ RatioOrder(value, cost, value2, cost2) # 1
              => AtLeast(Rate(value2, cost2), Rate(value, cost))
<1> DEFINE free == cost = 0 /\ value > 0
           free2 == cost2 = 0 /\ value2 > 0
           num == IF cost = 0 THEN 0 ELSE value
           den == IF cost = 0 THEN 1 ELSE cost
           num2 == IF cost2 = 0 THEN 0 ELSE value2
           den2 == IF cost2 = 0 THEN 1 ELSE cost2
           order == RatioOrder(value, cost, value2, cost2)
           u == Rate(value, cost)
           v == Rate(value2, cost2)
<1>1. /\ num \in Int /\ den \in Nat /\ den > 0
      /\ num2 \in Int /\ den2 \in Nat /\ den2 > 0
  OBVIOUS
<1>2. /\ free => u[1] = 1 /\ u[2] = 0
      /\ ~free => u[1] = num /\ u[2] = den
      /\ free2 => v[1] = 1 /\ v[2] = 0
      /\ ~free2 => v[1] = num2 /\ v[2] = den2
  BY DEF Rate
<1>3. free \in BOOLEAN /\ free2 \in BOOLEAN
  OBVIOUS
<1>4. /\ free /\ ~free2 => order = 1
      /\ free2 /\ ~free => order = -1
      /\ free /\ free2 => order = 0
      /\ ~free /\ ~free2 => order = Sign(num * den2 - num2 * den)
  BY DEF RatioOrder
<1>5. /\ AtLeast(u, v) <=> u[1] * v[2] >= v[1] * u[2]
      /\ AtLeast(v, u) <=> v[1] * u[2] >= u[1] * v[2]
  BY DEF AtLeast
<1> HIDE DEF free, free2, num, den, num2, den2, order, u, v
<1>6. CASE free /\ ~free2
  BY <1>1, <1>2, <1>4, <1>5, <1>6 DEF order, u, v
<1>7. CASE free2 /\ ~free
  BY <1>1, <1>2, <1>4, <1>5, <1>7 DEF order, u, v
<1>8. CASE free /\ free2
  BY <1>1, <1>2, <1>4, <1>5, <1>8 DEF order, u, v
<1>9. CASE ~free /\ ~free2
  <2> DEFINE x == num * den2
             y == num2 * den
  <2>1. x \in Int /\ y \in Int
    BY <1>1
  <2>2. order = Sign(x - y) /\ (AtLeast(u, v) <=> x >= y) /\ (AtLeast(v, u) <=> y >= x)
    BY <1>2, <1>4, <1>5, <1>9
  <2> HIDE DEF x, y
  <2>3. x - y \in Int
    BY <2>1
  <2>4. /\ order \in {-1, 0, 1}
        /\ order = 1 <=> x - y > 0
        /\ order = -1 <=> x - y < 0
    BY <2>2, <2>3, SignIs
  <2> QED
    BY <2>1, <2>2, <2>4 DEF order, u, v
<1> QED
  BY <1>6, <1>7, <1>8, <1>9 DEF order, u, v

LEMMA PrimaryIs ==
  ASSUME NEW a, NEW b, Offer(a), Offer(b), NEW strategy \in Strategies
  PROVE  /\ PrimaryOrder(a, b, strategy) \in {-1, 0, 1}
         /\ PrimaryOrder(a, b, strategy) # -1
              => AtLeast(Key(a, strategy), Key(b, strategy))
         /\ PrimaryOrder(a, b, strategy) # 1
              => AtLeast(Key(b, strategy), Key(a, strategy))
<1>1. ASSUME NEW m \in Int, NEW n \in Int
      PROVE  /\ Sign(m - n) \in {-1, 0, 1}
             /\ Sign(m - n) # -1 => AtLeast(<<m, 1>>, <<n, 1>>)
             /\ Sign(m - n) # 1 => AtLeast(<<n, 1>>, <<m, 1>>)
  BY DEF Sign, AtLeast
<1>2. /\ a.information \in Int /\ b.information \in Int /\ a.risk \in Int /\ b.risk \in Int
      /\ a.usd \in Nat /\ b.usd \in Nat /\ a.seconds \in Nat /\ b.seconds \in Nat
  BY DEF Offer
<1>3. CASE strategy = "max_information"
  BY <1>1, <1>2, <1>3 DEF PrimaryOrder, Key
<1>4. CASE strategy = "information_per_usd"
  <2>1. PrimaryOrder(a, b, strategy) = RatioOrder(a.information, a.usd, b.information, b.usd)
    BY <1>4 DEF PrimaryOrder
  <2>2. /\ Key(a, strategy) = Rate(a.information, a.usd)
        /\ Key(b, strategy) = Rate(b.information, b.usd)
    BY <1>4 DEF Key
  <2> QED
    BY <1>2, <2>1, <2>2, RatioIs
<1>5. CASE strategy = "information_per_second"
  <2>1. PrimaryOrder(a, b, strategy)
          = RatioOrder(a.information, a.seconds, b.information, b.seconds)
    BY <1>5 DEF PrimaryOrder
  <2>2. /\ Key(a, strategy) = Rate(a.information, a.seconds)
        /\ Key(b, strategy) = Rate(b.information, b.seconds)
    BY <1>5 DEF Key
  <2> QED
    BY <1>2, <2>1, <2>2, RatioIs
<1>6. CASE strategy = "max_risk_reduction"
  BY <1>1, <1>2, <1>6 DEF PrimaryOrder, Key
<1> QED
  BY <1>3, <1>4, <1>5, <1>6 DEF Strategies

(* Whichever of two candidates is kept, its value is not the smaller one.   *)
LEMMA BetterIs ==
  ASSUME NEW a, NEW b, Offer(a), Offer(b), NEW strategy \in Strategies
  PROVE  /\ CandidateIsBetter(a, b, strategy)
              => AtLeast(Key(a, strategy), Key(b, strategy))
         /\ ~CandidateIsBetter(a, b, strategy)
              => AtLeast(Key(b, strategy), Key(a, strategy))
<1> DEFINE orders == << PrimaryOrder(a, b, strategy),
                        Sign(a.information - b.information), Sign(a.risk - b.risk),
                        Sign(b.usd - a.usd), Sign(b.seconds - a.seconds),
                        Sign(b.id - a.id) >>
<1>1. /\ CandidateIsBetter(a, b, strategy)
           <=> \E k \in DOMAIN orders : orders[k] = 1 /\ \A j \in 1..(k - 1) : orders[j] = 0
      /\ DOMAIN orders = 1..6 /\ orders[1] = PrimaryOrder(a, b, strategy)
  BY DEF CandidateIsBetter
<1> HIDE DEF orders
<1>2. CandidateIsBetter(a, b, strategy) => PrimaryOrder(a, b, strategy) # -1
  <2> SUFFICES ASSUME NEW k \in 1..6, orders[k] = 1, \A j \in 1..(k - 1) : orders[j] = 0
               PROVE  orders[1] # -1
    BY <1>1
  <2>1. k = 1 \/ 1 \in 1..(k - 1)
    OBVIOUS
  <2> QED
    BY <2>1
<1>3. ~CandidateIsBetter(a, b, strategy) => PrimaryOrder(a, b, strategy) # 1
  <2>1. 1 \in 1..6 /\ \A j : j \notin 1..(1 - 1)
    OBVIOUS
  <2> QED
    BY <1>1, <2>1
<1> QED
  BY <1>2, <1>3, PrimaryIs

-----------------------------------------------------------------------------
(* The best candidate.                                                      *)

(* What holds of nothing, and of a set once it holds without the member     *)
(* taken from it, holds of a finite set.                                    *)
LEMMA FoldInduction ==
  ASSUME NEW S, IsFiniteSet(S), NEW c, Picks(c, S), NEW P, {} \in P,
         \A s \in SUBSET S : s # {} /\ s \ {c[s]} \in P => s \in P
  PROVE  S \in P
<1> DEFINE Q == {n \in Nat : \A s \in SUBSET S : Cardinality(s) = n => s \in P}
<1>1. \A s \in SUBSET S :
        /\ IsFiniteSet(s) /\ Cardinality(s) \in Nat
        /\ s # {} => s \ {c[s]} \in SUBSET S /\ Cardinality(s \ {c[s]}) = Cardinality(s) - 1
  BY FS_Subset, FS_CardinalityType, FS_RemoveElement DEF Picks
<1>2. 0 \in Q
  BY <1>1, FS_EmptySet
<1>3. ASSUME NEW n \in Nat, n \in Q
      PROVE  n + 1 \in Q
  <2> SUFFICES ASSUME NEW s \in SUBSET S, Cardinality(s) = n + 1
               PROVE  s \in P
    OBVIOUS
  <2>1. s # {}
    BY <1>1, FS_EmptySet
  <2>2. s \ {c[s]} \in SUBSET S /\ Cardinality(s \ {c[s]}) = n
    <3>1. s \ {c[s]} \in SUBSET S /\ Cardinality(s \ {c[s]}) = Cardinality(s) - 1
      BY <1>1, <2>1, Zenon
    <3> QED
      BY <3>1
  <2>3. s \ {c[s]} \in P
    BY <1>3, <2>2
  <2> QED
    BY <2>1, <2>3
<1> HIDE DEF Q
<1>4. Nat \subseteq Q
  BY <1>2, <1>3, NaturalInduction
<1> QED
  BY <1>1, <1>4 DEF Q

Offers(candidates) == IsFiniteSet(candidates) /\ \A x \in candidates : Offer(x)

LEMMA EndsExist ==
  ASSUME NEW S, Offers(S), S # {}
  PROVE  /\ \E c \in S : \A d \in S : c.index <= d.index
         /\ \E c \in S : \A d \in S : c.index >= d.index
<1> DEFINE f == [x \in S |-> x.index]
           I == {f[x] : x \in S}
<1>1. \A x \in S : f[x] = x.index /\ x.index \in Nat
  BY DEF Offers, Offer
<1>2. IsFiniteSet(I)
  <2> HIDE DEF f
  <2> QED
    BY FiniteImage DEF Offers
<1>3. I # {} /\ I \subseteq Nat /\ I \subseteq Int
  BY <1>1
<1>4. /\ \A i \in I : \E x \in S : x.index = i
      /\ \A x \in S : x.index \in I
  BY <1>1
<1> HIDE DEF I
<1>5. \E i \in I : \A j \in I : i <= j
  BY <1>3, LeastNat
<1>6. \E i \in I : \A j \in I : i >= j
  BY <1>2, <1>3, GreatestInt
<1>7. \E c \in S : \A d \in S : c.index <= d.index
  <2>1. PICK i \in I : \A j \in I : i <= j
    BY <1>5
  <2>2. PICK c \in S : c.index = i
    BY <1>4
  <2> QED
    BY <1>4, <2>1, <2>2
<1>8. \E c \in S : \A d \in S : c.index >= d.index
  <2>1. PICK i \in I : \A j \in I : i >= j
    BY <1>6
  <2>2. PICK c \in S : c.index = i
    BY <1>4
  <2> QED
    BY <1>4, <2>1, <2>2
<1> QED
  BY <1>7, <1>8

Foremost(S) == CHOOSE c \in S : \A d \in S : c.index <= d.index
Hindmost(S) == CHOOSE c \in S : \A d \in S : c.index >= d.index

LEMMA EndsAreIn ==
  ASSUME NEW S, Offers(S), S # {}
  PROVE  Foremost(S) \in S /\ Hindmost(S) \in S
  BY EndsExist DEF Foremost, Hindmost

Preferred(c, best, strategy) == IF CandidateIsBetter(c, best, strategy) THEN c ELSE best

(* The best candidate is one of them, and none has more of what the         *)
(* strategy maximises.                                                      *)
LEMMA BestIs ==
  ASSUME NEW T, Offers(T), T # {}, NEW strategy \in Strategies
  PROVE  /\ BestCandidate(T, strategy) \in T
         /\ \A d \in T : AtLeast(Key(BestCandidate(T, strategy), strategy), Key(d, strategy))
<1> DEFINE first == Foremost(T)
           S == T \ {first}
           c == [s \in SUBSET S |-> Hindmost(s)]
           F == [x \in S |-> [t \in T |-> Preferred(x, t, strategy)]]
           Unrolled(g, s) ==
             IF s = {} THEN first
             ELSE Preferred(Hindmost(s), g[s \ {Hindmost(s)}], strategy)
           g == CHOOSE g : g = [s \in SUBSET S |-> Unrolled(g, s)]
<1>1. first \in T /\ IsFiniteSet(S) /\ S \subseteq T
  BY EndsAreIn, FS_Subset DEF Offers
<1>2. \A s \in SUBSET S : s # {} => Hindmost(s) \in s
  <2> SUFFICES ASSUME NEW s \in SUBSET S, s # {}
               PROVE  Hindmost(s) \in s
    OBVIOUS
  <2>1. Offers(s)
    BY <1>1, FS_Subset DEF Offers
  <2> QED
    BY <2>1, EndsAreIn
<1>3. Picks(c, S)
  BY <1>2 DEF Picks
<1>4. \E h \in [SUBSET S -> T] : Unfolds(h, S, c, first, F)
  <2>1. StaysIn(F, S, T)
    BY <1>1 DEF StaysIn, Preferred
  <2> HIDE DEF c, F, S, first
  <2> QED
    BY <1>1, <1>3, <2>1, FoldExists
<1>5. \E h \in [SUBSET S -> T] : h = [s \in SUBSET S |-> Unrolled(h, s)]
  <2>1. PICK h \in [SUBSET S -> T] : Unfolds(h, S, c, first, F)
    BY <1>4
  <2>2. ASSUME NEW s \in SUBSET S
        PROVE  h[s] = Unrolled(h, s)
    <3>1. CASE s = {}
      BY <2>1, <3>1 DEF Unfolds
    <3>2. CASE s # {}
      <4>1. c[s] = Hindmost(s) /\ Hindmost(s) \in S /\ h[s \ {Hindmost(s)}] \in T
        BY <1>2, <3>2
      <4>2. F[Hindmost(s)][h[s \ {Hindmost(s)}]]
              = Preferred(Hindmost(s), h[s \ {Hindmost(s)}], strategy)
        BY <4>1
      <4>3. h[s] = F[c[s]][h[s \ {c[s]}]]
        BY <2>1, <3>2 DEF Unfolds
      <4> HIDE DEF c, F, S, first
      <4> QED
        BY <3>2, <4>1, <4>2, <4>3
    <3> QED
      BY <3>1, <3>2
  <2> HIDE DEF Unrolled, S, F, c, first
  <2>3. h = [s \in SUBSET S |-> Unrolled(h, s)]
    BY <2>2
  <2> QED
    BY <2>3
<1> HIDE DEF Unrolled
<1>6. g = [s \in SUBSET S |-> Unrolled(g, s)]
  BY <1>5
<1>7. BestCandidate(T, strategy) = g[S]
  BY DEF BestCandidate, MapThenFoldSet, g, Unrolled, Preferred, Foremost, Hindmost
<1> HIDE DEF g, c
<1>8. g[{}] = first /\ \A s \in SUBSET S : s # {} =>
        g[s] = Preferred(Hindmost(s), g[s \ {Hindmost(s)}], strategy)
  BY <1>6 DEF Unrolled
<1> DEFINE P == {s \in SUBSET S : /\ g[s] \in s \cup {first}
                                  /\ \A d \in s \cup {first} :
                                       AtLeast(Key(g[s], strategy), Key(d, strategy))}
<1>9. \A x \in T : Offer(x) /\ Fraction(Key(x, strategy))
  BY KeyIs DEF Offers
<1>10. \A v : Fraction(v) => AtLeast(v, v)
  BY DEF AtLeast, Fraction
<1>11. {} \in P
  BY <1>1, <1>8, <1>9, <1>10
<1>12. ASSUME NEW s \in SUBSET S, s # {}, s \ {Hindmost(s)} \in P
       PROVE  s \in P
  <2> DEFINE x == Hindmost(s)
             r == s \ {x}
             old == g[r]
  <2>1. /\ x \in s /\ x \in T /\ old \in r \cup {first} /\ old \in T
        /\ \A d \in r \cup {first} : d \in T
                                       /\ AtLeast(Key(old, strategy), Key(d, strategy))
    BY <1>1, <1>2, <1>12
  <2>2. g[s] = IF CandidateIsBetter(x, old, strategy) THEN x ELSE old
    BY <1>8, <1>12 DEF Preferred
  <2>3. /\ CandidateIsBetter(x, old, strategy)
             => AtLeast(Key(x, strategy), Key(old, strategy))
        /\ ~CandidateIsBetter(x, old, strategy)
             => AtLeast(Key(old, strategy), Key(x, strategy))
    BY <1>9, <2>1, BetterIs
  <2>4. \A d \in s \cup {first} : d = x \/ d \in r \cup {first}
    OBVIOUS
  <2> HIDE DEF x, r, old
  <2>5. CASE CandidateIsBetter(x, old, strategy)
    <3>1. AtLeast(Key(x, strategy), Key(old, strategy))
      BY <2>3, <2>5
    <3>2. \A d \in r \cup {first} : AtLeast(Key(x, strategy), Key(d, strategy))
      BY <1>9, <2>1, <3>1, AtLeastTransitive
    <3>3. AtLeast(Key(x, strategy), Key(x, strategy))
      BY <1>9, <1>10, <2>1
    <3>4. g[s] = x
      BY <2>2, <2>5
    <3> QED
      BY <2>1, <2>4, <3>2, <3>3, <3>4
  <2>6. CASE ~CandidateIsBetter(x, old, strategy)
    <3>1. g[s] = old /\ AtLeast(Key(old, strategy), Key(x, strategy))
      BY <2>2, <2>3, <2>6
    <3>2. \A d \in s \cup {first} : AtLeast(Key(old, strategy), Key(d, strategy))
      BY <2>1, <2>4, <3>1
    <3>3. old \in s \cup {first}
      BY <2>1 DEF r
    <3> QED
      BY <3>1, <3>2, <3>3
  <2> QED
    BY <2>5, <2>6
<1> HIDE DEF P, S, first
<1>13. S \in P
  <2>1. \A s \in SUBSET S : s # {} => c[s] = Hindmost(s)
    BY DEF c
  <2> QED
    BY <1>1, <1>3, <1>11, <1>12, <2>1, FoldInduction
<1>14. T = S \cup {first}
  BY <1>1 DEF S
<1> QED
  BY <1>7, <1>13, <1>14 DEF P

-----------------------------------------------------------------------------
(* Looking only at the frontier loses nothing.                              *)

Positive(x) == x.information > 0 \/ x.risk > 0

FrontOf(T) == {c \in T : c.id \in FrontierIds(T)}

Named(T) == \A x, y \in T : x.id = y.id => x = y

LEMMA FrontIs ==
  ASSUME NEW T, Named(T)
  PROVE  FrontOf(T) = {x \in T : Positive(x) /\ ~ \E u \in T : Outdoes(u, x)}
  BY DEF FrontOf, FrontierIds, Positive, Named

LEMMA OutdoesOrders ==
  ASSUME NEW T, Offers(T)
  PROVE  StrictlyOrders({e \in T \X T : Outdoes(e[1], e[2])}, T)
<1> DEFINE R == {e \in T \X T : Outdoes(e[1], e[2])}
<1>1. \A u, v \in T : <<u, v>> \in R <=> Outdoes(u, v)
  OBVIOUS
<1>2. \A x \in T : ~Outdoes(x, x)
  BY DEF Offers, Offer, Outdoes
<1>3. \A x, y, z \in T : Outdoes(x, y) /\ Outdoes(y, z) => Outdoes(x, z)
  BY DEF Offers, Offer, Outdoes
<1> HIDE DEF R
<1>4. StrictlyOrders(R, T)
  BY <1>1, <1>2, <1>3 DEF StrictlyOrders
<1> QED
  BY <1>4 DEF R

LEMMA FrontCovers ==
  ASSUME NEW T, Offers(T), Named(T), NEW q \in T, Positive(q)
  PROVE  \E u \in FrontOf(T) : u = q \/ Outdoes(u, q)
<1> DEFINE R == {e \in T \X T : Outdoes(e[1], e[2])}
<1>1. \A u, v \in T : <<u, v>> \in R <=> Outdoes(u, v)
  OBVIOUS
<1>2. StrictlyOrders(R, T)
  BY OutdoesOrders
<1> HIDE DEF R
<1>3. CASE \E u \in T : Outdoes(u, q)
  <2>1. \E u \in T : <<u, q>> \in R
    BY <1>1, <1>3
  <2>2. PICK u \in T : <<u, q>> \in R /\ \A k \in T : <<k, u>> \notin R
    BY <1>2, <2>1, UndominatedExists DEF Offers
  <2>3. Outdoes(u, q) /\ ~ \E k \in T : Outdoes(k, u)
    BY <1>1, <2>2
  <2>4. Positive(u)
    BY <2>3 DEF Positive, Outdoes, Offers, Offer
  <2> QED
    BY <2>3, <2>4, FrontIs
<1>4. CASE ~ \E u \in T : Outdoes(u, q)
  BY <1>4, FrontIs
<1> QED
  BY <1>3, <1>4

LEMMA RateGrows ==
  ASSUME NEW v \in Int, NEW c \in Nat, NEW w \in Int, NEW d \in Nat,
         v >= w, c <= d, w > 0
  PROVE  AtLeast(Rate(v, c), Rate(w, d))
<1>1. v * d >= w * c
  <2>1. v * d >= w * d
    BY ProductsInOrder
  <2>2. d * w >= c * w
    BY ProductsInOrder
  <2>3. d * w = w * d /\ c * w = w * c /\ v * d \in Int /\ w * d \in Int /\ w * c \in Int
    OBVIOUS
  <2> QED
    BY <2>1, <2>2, <2>3
<1> QED
  BY <1>1 DEF AtLeast, Rate

LEMMA OutdoesKey ==
  ASSUME NEW u, NEW q, Offer(u), Offer(q), Outdoes(u, q), NEW strategy \in Strategies,
         Key(q, strategy)[1] > 0
  PROVE  AtLeast(Key(u, strategy), Key(q, strategy))
<1>1. /\ u.information \in Int /\ q.information \in Int /\ u.risk \in Int /\ q.risk \in Int
      /\ u.usd \in Nat /\ q.usd \in Nat /\ u.seconds \in Nat /\ q.seconds \in Nat
      /\ u.information >= q.information /\ u.risk >= q.risk
      /\ u.usd <= q.usd /\ u.seconds <= q.seconds
  BY DEF Offer, Outdoes
<1>2. HasPositiveValue(q, strategy)
  BY KeyIs
<1>3. CASE strategy = "max_information"
  BY <1>1, <1>3 DEF Key, AtLeast
<1>4. CASE strategy = "information_per_usd"
  <2>1. q.information > 0
    BY <1>2, <1>4 DEF HasPositiveValue
  <2>2. AtLeast(Rate(u.information, u.usd), Rate(q.information, q.usd))
    BY <1>1, <2>1, RateGrows
  <2> QED
    BY <1>4, <2>2 DEF Key
<1>5. CASE strategy = "information_per_second"
  <2>1. q.information > 0
    BY <1>2, <1>5 DEF HasPositiveValue
  <2>2. AtLeast(Rate(u.information, u.seconds), Rate(q.information, q.seconds))
    BY <1>1, <2>1, RateGrows
  <2> QED
    BY <1>5, <2>2 DEF Key
<1>6. CASE strategy = "max_risk_reduction"
  BY <1>1, <1>6 DEF Key, AtLeast
<1> QED
  BY <1>3, <1>4, <1>5, <1>6 DEF Strategies

LEMMA PositiveAbove ==
  ASSUME NEW u, NEW v, Fraction(u), Fraction(v), AtLeast(u, v), v[1] > 0
  PROVE  u[1] > 0
<1> DEFINE a == u[1]
           b == u[2]
           c == v[1]
           d == v[2]
<1>1. a \in Int /\ b \in Nat /\ c \in Int /\ d \in Nat /\ c > 0 /\ (b = 0 => a = 1)
  BY DEF Fraction
<1>2. a * d >= c * b
  BY DEF AtLeast
<1> HIDE DEF a, b, c, d
<1>3. CASE b = 0
  BY <1>1, <1>3 DEF a
<1>4. CASE b > 0
  <2>1. c * b > 0
    BY <1>1, <1>4
  <2>2. a * d > 0
    BY <1>1, <1>2, <2>1
  <2>3. ~(a <= 0)
    <3> SUFFICES ASSUME a <= 0
                 PROVE  FALSE
      OBVIOUS
    <3>1. 0 * d >= a * d
      BY <1>1, ProductsInOrder
    <3>2. 0 * d = 0 /\ a * d \in Int
      BY <1>1
    <3> QED
      BY <2>2, <3>1, <3>2
  <2> QED
    BY <1>1, <2>3 DEF a
<1> QED
  BY <1>1, <1>3, <1>4

(* The pick of the frontier is the best of all the candidates.              *)
LEMMA PickIsBest ==
  ASSUME NEW T, Offers(T), Named(T), NEW strategy \in Strategies, FrontOf(T) # {},
         HasPositiveValue(BestCandidate(FrontOf(T), strategy), strategy)
  PROVE  LET best == BestCandidate(FrontOf(T), strategy)
         IN  /\ best \in T /\ Key(best, strategy)[1] > 0
             /\ \A q \in T : AtLeast(Key(best, strategy), Key(q, strategy))
<1> DEFINE best == BestCandidate(FrontOf(T), strategy)
<1>1. Offers(FrontOf(T)) /\ FrontOf(T) \subseteq T
  BY FS_Subset DEF Offers, FrontOf
<1>2. best \in FrontOf(T) /\ \A d \in FrontOf(T) : AtLeast(Key(best, strategy), Key(d, strategy))
  BY <1>1, BestIs
<1>3. HasPositiveValue(best, strategy)
  OBVIOUS
<1> HIDE DEF best
<1>4. best \in T /\ Offer(best) /\ Fraction(Key(best, strategy))
        /\ Key(best, strategy)[1] > 0
  BY <1>1, <1>2, <1>3, KeyIs DEF Offers
<1>5. ASSUME NEW q \in T
      PROVE  AtLeast(Key(best, strategy), Key(q, strategy))
  <2>1. Offer(q) /\ Fraction(Key(q, strategy))
    BY KeyIs DEF Offers
  <2>2. CASE Key(q, strategy)[1] > 0
    <3>1. Positive(q)
      BY <2>1, <2>2, KeyIs DEF Positive
    <3>2. PICK u \in FrontOf(T) : u = q \/ Outdoes(u, q)
      BY <3>1, FrontCovers
    <3>3. AtLeast(Key(best, strategy), Key(u, strategy))
      BY <1>2
    <3>4. CASE u = q
      BY <3>3, <3>4
    <3>5. CASE Outdoes(u, q)
      <4>1. Offer(u) /\ Fraction(Key(u, strategy))
        BY <1>1, KeyIs DEF Offers
      <4>2. AtLeast(Key(u, strategy), Key(q, strategy))
        BY <2>1, <2>2, <3>5, <4>1, OutdoesKey
      <4> QED
        BY <1>4, <2>1, <3>3, <4>1, <4>2, AtLeastTransitive
    <3> QED
      BY <3>2, <3>4, <3>5
  <2>3. CASE ~(Key(q, strategy)[1] > 0)
    <3> DEFINE a == Key(best, strategy)[1]
               b == Key(best, strategy)[2]
               c == Key(q, strategy)[1]
               d == Key(q, strategy)[2]
    <3>1. a \in Int /\ b \in Nat /\ c \in Int /\ d \in Nat /\ a > 0 /\ c <= 0
      BY <1>4, <2>1, <2>3 DEF Fraction
    <3>2. AtLeast(Key(best, strategy), Key(q, strategy)) <=> a * d >= c * b
      BY DEF AtLeast
    <3> HIDE DEF a, b, c, d
    <3>3. a * d >= 0 * d /\ 0 * b >= c * b
      BY <3>1, ProductsInOrder
    <3>4. 0 * d = 0 /\ 0 * b = 0 /\ a * d \in Int /\ c * b \in Int
      BY <3>1
    <3> QED
      BY <3>2, <3>3, <3>4
  <2> QED
    BY <2>2, <2>3
<1> QED
  BY <1>4, <1>5 DEF best

LEMMA NothingLeft ==
  ASSUME NEW T, Offers(T), Named(T), NEW strategy \in Strategies,
         \/ FrontOf(T) = {}
         \/ ~HasPositiveValue(BestCandidate(FrontOf(T), strategy), strategy),
         NEW q \in T
  PROVE  Key(q, strategy)[1] <= 0
<1> DEFINE best == BestCandidate(FrontOf(T), strategy)
<1>1. Offers(FrontOf(T)) /\ FrontOf(T) \subseteq T
  BY FS_Subset DEF Offers, FrontOf
<1>2. Offer(q) /\ Fraction(Key(q, strategy))
  BY KeyIs DEF Offers
<1>3. ASSUME Key(q, strategy)[1] > 0
      PROVE  FALSE
  <2>1. Positive(q)
    BY <1>2, <1>3, KeyIs DEF Positive
  <2>2. PICK u \in FrontOf(T) : u = q \/ Outdoes(u, q)
    BY <2>1, FrontCovers
  <2>3. best \in FrontOf(T) /\ AtLeast(Key(best, strategy), Key(u, strategy))
    BY <1>1, <2>2, BestIs
  <2>4. ~HasPositiveValue(best, strategy)
    BY <2>2
  <2> HIDE DEF best
  <2>5. /\ Offer(u) /\ Fraction(Key(u, strategy))
        /\ Offer(best) /\ Fraction(Key(best, strategy))
    BY <1>1, <2>2, <2>3, KeyIs DEF Offers
  <2>6. Key(u, strategy)[1] > 0
    <3>1. CASE u = q
      BY <1>3, <3>1
    <3>2. CASE Outdoes(u, q)
      <4>1. AtLeast(Key(u, strategy), Key(q, strategy))
        BY <1>2, <1>3, <2>5, <3>2, OutdoesKey
      <4> QED
        BY <1>2, <1>3, <2>5, <4>1, PositiveAbove
    <3> QED
      BY <2>2, <3>1, <3>2
  <2>7. Key(best, strategy)[1] > 0
    BY <2>3, <2>5, <2>6, PositiveAbove
  <2> QED
    BY <2>4, <2>5, <2>7, KeyIs
<1> QED
  BY <1>2, <1>3 DEF Fraction

-----------------------------------------------------------------------------
(* A single probe: its answers, and what is known without it.               *)
LEMMA SmallerParts ==
  ASSUME NEW a \in Int, NEW b \in Int, NEW c \in Int, NEW d \in Int
  PROVE  Smaller(a, b) + Smaller(c, d) <= Smaller(a + c, b + d)
  BY DEF Smaller

LEMMA EntropyParts ==
  ASSUME NEW t \in Nat, NEW f \in Nat, NEW t2 \in Nat, NEW f2 \in Nat
  PROVE  EntropyMass(t, f) + EntropyMass(t2, f2) <= EntropyMass(t + t2, f + f2)
  BY DEF EntropyMass, Smaller

LEMMA RiskParts ==
  ASSUME NEW claim, FairClaim(claim),
         NEW t \in Nat, NEW f \in Nat, NEW t2 \in Nat, NEW f2 \in Nat
  PROVE  RiskMass(claim, t, f) + RiskMass(claim, t2, f2) <= RiskMass(claim, t + t2, f + f2)
<1> DEFINE p == claim.fp
           n == claim.fn
<1>1. p \in Nat /\ n \in Nat
  BY DEF FairClaim
<1>2. /\ RiskMass(claim, t, f) = Smaller(f * p, t * n)
      /\ RiskMass(claim, t2, f2) = Smaller(f2 * p, t2 * n)
      /\ RiskMass(claim, t + t2, f + f2) = Smaller((f + f2) * p, (t + t2) * n)
  BY DEF RiskMass
<1> HIDE DEF p, n
<1>3. (f + f2) * p = f * p + f2 * p /\ (t + t2) * n = t * n + t2 * n
  BY <1>1
<1>4. f * p \in Int /\ f2 * p \in Int /\ t * n \in Int /\ t2 * n \in Int
  BY <1>1
<1>5. Smaller(f * p, t * n) + Smaller(f2 * p, t2 * n)
        <= Smaller(f * p + f2 * p, t * n + t2 * n)
  BY <1>4, SmallerParts
<1> QED
  BY <1>2, <1>3, <1>5

(* The loss of an outcome that leaves the decision as it was.               *)
LEMMA RiskKept ==
  ASSUME NEW claim, FairClaim(claim), NEW t \in Nat, NEW f \in Nat, NEW now \in BOOLEAN,
         t + f = 0 \/ Acts(claim, t, f) = now
  PROVE  RiskMass(claim, t, f) = IF now THEN f * claim.fp ELSE t * claim.fn
<1> DEFINE p == claim.fp
           n == claim.fn
           x == f * p
           y == t * n
<1>1. p \in Nat /\ n \in Nat
  BY DEF FairClaim
<1>2. /\ RiskMass(claim, t, f) = Smaller(x, y)
      /\ Acts(claim, t, f) <=> x < y
  BY DEF RiskMass, Acts
<1>3. x \in Int /\ y \in Int
  BY <1>1
<1>4. CASE t + f = 0
  <2>1. t = 0 /\ f = 0
    BY <1>4
  <2>2. x = 0 /\ y = 0
    BY <1>1, <2>1
  <2> QED
    BY <1>2, <2>2 DEF Smaller
<1>5. CASE Acts(claim, t, f) = now
  <2> HIDE DEF x, y
  <2>1. now <=> x < y
    BY <1>2, <1>5
  <2>2. Smaller(x, y) = IF now THEN x ELSE y
    BY <1>3, <2>1 DEF Smaller
  <2> QED
    BY <1>2, <2>2 DEF x, y
<1> QED
  BY <1>4, <1>5

(* The masses of the answers of a single probe.                             *)
YesTrue(claim, p) == claim.prior * p.sensitivity
YesFalse(claim, p) == (Unit - claim.prior) * (Unit - p.specificity)
NoTrue(claim, p) == claim.prior * (Unit - p.sensitivity)
NoFalse(claim, p) == (Unit - claim.prior) * p.specificity

LEMMA AnswersAddUp ==
  ASSUME NEW claim, FairClaim(claim), NEW p,
         p.sensitivity \in 0..Unit, p.specificity \in 0..Unit
  PROVE  /\ YesTrue(claim, p) \in Nat /\ YesFalse(claim, p) \in Nat
         /\ NoTrue(claim, p) \in Nat /\ NoFalse(claim, p) \in Nat
         /\ YesTrue(claim, p) + NoTrue(claim, p) = claim.prior * Unit
         /\ YesFalse(claim, p) + NoFalse(claim, p) = (Unit - claim.prior) * Unit
         /\ claim.prior \in Nat /\ Unit - claim.prior \in Nat /\ Unit \in Nat /\ Unit > 0
<1> DEFINE u == claim.prior
           v == Unit - claim.prior
           a == p.sensitivity
           b == p.specificity
           c == Unit - a
           d == Unit - b
<1>1. Unit \in Nat /\ Unit > 0
  BY PlannerAssumption
<1>2. u \in Nat /\ v \in Nat /\ a \in Nat /\ b \in Nat /\ c \in Nat /\ d \in Nat
      /\ a + c = Unit /\ d + b = Unit
  BY <1>1 DEF FairClaim
<1>3. /\ YesTrue(claim, p) = u * a /\ NoTrue(claim, p) = u * c
      /\ YesFalse(claim, p) = v * d /\ NoFalse(claim, p) = v * b
  BY DEF YesTrue, NoTrue, YesFalse, NoFalse
<1>4. claim.prior * Unit = u * Unit /\ (Unit - claim.prior) * Unit = v * Unit
  OBVIOUS
<1>5. claim.prior \in Nat /\ Unit - claim.prior \in Nat
  BY <1>2
<1> HIDE DEF u, v, a, b, c, d
<1>6. /\ u * a \in Nat /\ u * c \in Nat /\ v * d \in Nat /\ v * b \in Nat
      /\ u * a + u * c = u * (a + c) /\ v * d + v * b = v * (d + b)
  BY <1>2
<1> QED
  BY <1>1, <1>2, <1>3, <1>4, <1>5, <1>6

Flip(claim, t, f) ==
  IF t + f # 0 /\ Acts(claim, t, f) # Acts(claim, claim.prior, Unit - claim.prior)
  THEN t + f ELSE 0

LEMMA MetricsAre ==
  ASSUME NEW claim, NEW p
  PROVE  LET m == MetricsForProbe(claim, p)
             t0 == claim.prior * Unit
             f0 == (Unit - claim.prior) * Unit
         IN  /\ m.information = EntropyMass(t0, f0)
                   - EntropyMass(YesTrue(claim, p), YesFalse(claim, p))
                   - EntropyMass(NoTrue(claim, p), NoFalse(claim, p))
             /\ m.risk = RiskMass(claim, t0, f0)
                   - RiskMass(claim, YesTrue(claim, p), YesFalse(claim, p))
                   - RiskMass(claim, NoTrue(claim, p), NoFalse(claim, p))
             /\ m.flips = Flip(claim, YesTrue(claim, p), YesFalse(claim, p))
                            + Flip(claim, NoTrue(claim, p), NoFalse(claim, p))
  BY DEF MetricsForProbe, YesTrue, YesFalse, NoTrue, NoFalse, Flip

(* A probe tells nothing false, and what lowers the risk may flip.          *)
LEMMA ProbeIsWorth ==
  ASSUME NEW claim, FairClaim(claim), NEW p,
         p.sensitivity \in 0..Unit, p.specificity \in 0..Unit
  PROVE  LET m == MetricsForProbe(claim, p)
         IN  m.information >= 0 /\ m.risk >= 0 /\ (m.risk > 0 => m.flips > 0)
<1> DEFINE m == MetricsForProbe(claim, p)
           u == claim.prior
           v == Unit - claim.prior
           tp == YesTrue(claim, p)
           fp == YesFalse(claim, p)
           tn == NoTrue(claim, p)
           fn == NoFalse(claim, p)
           now == Acts(claim, u, v)
           c1 == claim.fp
           c2 == claim.fn
<1>1. /\ tp \in Nat /\ fp \in Nat /\ tn \in Nat /\ fn \in Nat
      /\ u \in Nat /\ v \in Nat /\ Unit \in Nat /\ Unit > 0
      /\ tp + tn = u * Unit /\ fp + fn = v * Unit
  BY AnswersAddUp
<1>2. /\ m.information = EntropyMass(u * Unit, v * Unit)
            - EntropyMass(tp, fp) - EntropyMass(tn, fn)
      /\ m.risk = RiskMass(claim, u * Unit, v * Unit)
            - RiskMass(claim, tp, fp) - RiskMass(claim, tn, fn)
      /\ m.flips = Flip(claim, tp, fp) + Flip(claim, tn, fn)
  BY MetricsAre
<1>3. ASSUME NEW t, NEW f
      PROVE  Flip(claim, t, f) = IF t + f # 0 /\ Acts(claim, t, f) # now THEN t + f ELSE 0
  BY DEF Flip
<1>4. c1 \in Nat /\ c2 \in Nat /\ now \in BOOLEAN
  BY DEF FairClaim, Acts
<1>5. ASSUME NEW t \in Nat, NEW f \in Nat, t + f = 0 \/ Acts(claim, t, f) = now
      PROVE  RiskMass(claim, t, f) = IF now THEN f * c1 ELSE t * c2
  BY <1>4, <1>5, RiskKept
<1>6. RiskMass(claim, u, v) = IF now THEN v * c1 ELSE u * c2
  BY <1>1, <1>5
<1> HIDE DEF m, u, v, tp, fp, tn, fn, now, c1, c2
<1>7. /\ EntropyMass(tp, fp) + EntropyMass(tn, fn) <= EntropyMass(tp + tn, fp + fn)
      /\ RiskMass(claim, tp, fp) + RiskMass(claim, tn, fn) <= RiskMass(claim, tp + tn, fp + fn)
  BY <1>1, EntropyParts, RiskParts
<1>8. /\ EntropyMass(tp, fp) \in Nat /\ EntropyMass(tn, fn) \in Nat
      /\ EntropyMass(tp + tn, fp + fn) \in Nat
      /\ RiskMass(claim, tp, fp) \in Nat /\ RiskMass(claim, tn, fn) \in Nat
      /\ RiskMass(claim, tp + tn, fp + fn) \in Nat
  <2>1. tp + tn \in Nat /\ fp + fn \in Nat
    BY <1>1
  <2> QED
    BY <1>1, <2>1, EntropyNat, RiskNat DEF FairClaim
<1>9. m.information >= 0 /\ m.risk >= 0 /\ m.risk \in Int
  BY <1>1, <1>2, <1>7, <1>8
<1>10. /\ Flip(claim, tp, fp) \in Nat /\ Flip(claim, tn, fn) \in Nat
       /\ Flip(claim, tp, fp) = 0 => tp + fp = 0 \/ Acts(claim, tp, fp) = now
       /\ Flip(claim, tn, fn) = 0 => tn + fn = 0 \/ Acts(claim, tn, fn) = now
  BY <1>1, <1>3
<1>11. ASSUME m.flips = 0
       PROVE  m.risk = 0
  <2>1. Flip(claim, tp, fp) = 0 /\ Flip(claim, tn, fn) = 0
    BY <1>2, <1>10, <1>11
  <2>2. /\ RiskMass(claim, tp, fp) = IF now THEN fp * c1 ELSE tp * c2
        /\ RiskMass(claim, tn, fn) = IF now THEN fn * c1 ELSE tn * c2
    BY <1>1, <1>5, <1>10, <2>1
  <2>3. RiskMass(claim, u * Unit, v * Unit) = Unit * RiskMass(claim, u, v)
    BY <1>1, RiskScales DEF FairClaim
  <2>4. CASE now
    <3>1. Unit * (v * c1) = (fp + fn) * c1 /\ (fp + fn) * c1 = fp * c1 + fn * c1
      BY <1>1, <1>4
    <3>2. fp * c1 \in Int /\ fn * c1 \in Int
      BY <1>1, <1>4
    <3> QED
      BY <1>2, <1>6, <2>2, <2>3, <2>4, <3>1, <3>2
  <2>5. CASE ~now
    <3>1. Unit * (u * c2) = (tp + tn) * c2 /\ (tp + tn) * c2 = tp * c2 + tn * c2
      BY <1>1, <1>4
    <3>2. tp * c2 \in Int /\ tn * c2 \in Int
      BY <1>1, <1>4
    <3> QED
      BY <1>2, <1>6, <2>2, <2>3, <2>5, <3>1, <3>2
  <2> QED
    BY <2>4, <2>5
<1>12. m.flips \in Nat
  BY <1>2, <1>10
<1> QED
  BY <1>9, <1>11, <1>12 DEF m

(* The two ways to value it.                                                *)
LEMMA PowersOfOne == Power(1) = Unit /\ Power(0) = 1
<1> DEFINE f == [i \in 1..1 |-> Unit]
           g == [i \in 1..0 |-> Unit]
<1>1. Power(1) = ProductOf(f) /\ Power(0) = ProductOf(g)
  BY DEF Power
<1>2. DOMAIN f = {1} /\ f[1] = Unit /\ DOMAIN g = {}
  OBVIOUS
<1> HIDE DEF f, g
<1>3. Unit \in Nat
  BY PlannerAssumption
<1>4. ProductOf(f) = Unit
  BY <1>2, <1>3, ProductOfOne
<1>5. ProductOf(g) = 1
  BY <1>2, ProductOfNone
<1> QED
  BY <1>1, <1>4, <1>5

LEMMA OutcomesOfOne ==
  ASSUME NEW claim, FairClaim(claim), NEW p,
         p.sensitivity \in 0..Unit, p.specificity \in 0..Unit
  PROVE  /\ TrueMass(claim, <<p>>, {1}) = YesTrue(claim, p)
         /\ FalseMass(claim, <<p>>, {1}) = YesFalse(claim, p)
         /\ TrueMass(claim, <<p>>, {}) = NoTrue(claim, p)
         /\ FalseMass(claim, <<p>>, {}) = NoFalse(claim, p)
<1> DEFINE T(o) == [i \in DOMAIN <<p>> |->
                      IF i \in o THEN <<p>>[i].sensitivity ELSE Unit - <<p>>[i].sensitivity]
           F(o) == [i \in DOMAIN <<p>> |->
                      IF i \in o THEN Unit - <<p>>[i].specificity ELSE <<p>>[i].specificity]
<1>1. DOMAIN <<p>> = {1} /\ <<p>>[1] = p
  OBVIOUS
<1>2. Unit \in Nat
  BY PlannerAssumption
<1>3. ASSUME NEW o
      PROVE  /\ TrueMass(claim, <<p>>, o) = claim.prior * ProductOf(T(o))
             /\ FalseMass(claim, <<p>>, o) = (Unit - claim.prior) * ProductOf(F(o))
             /\ DOMAIN T(o) = {1} /\ DOMAIN F(o) = {1}
  BY <1>1 DEF TrueMass, FalseMass
<1>4. /\ T({1})[1] = p.sensitivity /\ F({1})[1] = Unit - p.specificity
      /\ T({})[1] = Unit - p.sensitivity /\ F({})[1] = p.specificity
  BY <1>1
<1>5. /\ T({1})[1] \in Nat /\ F({1})[1] \in Nat /\ T({})[1] \in Nat /\ F({})[1] \in Nat
  BY <1>2, <1>4
<1> HIDE DEF T, F
<1>6. /\ ProductOf(T({1})) = T({1})[1] /\ ProductOf(F({1})) = F({1})[1]
      /\ ProductOf(T({})) = T({})[1] /\ ProductOf(F({})) = F({})[1]
  BY <1>3, <1>5, ProductOfOne
<1> QED
  BY <1>3, <1>4, <1>6 DEF YesTrue, YesFalse, NoTrue, NoFalse

LEMMA SumOfTwo ==
  ASSUME NEW f, NEW x, NEW y, x # y, f[x] \in Int, f[y] \in Int
  PROVE  Sum(f, {x, y}) = f[x] + f[y]
<1>1. IsFiniteSet({}) /\ IsFiniteSet({y}) /\ {} \cup {y} = {y} /\ {y} \cup {x} = {x, y}
  BY FS_EmptySet, FS_Singleton
<1>2. Sum(f, {}) = 0
  BY <1>1, SumStep
<1>3. Sum(f, {} \cup {y}) = f[y] + Sum(f, {})
  BY <1>1, SumAdd
<1>4. Sum(f, {y} \cup {x}) = f[x] + Sum(f, {y})
  <2>1. \A z \in {y} \cup {x} : f[z] \in Int
    OBVIOUS
  <2>2. x \notin {y}
    OBVIOUS
  <2> QED
    BY <1>1, <2>1, <2>2, SumAdd
<1>5. Sum(f, {y}) = f[y]
  BY <1>1, <1>2, <1>3
<1> QED
  BY <1>1, <1>4, <1>5

LEMMA JointOfOne ==
  ASSUME NEW claim, FairClaim(claim), NEW p,
         p.sensitivity \in 0..Unit, p.specificity \in 0..Unit
  PROVE  LET j == JointMetrics(claim, <<p>>, 1)
             m == MetricsForProbe(claim, p)
         IN  m.information = j.information /\ m.risk = j.risk
<1> DEFINE probes == <<p>>
           outcomes == SUBSET DOMAIN probes
           E == EntropyOf(claim, probes, 1)
           R == RiskOf(claim, probes, 1)
<1>1. DOMAIN probes = {1} /\ probes[1] = p /\ outcomes = {{1}, {}}
  <2>1. DOMAIN probes = {1} /\ probes[1] = p
    OBVIOUS
  <2>2. SUBSET {1} = {{1}, {}}
    OBVIOUS
  <2> QED
    BY <2>1, <2>2
<1>2. Fair(probes)
  <2>1. IsFiniteSet({1})
    BY FS_Singleton
  <2> HIDE DEF probes
  <2>2. \A i \in DOMAIN probes : i = 1
    BY <1>1
  <2> QED
    BY <1>1, <2>1, <2>2 DEF Fair
<1>3. Scaled(probes, 1) = 1
  <2>1. Cardinality({1}) = 1
    BY FS_Singleton
  <2>2. Scaled(probes, 1) = Power(0)
    BY <1>1, <2>1 DEF Scaled
  <2> QED
    BY <2>2, PowersOfOne
<1>4. /\ E[{1}] = 1 * EntropyMass(YesTrue(claim, p), YesFalse(claim, p))
      /\ E[{}] = 1 * EntropyMass(NoTrue(claim, p), NoFalse(claim, p))
      /\ R[{1}] = 1 * RiskMass(claim, YesTrue(claim, p), YesFalse(claim, p))
      /\ R[{}] = 1 * RiskMass(claim, NoTrue(claim, p), NoFalse(claim, p))
  BY <1>1, <1>3, OutcomesOfOne DEF EntropyOf, RiskOf
<1>5. /\ EntropyMass(YesTrue(claim, p), YesFalse(claim, p)) \in Int
      /\ EntropyMass(NoTrue(claim, p), NoFalse(claim, p)) \in Int
      /\ RiskMass(claim, YesTrue(claim, p), YesFalse(claim, p)) \in Int
      /\ RiskMass(claim, NoTrue(claim, p), NoFalse(claim, p)) \in Int
  <2>1. /\ YesTrue(claim, p) \in Nat /\ YesFalse(claim, p) \in Nat
        /\ NoTrue(claim, p) \in Nat /\ NoFalse(claim, p) \in Nat
    BY AnswersAddUp
  <2>2. claim.fp \in Nat /\ claim.fn \in Nat
    BY DEF FairClaim
  <2>3. /\ EntropyMass(YesTrue(claim, p), YesFalse(claim, p)) \in Nat
        /\ EntropyMass(NoTrue(claim, p), NoFalse(claim, p)) \in Nat
    BY <2>1, EntropyNat
  <2>4. /\ RiskMass(claim, YesTrue(claim, p), YesFalse(claim, p)) \in Nat
        /\ RiskMass(claim, NoTrue(claim, p), NoFalse(claim, p)) \in Nat
    BY <2>1, <2>2, RiskNat
  <2> QED
    BY <2>3, <2>4
<1>6. /\ JointMetrics(claim, probes, 1).information
           = EntropyMass(claim.prior * Unit, (Unit - claim.prior) * Unit) - Sum(E, outcomes)
      /\ JointMetrics(claim, probes, 1).risk
           = RiskMass(claim, claim.prior * Unit, (Unit - claim.prior) * Unit)
               - Sum(R, outcomes)
  <2> DEFINE t(n) == claim.prior * n
             f(n) == (Unit - claim.prior) * n
  <2>1. /\ JointMetrics(claim, probes, 1).information
             = EntropyMass(t(Power(1)), f(Power(1))) - Sum(E, outcomes)
        /\ JointMetrics(claim, probes, 1).risk
             = RiskMass(claim, t(Power(1)), f(Power(1))) - Sum(R, outcomes)
    <3> HIDE DEF probes
    <3>1. ASSUME NEW n \in Nat
          PROVE  /\ JointMetrics(claim, probes, n).information
                      = EntropyMass(claim.prior * Power(n), (Unit - claim.prior) * Power(n))
                          - Sum(EntropyOf(claim, probes, n), SUBSET DOMAIN probes)
                 /\ JointMetrics(claim, probes, n).risk
                      = RiskMass(claim, claim.prior * Power(n), (Unit - claim.prior) * Power(n))
                          - Sum(RiskOf(claim, probes, n), SUBSET DOMAIN probes)
      BY <1>2, JointIs
    <3>2. 1 \in Nat
      OBVIOUS
    <3> QED
      BY <3>1, <3>2
  <2>2. t(Power(1)) = t(Unit) /\ f(Power(1)) = f(Unit)
    BY PowersOfOne
  <2> HIDE DEF t, f, E, R, probes, outcomes
  <2>3. /\ JointMetrics(claim, probes, 1).information
             = EntropyMass(t(Unit), f(Unit)) - Sum(E, outcomes)
        /\ JointMetrics(claim, probes, 1).risk
             = RiskMass(claim, t(Unit), f(Unit)) - Sum(R, outcomes)
    BY <2>1, <2>2
  <2> QED
    BY <2>3 DEF t, f
<1> HIDE DEF E, R, outcomes, probes
<1>7. Sum(E, outcomes) = E[{1}] + E[{}] /\ Sum(R, outcomes) = R[{1}] + R[{}]
  <2>1. E[{1}] \in Int /\ E[{}] \in Int /\ R[{1}] \in Int /\ R[{}] \in Int
    BY <1>4, <1>5
  <2>2. {1} # {}
    OBVIOUS
  <2>3. Sum(E, {{1}, {}}) = E[{1}] + E[{}] /\ Sum(R, {{1}, {}}) = R[{1}] + R[{}]
    BY <2>1, <2>2, SumOfTwo
  <2> QED
    BY <1>1, <2>3
<1>8. /\ EntropyMass(claim.prior * Unit, (Unit - claim.prior) * Unit) \in Int
      /\ RiskMass(claim, claim.prior * Unit, (Unit - claim.prior) * Unit) \in Int
  <2>1. claim.prior * Unit \in Nat /\ (Unit - claim.prior) * Unit \in Nat
    <3>1. claim.prior \in Nat /\ Unit - claim.prior \in Nat /\ Unit \in Nat
      BY AnswersAddUp
    <3> DEFINE u == claim.prior
               v == Unit - claim.prior
    <3>2. u \in Nat /\ v \in Nat
      BY <3>1
    <3> HIDE DEF u, v
    <3>3. u * Unit \in Nat /\ v * Unit \in Nat
      BY <3>1, <3>2
    <3> QED
      BY <3>3 DEF u, v
  <2>2. claim.fp \in Nat /\ claim.fn \in Nat
    BY DEF FairClaim
  <2> DEFINE t == claim.prior * Unit
             f == (Unit - claim.prior) * Unit
  <2>3. t \in Nat /\ f \in Nat
    BY <2>1
  <2> HIDE DEF t, f
  <2>4. EntropyMass(t, f) \in Nat
    BY <2>3, EntropyNat
  <2>5. RiskMass(claim, t, f) \in Nat
    BY <2>2, <2>3, RiskNat
  <2>6. EntropyMass(t, f) \in Int /\ RiskMass(claim, t, f) \in Int
    BY <2>4, <2>5
  <2> QED
    BY <2>6 DEF t, f
<1> DEFINE a == EntropyMass(claim.prior * Unit, (Unit - claim.prior) * Unit)
           b == RiskMass(claim, claim.prior * Unit, (Unit - claim.prior) * Unit)
           c == EntropyMass(YesTrue(claim, p), YesFalse(claim, p))
           d == EntropyMass(NoTrue(claim, p), NoFalse(claim, p))
           e == RiskMass(claim, YesTrue(claim, p), YesFalse(claim, p))
           f == RiskMass(claim, NoTrue(claim, p), NoFalse(claim, p))
<1>9. /\ MetricsForProbe(claim, p).information = a - c - d
      /\ MetricsForProbe(claim, p).risk = b - e - f
  BY MetricsAre
<1>10. /\ a \in Int /\ b \in Int /\ c \in Int /\ d \in Int /\ e \in Int /\ f \in Int
  BY <1>5, <1>8
<1>11. /\ JointMetrics(claim, probes, 1).information = a - (1 * c + 1 * d)
       /\ JointMetrics(claim, probes, 1).risk = b - (1 * e + 1 * f)
  BY <1>4, <1>6, <1>7
<1> HIDE DEF a, b, c, d, e, f
<1>12. a - c - d = a - (1 * c + 1 * d) /\ b - e - f = b - (1 * e + 1 * f)
  BY <1>10
<1> QED
  BY <1>9, <1>11, <1>12 DEF probes

LEMMA AcceptedAgree ==
  ASSUME NEW spec, Accepted(spec)
  PROVE  MetricsAgree(spec)
<1> SUFFICES ASSUME NEW i \in DOMAIN spec.probes
             PROVE  LET p == spec.probes[i]
                        c == ClaimOf(spec, i)
                        m == MetricsForProbe(c, p)
                        j == JointMetrics(c, <<p>>, 1)
                    IN  /\ m.information = j.information /\ m.risk = j.risk
                        /\ m.information >= 0 /\ m.risk >= 0
                        /\ m.risk > 0 => m.flips > 0
  BY DEF MetricsAgree
<1>1. FairClaim(ClaimOf(spec, i))
  BY ClaimIs, AcceptedClaims DEF FairClaim
<1>2. /\ spec.probes[i].sensitivity \in 0..Unit
      /\ spec.probes[i].specificity \in 0..Unit
  BY AcceptedProbes
<1> QED
  BY <1>1, <1>2, JointOfOne, ProbeIsWorth

-----------------------------------------------------------------------------
(* The turns of a plan.                                                     *)

(* What a turn looks at.                                                    *)
FreeProbes(spec, st) ==
  {p \in Remaining(spec, st) : ~ HasDependenceConflict(spec, st, p)}

CountableProbes(spec, st) ==
  {p \in FreeProbes(spec, st) :
     Cardinality(OfClaim(spec, Range(st.selected), p)) < EnumerationLimit}

OpenProbes(spec, st) == {p \in CountableProbes(spec, st) : FitsBudget(spec, st, p)}

Candidates(spec, st) == {CandidateFor(spec, st, p) : p \in OpenProbes(spec, st)}

Pick(spec, st) == BestCandidate(FrontOf(Candidates(spec, st)), spec.strategy)

WhyNone(spec, st) ==
  CASE Remaining(spec, st) = {} -> "no candidates"
    [] Remaining(spec, st) # {} /\ FreeProbes(spec, st) = {} -> "dependence constraint"
    [] FreeProbes(spec, st) # {} /\ CountableProbes(spec, st) = {} ->
         "exact enumeration limit"
    [] OTHER -> "budget exhausted"

LEMMA PlanStepIs ==
  ASSUME NEW spec, NEW st
  PROVE  PlanStep(spec, st) =
           IF Len(st.selected) >= spec.budget.probes
           THEN Stops(st, "max probes reached")
           ELSE IF ~ spec.independent /\ st.selected # <<>>
           THEN Stops(st, "dependence constraint")
           ELSE IF Candidates(spec, st) = {}
           THEN Stops(st, WhyNone(spec, st))
           ELSE IF FrontOf(Candidates(spec, st)) = {}
                     \/ ~ HasPositiveValue(Pick(spec, st), spec.strategy)
           THEN Stops(st, "no positive marginal value")
           ELSE Select(spec, st, Pick(spec, st), FrontierIds(Candidates(spec, st)))
  BY Zenon DEF PlanStep, Pick, FrontOf, Candidates, OpenProbes, CountableProbes, FreeProbes,
     WhyNone

-----------------------------------------------------------------------------
(* A plan in the making.                                                    *)
Notes == [information : Int, risk : Int, frontier : SUBSET Nat]

Reasons ==
  {"none", "max probes reached", "dependence constraint", "no candidates",
   "exact enumeration limit", "budget exhausted", "no positive marginal value"}

PlanStates(spec) ==
  [selected : Seq(DOMAIN spec.probes), usd : Int, seconds : Int,
   information : Int, risk : Int,
   joint : [DOMAIN spec.claims -> [information : Int, risk : Int]],
   steps : Seq(Notes), reason : Reasons]

(* The running joint value of a claim is what its probes are worth.         *)
JointRight(spec, st) ==
  \A c \in DOMAIN spec.claims :
    st.joint[c] = MetricsOf(spec, c, Mine(spec, Range(st.selected), c))

Planning(spec, st) ==
  /\ st \in PlanStates(spec)
  /\ Len(st.steps) = Len(st.selected)
  /\ JointRight(spec, st)
  /\ TotalsSound(spec, st, Range(st.selected))

LEMMA SelectedIn ==
  ASSUME NEW spec, Accepted(spec), NEW st, st \in PlanStates(spec)
  PROVE  /\ Range(st.selected) \in SUBSET DOMAIN spec.probes
         /\ st.selected \in Seq(DOMAIN spec.probes)
         /\ Len(st.selected) \in Nat /\ DOMAIN st.selected = 1..Len(st.selected)
         /\ Range(st.selected) = {st.selected[j] : j \in 1..Len(st.selected)}
<1>1. st.selected \in Seq(DOMAIN spec.probes)
  BY DEF PlanStates
<1>2. Len(st.selected) \in Nat /\ DOMAIN st.selected = 1..Len(st.selected)
  BY <1>1, LenProperties
<1>3. \A j \in DOMAIN st.selected : st.selected[j] \in DOMAIN spec.probes
  BY <1>1, <1>2, ElementOfSeq
<1> QED
  BY <1>1, <1>2, <1>3 DEF Range

(* What a candidate says of its probe, when S is chosen.                    *)
Tells(spec, S, p, x) ==
  /\ x.index = p /\ x.id = spec.probes[p].id /\ x.id \in Nat
  /\ x.usd = spec.probes[p].usd /\ x.seconds = spec.probes[p].seconds
  /\ x.new = MetricsOf(spec, ClaimIndex(spec, p), OfClaim(spec, S, p) \cup {p})
  /\ x.information = Gain(spec, S, p, "information")
  /\ x.risk = Gain(spec, S, p, "risk")
  /\ Offer(x)

LEMMA CandidateIs ==
  ASSUME NEW spec, Accepted(spec), NEW st, Planning(spec, st), NEW p \in DOMAIN spec.probes
  PROVE  Tells(spec, Range(st.selected), p, CandidateFor(spec, st, p))
<1> DEFINE x == CandidateFor(spec, st, p)
           S == Range(st.selected)
           c == ClaimIndex(spec, p)
           with == OfClaim(spec, S, p) \cup {p}
           new == MetricsOf(spec, c, with)
           old == MetricsOf(spec, c, OfClaim(spec, S, p))
           weight == spec.claims[c].importance
<1>1. S \in SUBSET DOMAIN spec.probes
  BY SelectedIn DEF Planning
<1>2. c \in DOMAIN spec.claims /\ ClaimOf(spec, p) = spec.claims[c]
  BY ClaimIs
<1>3. st.joint[c] = old
  <2>1. Mine(spec, S, c) = OfClaim(spec, S, p)
    <3>1. spec.claims[c].id = spec.probes[p].claim
      BY ClaimIs
    <3> QED
      BY <3>1 DEF Mine, SameClaim, OfClaim
  <2>2. st.joint[c] = MetricsOf(spec, c, Mine(spec, S, c))
    BY <1>2 DEF Planning, JointRight
  <2> QED
    BY <2>1, <2>2
<1>4. x = [index |-> p, id |-> spec.probes[p].id, usd |-> spec.probes[p].usd,
           seconds |-> spec.probes[p].seconds, new |-> new,
           information |-> (new.information - st.joint[c].information)
                             * ClaimOf(spec, p).importance,
           risk |-> (new.risk - st.joint[c].risk) * ClaimOf(spec, p).importance]
  <2>1. new = JointMetrics(ClaimOf(spec, p), [q \in with |-> spec.probes[q]],
                           Len(spec.probes))
    BY <1>2 DEF MetricsOf
  <2> HIDE DEF new
  <2> QED
    BY <2>1 DEF CandidateFor
<1>5. /\ x.index = p /\ x.id = spec.probes[p].id
      /\ x.usd = spec.probes[p].usd /\ x.seconds = spec.probes[p].seconds
      /\ x.new = new
      /\ x.information = (new.information - old.information) * weight
      /\ x.risk = (new.risk - old.risk) * weight
  <2> HIDE DEF new, old, x
  <2> QED
    BY <1>2, <1>3, <1>4
<1>6. /\ Gain(spec, S, p, "information") = (new["information"] - old["information"]) * weight
      /\ Gain(spec, S, p, "information") \in Int
      /\ Gain(spec, S, p, "risk") = (new["risk"] - old["risk"]) * weight
      /\ Gain(spec, S, p, "risk") \in Int
  BY <1>1, GainIs DEF Fields
<1>7. /\ x.information = Gain(spec, S, p, "information")
      /\ x.risk = Gain(spec, S, p, "risk")
  <2> HIDE DEF new, old, x
  <2> QED
    BY <1>5, <1>6
<1>8. /\ spec.probes[p].id \in Nat /\ spec.probes[p].usd \in Nat
      /\ spec.probes[p].seconds \in Nat /\ p \in Nat
  BY AcceptedProbes, AcceptedSizes
<1> HIDE DEF x, S, new
<1>9. Offer(x)
  BY <1>5, <1>6, <1>7, <1>8 DEF Offer
<1> QED
  BY <1>5, <1>7, <1>8, <1>9 DEF Tells, x, S, new

(* The strategy's fraction of a candidate is the value of its probe.        *)
LEMMA KeyIsValue ==
  ASSUME NEW spec, Accepted(spec), NEW S, NEW p, NEW x, Tells(spec, S, p, x)
  PROVE  Key(x, spec.strategy) = Value(spec, S, p)
<1>1. /\ x.usd = spec.probes[p].usd /\ x.seconds = spec.probes[p].seconds
      /\ x.information = Gain(spec, S, p, "information")
      /\ x.risk = Gain(spec, S, p, "risk")
  BY DEF Tells
<1>2. spec.strategy \in Strategies
  BY AcceptedSizes
<1>3. CASE spec.strategy = "max_information"
  BY <1>1, <1>3 DEF Key, Value
<1>4. CASE spec.strategy = "information_per_usd"
  BY <1>1, <1>4 DEF Key, Value, Rate
<1>5. CASE spec.strategy = "information_per_second"
  BY <1>1, <1>5 DEF Key, Value, Rate
<1>6. CASE spec.strategy = "max_risk_reduction"
  BY <1>1, <1>6 DEF Key, Value
<1> QED
  BY <1>2, <1>3, <1>4, <1>5, <1>6 DEF Strategies

(* The probes a turn may pick are the ones allowed.                         *)
LEMMA OpenIsAllowed ==
  ASSUME NEW spec, Accepted(spec), NEW st, Planning(spec, st)
  PROVE  LET S == Range(st.selected)
         IN  OpenProbes(spec, st) = {p \in DOMAIN spec.probes : Allowed(spec, S, p)}
<1> DEFINE S == Range(st.selected)
<1>1. S \in SUBSET DOMAIN spec.probes
  BY SelectedIn DEF Planning
<1>2. /\ st.usd = Spent(spec, S, "usd") /\ st.seconds = Spent(spec, S, "seconds")
  BY DEF Planning, TotalsSound
<1> HIDE DEF S
<1>3. ASSUME NEW p \in DOMAIN spec.probes
      PROVE  p \in OpenProbes(spec, st) <=> Allowed(spec, S, p)
  <2>1. SameClaim(spec, S, ClaimOf(spec, p)) = OfClaim(spec, S, p)
    BY ClaimIs DEF SameClaim, OfClaim
  <2>2. Allowed(spec, S, p) <=>
          /\ p \notin S
          /\ Spent(spec, S \cup {p}, "usd") <= spec.budget.usd
          /\ Spent(spec, S \cup {p}, "seconds") <= spec.budget.seconds
          /\ Cardinality(OfClaim(spec, S, p)) < EnumerationLimit
          /\ \A q \in OfClaim(spec, S, p) : spec.probes[q].group # spec.probes[p].group
    BY <2>1 DEF Allowed
  <2>3. p \in OpenProbes(spec, st) <=>
          /\ p \notin S
          /\ FitsBudget(spec, st, p)
          /\ Cardinality(OfClaim(spec, S, p)) < EnumerationLimit
          /\ \A q \in OfClaim(spec, S, p) : spec.probes[q].group # spec.probes[p].group
    BY DEF OpenProbes, CountableProbes, FreeProbes, Remaining, HasDependenceConflict, S
  <2>4. p \notin S => /\ Spent(spec, S \cup {p}, "usd") = st.usd + spec.probes[p].usd
                      /\ Spent(spec, S \cup {p}, "seconds") = st.seconds + spec.probes[p].seconds
    BY <1>1, <1>2, SpentIs
  <2> QED
    BY <2>2, <2>3, <2>4 DEF FitsBudget
<1>4. OpenProbes(spec, st) \subseteq DOMAIN spec.probes
  BY DEF OpenProbes, CountableProbes, FreeProbes, Remaining
<1> QED
  BY <1>3, <1>4 DEF S

LEMMA CandidatesAre ==
  ASSUME NEW spec, Accepted(spec), NEW st, Planning(spec, st)
  PROVE  LET T == Candidates(spec, st)
             S == Range(st.selected)
         IN  /\ Offers(T) /\ Named(T)
             /\ FrontierIds(T) \in SUBSET Nat
             /\ \A x \in T : \E p \in DOMAIN spec.probes :
                  Allowed(spec, S, p) /\ x = CandidateFor(spec, st, p)
             /\ \A p \in DOMAIN spec.probes :
                  Allowed(spec, S, p) => CandidateFor(spec, st, p) \in T
<1> DEFINE T == Candidates(spec, st)
           S == Range(st.selected)
           f == [p \in OpenProbes(spec, st) |-> CandidateFor(spec, st, p)]
<1>1. \A x \in T : \E p \in DOMAIN spec.probes :
        Allowed(spec, S, p) /\ x = CandidateFor(spec, st, p)
  BY OpenIsAllowed DEF Candidates
<1>2. \A p \in DOMAIN spec.probes : Allowed(spec, S, p) => CandidateFor(spec, st, p) \in T
  BY OpenIsAllowed DEF Candidates
<1>3. IsFiniteSet(T)
  <2>1. OpenProbes(spec, st) \subseteq DOMAIN spec.probes
    BY OpenIsAllowed
  <2>2. IsFiniteSet(OpenProbes(spec, st))
    BY <2>1, AcceptedSizes, FS_Subset
  <2>3. T = {f[p] : p \in OpenProbes(spec, st)}
    BY DEF Candidates
  <2> HIDE DEF f, T
  <2>4. IsFiniteSet({f[p] : p \in OpenProbes(spec, st)})
    BY <2>2, FiniteImage
  <2> QED
    BY <2>3, <2>4
<1> HIDE DEF T, S
<1>4. ASSUME NEW x \in T
      PROVE  Offer(x) /\ x.id \in Nat
  <2>1. PICK p \in DOMAIN spec.probes : x = CandidateFor(spec, st, p)
    BY <1>1
  <2> QED
    BY <2>1, CandidateIs DEF Tells
<1>5. ASSUME NEW x \in T, NEW y \in T, x.id = y.id
      PROVE  x = y
  <2>1. PICK p \in DOMAIN spec.probes : x = CandidateFor(spec, st, p)
    BY <1>1
  <2>2. PICK q \in DOMAIN spec.probes : y = CandidateFor(spec, st, q)
    BY <1>1
  <2>3. spec.probes[p].id = spec.probes[q].id
    <3>1. \A r : CandidateFor(spec, st, r).id = spec.probes[r].id
      BY DEF CandidateFor
    <3>2. CandidateFor(spec, st, p).id = CandidateFor(spec, st, q).id
      BY <1>5, <2>1, <2>2
    <3> QED
      BY <3>1, <3>2
  <2>4. p = q
    BY <2>3, AcceptedSizes DEF Distinct
  <2> QED
    BY <2>1, <2>2, <2>4
<1>6. Offers(T) /\ Named(T)
  BY <1>3, <1>4, <1>5 DEF Offers, Named
<1>7. FrontierIds(T) \in SUBSET Nat
  BY <1>4 DEF FrontierIds
<1> QED
  BY <1>1, <1>2, <1>6, <1>7 DEF T, S

-----------------------------------------------------------------------------
PlanRight(spec, st) == Planning(spec, st) /\ PlanSound(spec, st)

LEMMA PlanStateIs ==
  ASSUME NEW spec, NEW selected \in Seq(DOMAIN spec.probes), NEW usd \in Int,
         NEW seconds \in Int, NEW information \in Int, NEW risk \in Int,
         NEW joint \in [DOMAIN spec.claims -> [information : Int, risk : Int]],
         NEW steps \in Seq(Notes), NEW reason \in Reasons
  PROVE  [selected |-> selected, usd |-> usd, seconds |-> seconds,
          information |-> information, risk |-> risk, joint |-> joint,
          steps |-> steps, reason |-> reason] \in PlanStates(spec)
  BY DEF PlanStates

LEMMA WhyNoneIs ==
  ASSUME NEW spec, NEW st
  PROVE  /\ WhyNone(spec, st) \in Reasons
         /\ WhyNone(spec, st) \in {"no candidates", "dependence constraint",
                                   "exact enumeration limit", "budget exhausted"}
         /\ WhyNone(spec, st) = "dependence constraint" => FreeProbes(spec, st) = {}
<1>1. CASE Remaining(spec, st) = {}
  BY <1>1 DEF WhyNone, Reasons
<1>2. CASE Remaining(spec, st) # {} /\ FreeProbes(spec, st) = {}
  BY <1>2 DEF WhyNone, Reasons
<1>3. CASE FreeProbes(spec, st) # {} /\ CountableProbes(spec, st) = {}
  <2>1. Remaining(spec, st) # {}
    BY <1>3 DEF FreeProbes
  <2> QED
    BY <1>3, <2>1 DEF WhyNone, Reasons
<1>4. CASE FreeProbes(spec, st) # {} /\ CountableProbes(spec, st) # {}
  <2>1. Remaining(spec, st) # {}
    BY <1>4 DEF FreeProbes
  <2> QED
    BY <1>4, <2>1 DEF WhyNone, Reasons
<1> QED
  BY <1>1, <1>2, <1>3, <1>4

(* The totals of running joint values that are right.                       *)
LEMMA TotalIs ==
  ASSUME NEW spec, Accepted(spec), NEW S \in SUBSET DOMAIN spec.probes,
         NEW joint, DOMAIN joint = DOMAIN spec.claims,
         \A c \in DOMAIN spec.claims : joint[c] = MetricsOf(spec, c, Mine(spec, S, c)),
         NEW field \in Fields
  PROVE  SumFunction([c \in DOMAIN joint |-> joint[c][field] * spec.claims[c].importance])
           = Worth(spec, S, field)
<1> DEFINE D == DOMAIN spec.claims
           total == [c \in DOMAIN joint |-> joint[c][field] * spec.claims[c].importance]
           share == [c \in D |-> Share(spec, S, c, field)]
<1>1. /\ Worth(spec, S, field) = Sum(share, D)
      /\ \A c \in D : Share(spec, S, c, field) \in Int
  BY WorthIs
<1>2. ASSUME NEW c \in D
      PROVE  total[c] = share[c] /\ share[c] \in Int
  <2> DEFINE worth == MetricsOf(spec, c, Mine(spec, S, c))[field]
             weight == spec.claims[c].importance
  <2>1. share[c] = weight * worth /\ total[c] = worth * weight
    BY DEF Share
  <2>2. weight \in Int
    BY AcceptedClaims
  <2>3. worth \in Int
    <3>1. Mine(spec, S, c) \in SUBSET DOMAIN spec.probes
      BY DEF Mine, SameClaim
    <3>2. MetricsOf(spec, c, Mine(spec, S, c)) \in [information : Int, risk : Int]
      BY <3>1, MetricsTyped
    <3> QED
      BY <3>2 DEF Fields
  <2>4. share[c] \in Int
    BY <1>1
  <2> HIDE DEF worth, weight, share, total
  <2> QED
    BY <2>1, <2>2, <2>3, <2>4
<1>3. DOMAIN total = D /\ IsFiniteSet(D)
  BY AcceptedSizes
<1> HIDE DEF total, share, D
<1>4. SumFunction(total) = Sum(total, D)
  BY <1>3, SumFunctionIsSum
<1>5. \A c \in D : total[c] \in Int /\ total[c] = share[c]
  BY <1>2
<1>6. Sum(total, D) = Sum(share, D)
  BY <1>3, <1>5, SumSame
<1>7. SumFunction(total) = Worth(spec, S, field)
  BY <1>1, <1>4, <1>6
<1> QED
  BY <1>7 DEF total

LEMMA BeginRight ==
  ASSUME NEW spec, Accepted(spec)
  PROVE  PlanRight(spec, Begin(spec))
<1> DEFINE st == Begin(spec)
           none == [information |-> 0, risk |-> 0]
           joint == [c \in DOMAIN spec.claims |-> none]
<1>1. st = [selected |-> <<>>, usd |-> 0, seconds |-> 0, information |-> 0, risk |-> 0,
            joint |-> joint, steps |-> <<>>, reason |-> "none"]
  BY DEF Begin
<1>2. joint \in [DOMAIN spec.claims -> [information : Int, risk : Int]]
  OBVIOUS
<1>3. /\ \A c \in DOMAIN spec.claims : joint[c] = none
      /\ DOMAIN joint = DOMAIN spec.claims
  OBVIOUS
<1> HIDE DEF joint, st
<1>4. /\ <<>> \in Seq(DOMAIN spec.probes) /\ <<>> \in Seq(Notes)
      /\ Len(<<>>) = 0 /\ Range(<<>>) = {}
  BY EmptySeq DEF Range
<1>5. st \in PlanStates(spec)
  <2>1. 0 \in Int /\ "none" \in Reasons
    BY DEF Reasons
  <2> QED
    BY <1>1, <1>2, <1>4, <2>1, PlanStateIs
<1>6. /\ st.selected = <<>> /\ st.steps = <<>> /\ st.joint = joint /\ st.reason = "none"
      /\ st.usd = 0 /\ st.seconds = 0 /\ st.information = 0 /\ st.risk = 0
      /\ Range(st.selected) = {}
  BY <1>1, <1>4
<1>7. {} \in SUBSET DOMAIN spec.probes
  OBVIOUS
<1>8. ASSUME NEW c \in DOMAIN spec.claims
      PROVE  joint[c] = MetricsOf(spec, c, Mine(spec, {}, c))
  <2>1. Mine(spec, {}, c) = {}
    BY DEF Mine, SameClaim
  <2> QED
    BY <1>3, <1>7, <2>1, MetricsTyped
<1>9. ASSUME NEW field \in Fields
      PROVE  Worth(spec, {}, field) = 0
  <2> DEFINE total == [c \in DOMAIN joint |-> joint[c][field] * spec.claims[c].importance]
             D == DOMAIN spec.claims
  <2>1. SumFunction(total) = Worth(spec, {}, field)
    BY <1>3, <1>7, <1>8, TotalIs
  <2>2. \A c \in D : total[c] = 0
    <3> SUFFICES ASSUME NEW c \in D
                 PROVE  total[c] = 0
      OBVIOUS
    <3>1. joint[c][field] = 0
      BY <1>3 DEF Fields
    <3>2. spec.claims[c].importance \in Int
      BY AcceptedClaims
    <3>3. total[c] = joint[c][field] * spec.claims[c].importance
      BY <1>3
    <3> QED
      BY <3>1, <3>2, <3>3
  <2>3. DOMAIN total = D /\ IsFiniteSet(D) /\ 0 \in Int
    BY <1>3, AcceptedSizes
  <2> HIDE DEF total, D
  <2>4. SumFunction(total) = Sum(total, D)
    BY <2>3, SumFunctionIsSum
  <2>5. Sum(total, D) = 0 * Cardinality(D)
    BY <2>2, <2>3, SumConstant
  <2>6. Cardinality(D) \in Nat
    BY <2>3, FS_CardinalityType
  <2>7. 0 * Cardinality(D) = 0
    BY <2>6
  <2> QED
    BY <2>1, <2>4, <2>5, <2>7
<1>10. /\ Spent(spec, {}, "usd") = 0 /\ Spent(spec, {}, "seconds") = 0
       /\ Worth(spec, {}, "information") = 0 /\ Worth(spec, {}, "risk") = 0
  BY <1>7, <1>9, SpentIs DEF Fields
<1>11. TotalsSound(spec, st, {})
  <2>1. spec.budget.probes \in Nat
    BY AcceptedSizes
  <2> QED
    BY <1>4, <1>6, <1>10, <2>1 DEF TotalsSound
<1>12. Planning(spec, st)
  BY <1>4, <1>5, <1>6, <1>8, <1>11 DEF Planning, JointRight
<1>13. DOMAIN st.selected = {}
  BY <1>6
<1> QED
  BY <1>6, <1>11, <1>12, <1>13 DEF PlanRight, PlanSound, ReasonSound, st

(* A pick stays right: it looks back only.                                  *)
LEMMA PickKept ==
  ASSUME NEW spec, NEW st, NEW new, NEW k \in Nat, k > 0,
         \A j \in 1..k : new.selected[j] = st.selected[j],
         new.steps[k] = st.steps[k], PickSound(spec, st, k)
  PROVE  PickSound(spec, new, k)
<1>1. Chosen(new, k - 1) = Chosen(st, k - 1)
  BY DEF Chosen
<1>2. new.selected[k] = st.selected[k]
  OBVIOUS
<1> QED
  BY <1>1, <1>2, Zenon DEF PickSound

LEMMA StopsRight ==
  ASSUME NEW spec, Accepted(spec), NEW st, PlanRight(spec, st), NEW reason \in Reasons,
         ReasonSound(spec, Stops(st, reason), Range(st.selected))
  PROVE  PlanRight(spec, Stops(st, reason))
<1> DEFINE new == Stops(st, reason)
<1>1. st \in PlanStates(spec) /\ Planning(spec, st)
  BY DEF PlanRight, Planning
<1>2. /\ new \in PlanStates(spec)
      /\ new.selected = st.selected /\ new.usd = st.usd /\ new.seconds = st.seconds
      /\ new.information = st.information /\ new.risk = st.risk
      /\ new.joint = st.joint /\ new.steps = st.steps
  BY <1>1 DEF PlanStates, Stops
<1> HIDE DEF new
<1>3. Planning(spec, new)
  BY <1>1, <1>2 DEF Planning, JointRight, TotalsSound
<1>4. ASSUME NEW k \in DOMAIN new.selected
      PROVE  PickSound(spec, new, k)
  <2>1. k \in Nat /\ k > 0
    BY <1>1, <1>2, SelectedIn
  <2>2. PickSound(spec, st, k)
    BY <1>2 DEF PlanRight, PlanSound
  <2> QED
    BY <1>2, <2>1, <2>2, PickKept
<1>5. ReasonSound(spec, new, Range(new.selected))
  BY <1>2 DEF new
<1> QED
  BY <1>3, <1>4, <1>5 DEF PlanRight, PlanSound, Planning, new

LEMMA SelectRight ==
  ASSUME NEW spec, Accepted(spec), NEW st, PlanRight(spec, st), st.reason = "none",
         Len(st.selected) < spec.budget.probes,
         FrontOf(Candidates(spec, st)) # {},
         HasPositiveValue(Pick(spec, st), spec.strategy)
  PROVE  PlanRight(spec, Select(spec, st, Pick(spec, st), FrontierIds(Candidates(spec, st))))
<1> DEFINE T == Candidates(spec, st)
           x == Pick(spec, st)
           new == Select(spec, st, x, FrontierIds(T))
           S == Range(st.selected)
           n == Len(st.selected)
<1>1. Planning(spec, st) /\ st \in PlanStates(spec)
  BY DEF PlanRight, Planning
<1>2. /\ S \in SUBSET DOMAIN spec.probes /\ st.selected \in Seq(DOMAIN spec.probes)
      /\ n \in Nat /\ DOMAIN st.selected = 1..n /\ S = {st.selected[j] : j \in 1..n}
  BY <1>1, SelectedIn
<1>3. /\ Offers(T) /\ Named(T) /\ FrontierIds(T) \in SUBSET Nat
      /\ \A y \in T : \E q \in DOMAIN spec.probes :
           Allowed(spec, S, q) /\ y = CandidateFor(spec, st, q)
      /\ \A q \in DOMAIN spec.probes :
           Allowed(spec, S, q) => CandidateFor(spec, st, q) \in T
  BY <1>1, CandidatesAre
<1>4. /\ x \in T /\ Key(x, spec.strategy)[1] > 0
      /\ \A y \in T : AtLeast(Key(x, spec.strategy), Key(y, spec.strategy))
  <2>1. spec.strategy \in Strategies
    BY AcceptedSizes
  <2> HIDE DEF T
  <2> QED
    BY <1>3, <2>1, PickIsBest DEF Pick, T
<1>5. PICK p \in DOMAIN spec.probes : Allowed(spec, S, p) /\ x = CandidateFor(spec, st, p)
  BY <1>3, <1>4
<1> DEFINE c == ClaimIndex(spec, p)
<1>6. /\ x.index = p /\ x.usd = spec.probes[p].usd /\ x.seconds = spec.probes[p].seconds
      /\ x.new = MetricsOf(spec, c, OfClaim(spec, S, p) \cup {p})
      /\ x.information = Gain(spec, S, p, "information")
      /\ x.risk = Gain(spec, S, p, "risk") /\ Offer(x)
      /\ Key(x, spec.strategy) = Value(spec, S, p)
  <2>1. Tells(spec, S, p, x)
    BY <1>1, <1>5, CandidateIs
  <2>2. Key(x, spec.strategy) = Value(spec, S, p)
    BY <2>1, KeyIsValue
  <2> QED
    BY <2>1, <2>2 DEF Tells
<1> DEFINE joint == [st.joint EXCEPT ![c] = x.new]
           note == [information |-> x.information, risk |-> x.risk,
                    frontier |-> FrontierIds(T)]
           Total(field) ==
             SumFunction([d \in DOMAIN joint |-> joint[d][field] * spec.claims[d].importance])
<1>7. new = [st EXCEPT !.selected = Append(@, p), !.usd = @ + x.usd,
                       !.seconds = @ + x.seconds, !.joint = joint,
                       !.information = Total("information"), !.risk = Total("risk"),
                       !.steps = Append(@, note)]
  BY <1>6 DEF Select
<1>8. st.joint \in [DOMAIN spec.claims -> [information : Int, risk : Int]]
  BY <1>1 DEF PlanStates
<1>9. c \in DOMAIN spec.claims
  BY ClaimIs
<1> DEFINE R == S \cup {p}
<1>10. R \in SUBSET DOMAIN spec.probes /\ p \notin S
  BY <1>2, <1>5 DEF Allowed
<1>11. ASSUME NEW d \in DOMAIN spec.claims
       PROVE  joint[d] = MetricsOf(spec, d, Mine(spec, R, d))
  <2>1. CASE d = c
    <3>1. Mine(spec, R, c) = OfClaim(spec, S, p) \cup {p}
      <4>1. spec.claims[c].id = spec.probes[p].claim
        BY ClaimIs
      <4> QED
        BY <4>1 DEF Mine, SameClaim, OfClaim
    <3>2. joint[c] = x.new
      BY <1>8, <1>9
    <3> HIDE DEF joint, c, R, S, x
    <3> QED
      BY <1>6, <2>1, <3>1, <3>2
  <2>2. CASE d # c
    <3>1. Mine(spec, R, d) = Mine(spec, S, d)
      <4>1. spec.claims[d].id # spec.probes[p].claim
        BY <2>2, ClaimIs
      <4> QED
        BY <4>1 DEF Mine, SameClaim
    <3>2. joint[d] = st.joint[d]
      BY <1>8, <2>2
    <3>3. st.joint[d] = MetricsOf(spec, d, Mine(spec, S, d))
      BY <1>1 DEF Planning, JointRight
    <3> QED
      BY <3>1, <3>2, <3>3
  <2> QED
    BY <2>1, <2>2
<1>12. /\ DOMAIN joint = DOMAIN spec.claims
       /\ joint \in [DOMAIN spec.claims -> [information : Int, risk : Int]]
  <2>1. DOMAIN joint = DOMAIN spec.claims
    BY <1>8
  <2>2. \A d \in DOMAIN spec.claims : joint[d] \in [information : Int, risk : Int]
    <3> SUFFICES ASSUME NEW d \in DOMAIN spec.claims
                 PROVE  MetricsOf(spec, d, Mine(spec, R, d)) \in [information : Int, risk : Int]
      BY <1>11
    <3>1. Mine(spec, R, d) \in SUBSET DOMAIN spec.probes
      BY <1>10 DEF Mine, SameClaim
    <3> QED
      BY <3>1, MetricsTyped
  <2>3. joint = [d \in DOMAIN spec.claims |-> joint[d]]
    BY <1>8
  <2> HIDE DEF joint
  <2> QED
    BY <2>1, <2>2, <2>3
<1>13. \A field \in Fields : Total(field) = Worth(spec, R, field) /\ Total(field) \in Int
  <2> SUFFICES ASSUME NEW field \in Fields
               PROVE  Total(field) = Worth(spec, R, field) /\ Total(field) \in Int
    OBVIOUS
  <2>1. Worth(spec, R, field) \in Int
    BY <1>10, WorthIs
  <2> HIDE DEF joint, R
  <2>2. Total(field) = Worth(spec, R, field)
    BY <1>10, <1>11, <1>12, TotalIs
  <2> QED
    BY <2>1, <2>2
<1> DEFINE info == Total("information")
           loss == Total("risk")
<1>14. /\ info = Worth(spec, R, "information") /\ loss = Worth(spec, R, "risk")
       /\ info \in Int /\ loss \in Int
  BY <1>13 DEF Fields
<1>15. note \in Notes /\ note.information = x.information /\ note.risk = x.risk
  BY <1>3, <1>6 DEF Notes, Offer
<1> HIDE DEF joint, note, info, loss, x, T, S, c, n, R, new
<1>16. /\ st.steps \in Seq(Notes) /\ Len(st.steps) = n /\ st.usd \in Int /\ st.seconds \in Int
       /\ x.usd \in Int /\ x.seconds \in Int
  BY <1>1, <1>6 DEF PlanStates, Planning, Offer, n
<1>17. /\ Append(st.selected, p) \in Seq(DOMAIN spec.probes)
       /\ Len(Append(st.selected, p)) = n + 1
       /\ \A k \in 1..n : Append(st.selected, p)[k] = st.selected[k]
       /\ Append(st.selected, p)[n + 1] = p
       /\ Append(st.steps, note) \in Seq(Notes) /\ Len(Append(st.steps, note)) = n + 1
       /\ \A k \in 1..n : Append(st.steps, note)[k] = st.steps[k]
       /\ Append(st.steps, note)[n + 1] = note
  <2>1. /\ Append(st.selected, p) \in Seq(DOMAIN spec.probes)
        /\ Len(Append(st.selected, p)) = Len(st.selected) + 1
        /\ \A k \in 1..Len(st.selected) : Append(st.selected, p)[k] = st.selected[k]
        /\ Append(st.selected, p)[Len(st.selected) + 1] = p
    <3> DEFINE D == DOMAIN spec.probes
    <3>1. st.selected \in Seq(D) /\ p \in D
      BY <1>2
    <3> HIDE DEF D
    <3>2. /\ Append(st.selected, p) \in Seq(D)
          /\ Len(Append(st.selected, p)) = Len(st.selected) + 1
          /\ \A k \in 1..Len(st.selected) : Append(st.selected, p)[k] = st.selected[k]
          /\ Append(st.selected, p)[Len(st.selected) + 1] = p
      BY <3>1, AppendProperties
    <3> QED
      BY <3>2 DEF D
  <2>2. /\ Append(st.steps, note) \in Seq(Notes)
        /\ Len(Append(st.steps, note)) = Len(st.steps) + 1
        /\ \A k \in 1..Len(st.steps) : Append(st.steps, note)[k] = st.steps[k]
        /\ Append(st.steps, note)[Len(st.steps) + 1] = note
    BY <1>15, <1>16, AppendProperties
  <2>3. Len(st.selected) = n /\ Len(st.steps) = n
    BY <1>16 DEF n
  <2> QED
    BY <2>1, <2>2, <2>3
<1>18. /\ new.selected = Append(st.selected, p) /\ new.steps = Append(st.steps, note)
       /\ new.usd = st.usd + x.usd /\ new.seconds = st.seconds + x.seconds
       /\ new.joint = joint /\ new.information = info /\ new.risk = loss
       /\ new.reason = "none"
  <2>1. st.reason = "none"
    OBVIOUS
  <2> QED
    BY <1>1, <1>7, <2>1 DEF PlanStates, info, loss
<1>19. new \in PlanStates(spec)
  <2>1. new = [selected |-> new.selected, usd |-> new.usd, seconds |-> new.seconds,
               information |-> new.information, risk |-> new.risk, joint |-> new.joint,
               steps |-> new.steps, reason |-> new.reason]
    BY <1>1, <1>7 DEF PlanStates, info, loss
  <2>2. /\ new.usd \in Int /\ new.seconds \in Int
        /\ new.information \in Int /\ new.risk \in Int /\ new.reason \in Reasons
        /\ new.selected \in Seq(DOMAIN spec.probes) /\ new.steps \in Seq(Notes)
        /\ new.joint \in [DOMAIN spec.claims -> [information : Int, risk : Int]]
    <3>1. new.usd \in Int /\ new.seconds \in Int
      BY <1>16, <1>18
    <3>2. new.information \in Int /\ new.risk \in Int
      BY <1>14, <1>18
    <3>3. new.reason \in Reasons
      BY <1>18 DEF Reasons
    <3>4. new.selected \in Seq(DOMAIN spec.probes) /\ new.steps \in Seq(Notes)
      BY <1>17, <1>18
    <3>5. new.joint \in [DOMAIN spec.claims -> [information : Int, risk : Int]]
      BY <1>12, <1>18
    <3> QED
      BY <3>1, <3>2, <3>3, <3>4, <3>5
  <2>3. [selected |-> new.selected, usd |-> new.usd, seconds |-> new.seconds,
         information |-> new.information, risk |-> new.risk, joint |-> new.joint,
         steps |-> new.steps, reason |-> new.reason] \in PlanStates(spec)
    BY <2>2, PlanStateIs
  <2> QED
    BY <2>1, <2>3
<1>20. /\ Range(new.selected) = R /\ DOMAIN new.selected = 1..(n + 1)
       /\ n \in Nat
  <2>1. DOMAIN new.selected = 1..(n + 1) /\ n \in Nat
    BY <1>2, <1>17, <1>18, LenProperties
  <2>2. /\ \A k \in 1..n : new.selected[k] = st.selected[k]
        /\ new.selected[n + 1] = p
    BY <1>17, <1>18
  <2>3. 1..(n + 1) = (1..n) \cup {n + 1}
    BY <2>1
  <2>4. Range(new.selected) = {new.selected[k] : k \in 1..(n + 1)}
    BY <2>1 DEF Range
  <2>5. S = {st.selected[j] : j \in 1..n}
    BY <1>2
  <2>6. \A q : q \in Range(new.selected) <=> q \in S \/ q = p
    BY <2>2, <2>3, <2>4, <2>5
  <2> QED
    BY <2>1, <2>6 DEF R
<1>21. TotalsSound(spec, new, R)
  <2>1. st.usd = Spent(spec, S, "usd") /\ st.seconds = Spent(spec, S, "seconds")
    BY <1>1 DEF Planning, TotalsSound, S
  <2>2. /\ Spent(spec, R, "usd") = Spent(spec, S, "usd") + spec.probes[p].usd
        /\ Spent(spec, R, "seconds") = Spent(spec, S, "seconds") + spec.probes[p].seconds
    BY <1>2, <1>10, SpentIs DEF R
  <2>3. n + 1 <= spec.budget.probes
    <3>1. n < spec.budget.probes /\ spec.budget.probes \in Nat /\ n \in Nat
      BY <1>2, AcceptedSizes DEF n
    <3> QED
      BY <3>1
  <2> QED
    BY <1>6, <1>14, <1>17, <1>18, <2>1, <2>2, <2>3 DEF TotalsSound
<1>22. Planning(spec, new)
  BY <1>11, <1>17, <1>18, <1>19, <1>20, <1>21 DEF Planning, JointRight
<1>23. PickSound(spec, new, n + 1)
  <2>1. Chosen(new, (n + 1) - 1) = S
    <3>1. (n + 1) - 1 = n
      BY <1>20
    <3>2. \A k \in 1..n : new.selected[k] = st.selected[k]
      BY <1>17, <1>18
    <3>3. Chosen(new, n) = {st.selected[j] : j \in 1..n}
      BY <3>2 DEF Chosen
    <3> QED
      BY <1>2, <3>1, <3>3
  <2>2. new.selected[n + 1] = p /\ new.steps[n + 1] = note
    BY <1>17, <1>18
  <2>3. ASSUME NEW q \in DOMAIN spec.probes, Allowed(spec, S, q)
        PROVE  AtLeast(Value(spec, S, p), Value(spec, S, q))
    <3>1. CandidateFor(spec, st, q) \in T
      BY <1>3, <2>3
    <3>2. Key(CandidateFor(spec, st, q), spec.strategy) = Value(spec, S, q)
      BY <1>1, CandidateIs, KeyIsValue DEF S
    <3>3. AtLeast(Key(x, spec.strategy), Key(CandidateFor(spec, st, q), spec.strategy))
      BY <1>4, <3>1
    <3> QED
      BY <1>6, <3>2, <3>3
  <2>4. Value(spec, S, p)[1] > 0
    BY <1>4, <1>6
  <2>5. /\ new.steps[n + 1].information = Gain(spec, S, p, "information")
        /\ new.steps[n + 1].risk = Gain(spec, S, p, "risk")
    BY <1>6, <1>15, <2>2
  <2>6. Allowed(spec, S, p)
    BY <1>5
  <2> QED
    BY <2>1, <2>2, <2>3, <2>4, <2>5, <2>6 DEF PickSound
<1>24. ASSUME NEW k \in DOMAIN new.selected
       PROVE  PickSound(spec, new, k)
  <2>1. CASE k = n + 1
    BY <1>23, <2>1
  <2>2. CASE k # n + 1
    <3>1. k \in 1..n /\ k \in Nat /\ k > 0
      BY <1>20, <2>2
    <3>2. PickSound(spec, st, k)
      BY <1>2, <3>1 DEF PlanRight, PlanSound
    <3>3. new.steps[k] = st.steps[k] /\ \A j \in 1..k : new.selected[j] = st.selected[j]
      BY <1>17, <1>18, <1>20, <3>1
    <3> QED
      BY <3>1, <3>2, <3>3, PickKept
  <2> QED
    BY <2>1, <2>2
<1>25. ReasonSound(spec, new, R)
  BY <1>18 DEF ReasonSound
<1>26. PlanRight(spec, new)
  BY <1>20, <1>21, <1>22, <1>24, <1>25 DEF PlanRight, PlanSound
<1> QED
  BY <1>26 DEF new, x, T

LEMMA ReasonsAreRight ==
  ASSUME NEW spec, Accepted(spec), NEW st, PlanRight(spec, st)
  PROVE  LET S == Range(st.selected)
         IN  /\ Candidates(spec, st) = {} =>
                  /\ WhyNone(spec, st) \in Reasons
                  /\ ReasonSound(spec, Stops(st, WhyNone(spec, st)), S)
             /\ ~ spec.independent =>
                  ReasonSound(spec, Stops(st, "dependence constraint"), S)
             /\ ReasonSound(spec, Stops(st, "max probes reached"), S)
             /\ \/ FrontOf(Candidates(spec, st)) = {}
                \/ ~HasPositiveValue(Pick(spec, st), spec.strategy)
                => ReasonSound(spec, Stops(st, "no positive marginal value"), S)
<1> DEFINE S == Range(st.selected)
           T == Candidates(spec, st)
<1>1. Planning(spec, st) /\ st \in PlanStates(spec)
  BY DEF PlanRight, Planning
<1>2. /\ \A reason \in Reasons : Stops(st, reason).reason = reason
      /\ Stops(st, "dependence constraint").reason = "dependence constraint"
      /\ Stops(st, "max probes reached").reason = "max probes reached"
      /\ Stops(st, "no positive marginal value").reason = "no positive marginal value"
  BY <1>1 DEF Stops, PlanStates, Reasons
<1>3. /\ Offers(T) /\ Named(T)
      /\ \A q \in DOMAIN spec.probes : Allowed(spec, S, q) => CandidateFor(spec, st, q) \in T
  BY <1>1, CandidatesAre
<1> HIDE DEF T
<1>4. ASSUME T = {}
      PROVE  /\ WhyNone(spec, st) \in Reasons
             /\ ReasonSound(spec, Stops(st, WhyNone(spec, st)), S)
  <2> DEFINE why == WhyNone(spec, st)
  <2>1. why \in {"no candidates", "dependence constraint", "exact enumeration limit",
                 "budget exhausted"}
    BY WhyNoneIs
  <2>2. why \in Reasons
    BY WhyNoneIs
  <2>3. ~ \E q \in DOMAIN spec.probes : Allowed(spec, S, q)
    BY <1>3, <1>4
  <2>4. why = "dependence constraint" => FreeProbes(spec, st) = {}
    BY WhyNoneIs
  <2>5. ASSUME FreeProbes(spec, st) = {}, NEW q \in DOMAIN spec.probes \ S
        PROVE  \E r \in SameClaim(spec, S, ClaimOf(spec, q)) :
                 spec.probes[r].group = spec.probes[q].group
    <3>1. HasDependenceConflict(spec, st, q)
      BY <2>5 DEF FreeProbes, Remaining
    <3>2. SameClaim(spec, S, ClaimOf(spec, q)) = OfClaim(spec, S, q)
      BY ClaimIs DEF SameClaim, OfClaim
    <3> QED
      BY <3>1, <3>2 DEF HasDependenceConflict
  <2> HIDE DEF why, S
  <2>6. Stops(st, why).reason = why
    BY <1>2, <2>2
  <2>7. ReasonSound(spec, Stops(st, why), S)
    BY <2>1, <2>3, <2>4, <2>5, <2>6 DEF ReasonSound
  <2> QED
    BY <2>2, <2>7 DEF why
<1>5. ~ spec.independent => ReasonSound(spec, Stops(st, "dependence constraint"), S)
  BY <1>2 DEF ReasonSound
<1>6. ReasonSound(spec, Stops(st, "max probes reached"), S)
  BY <1>2 DEF ReasonSound
<1>7. ASSUME FrontOf(T) = {} \/ ~HasPositiveValue(Pick(spec, st), spec.strategy)
      PROVE  ReasonSound(spec, Stops(st, "no positive marginal value"), S)
  <2>1. spec.strategy \in Strategies
    BY AcceptedSizes
  <2>2. \A x \in T : Key(x, spec.strategy)[1] <= 0
    BY <1>3, <1>7, <2>1, NothingLeft DEF Pick, T
  <2>3. ASSUME NEW q \in DOMAIN spec.probes, Allowed(spec, S, q)
        PROVE  Value(spec, S, q)[1] <= 0
    <3>1. Key(CandidateFor(spec, st, q), spec.strategy) = Value(spec, S, q)
      BY <1>1, CandidateIs, KeyIsValue
    <3> QED
      BY <1>3, <2>2, <2>3, <3>1
  <2> HIDE DEF S
  <2> QED
    BY <1>2, <2>3 DEF ReasonSound
<1> QED
  BY <1>4, <1>5, <1>6, <1>7 DEF T

LEMMA StepRight ==
  ASSUME NEW spec, Accepted(spec), NEW st, PlanRight(spec, st), st.reason = "none"
  PROVE  PlanRight(spec, PlanStep(spec, st))
<1> DEFINE T == Candidates(spec, st)
<1>1. CASE Len(st.selected) >= spec.budget.probes
  <2>1. PlanStep(spec, st) = Stops(st, "max probes reached")
    BY <1>1, PlanStepIs
  <2>2. "max probes reached" \in Reasons
    BY DEF Reasons
  <2>3. ReasonSound(spec, Stops(st, "max probes reached"), Range(st.selected))
    BY <1>1, ReasonsAreRight
  <2> QED
    BY <2>1, <2>2, <2>3, StopsRight
<1>2. CASE /\ ~(Len(st.selected) >= spec.budget.probes)
           /\ ~ spec.independent /\ st.selected # <<>>
  <2>1. PlanStep(spec, st) = Stops(st, "dependence constraint")
    BY <1>2, PlanStepIs
  <2>2. "dependence constraint" \in Reasons
    BY DEF Reasons
  <2>3. ReasonSound(spec, Stops(st, "dependence constraint"), Range(st.selected))
    BY <1>2, ReasonsAreRight
  <2> QED
    BY <2>1, <2>2, <2>3, StopsRight
<1>3. CASE /\ ~(Len(st.selected) >= spec.budget.probes)
           /\ ~(~ spec.independent /\ st.selected # <<>>)
           /\ T = {}
  <2>1. PlanStep(spec, st) = Stops(st, WhyNone(spec, st))
    BY <1>3, PlanStepIs
  <2> QED
    BY <1>3, <2>1, ReasonsAreRight, StopsRight
<1>4. CASE /\ ~(Len(st.selected) >= spec.budget.probes)
           /\ ~(~ spec.independent /\ st.selected # <<>>)
           /\ T # {}
           /\ FrontOf(T) = {} \/ ~HasPositiveValue(Pick(spec, st), spec.strategy)
  <2>1. PlanStep(spec, st) = Stops(st, "no positive marginal value")
    BY <1>4, PlanStepIs
  <2>2. "no positive marginal value" \in Reasons
    BY DEF Reasons
  <2>3. ReasonSound(spec, Stops(st, "no positive marginal value"), Range(st.selected))
    BY <1>4, ReasonsAreRight
  <2> QED
    BY <2>1, <2>2, <2>3, StopsRight
<1>5. CASE /\ ~(Len(st.selected) >= spec.budget.probes)
           /\ ~(~ spec.independent /\ st.selected # <<>>)
           /\ T # {}
           /\ ~(FrontOf(T) = {} \/ ~HasPositiveValue(Pick(spec, st), spec.strategy))
  <2>1. PlanStep(spec, st) = Select(spec, st, Pick(spec, st), FrontierIds(T))
    BY <1>5, PlanStepIs
  <2>2. Len(st.selected) < spec.budget.probes
    <3>1. Len(st.selected) \in Nat
      BY SelectedIn DEF PlanRight, Planning
    <3>2. spec.budget.probes \in Nat
      BY AcceptedSizes
    <3> QED
      BY <1>5, <3>1, <3>2
  <2> QED
    BY <1>5, <2>1, <2>2, SelectRight
<1> QED
  BY <1>1, <1>2, <1>3, <1>4, <1>5

-----------------------------------------------------------------------------
(* The plans the specification makes.                                       *)
PlansRight ==
  /\ case.kind = "spec" => case.spec \in PlanSpec
  /\ case.kind = "plan" => Accepted(case.spec) /\ PlanRight(case.spec, case.state)

LEMMA PlansStayRight == OrdersSpec => []PlansRight
<1>1. OrdersInit => PlansRight
  BY PlansAssumption DEF OrdersInit, PlansRight
<1>2. PlansRight /\ [OrdersNext]_case => PlansRight'
  <2> SUFFICES ASSUME PlansRight, [OrdersNext]_case
               PROVE  PlansRight'
    OBVIOUS
  <2>1. CASE CompareProbes
    BY <2>1 DEF CompareProbes, PlansRight
  <2>2. CASE CompareBoth
    BY <2>2 DEF CompareBoth, PlansRight
  <2>3. CASE StartPlan
    <3>1. /\ case.spec \in PlanSpec /\ ValidPlanSpec(case.spec)
          /\ case' = [kind |-> "plan", spec |-> case.spec, state |-> Begin(case.spec)]
      BY <2>3 DEF StartPlan, PlansRight
    <3>2. Accepted(case.spec)
      BY <3>1 DEF Accepted
    <3>3. PlanRight(case.spec, Begin(case.spec))
      BY <3>2, BeginRight
    <3>4. case'.kind = "plan" /\ case'.spec = case.spec /\ case'.state = Begin(case.spec)
      BY <3>1
    <3> QED
      BY <3>2, <3>3, <3>4 DEF PlansRight
  <2>4. CASE TakeProbe
    <3>1. /\ case.kind = "plan" /\ case.state.reason = "none"
          /\ case' = [case EXCEPT !.state = PlanStep(case.spec, case.state)]
      BY <2>4 DEF TakeProbe
    <3>2. Accepted(case.spec) /\ PlanRight(case.spec, case.state)
      BY <3>1 DEF PlansRight
    <3>3. PlanRight(case.spec, PlanStep(case.spec, case.state))
      BY <3>1, <3>2, StepRight
    <3>4. /\ case'.kind = "plan" /\ case'.spec = case.spec
          /\ case'.state = case.state \/ case'.state = PlanStep(case.spec, case.state)
      BY <3>1
    <3> QED
      BY <3>2, <3>3, <3>4 DEF PlansRight
  <2>5. CASE UNCHANGED case
    BY <2>5 DEF PlansRight
  <2> QED
    BY <2>1, <2>2, <2>3, <2>4, <2>5 DEF OrdersNext
<1> QED
  BY <1>1, <1>2, PTL DEF OrdersSpec

(* Whatever the claims, probes and budgets: every probe of a plan was       *)
(* allowed when it was picked, and no probe then allowed was worth more by  *)
(* the strategy; what the plan says it gained and spent is what its probes  *)
(* are worth together and cost; it stops for the reason it gives; and the   *)
(* two ways to value a single probe agree (plan, metrics_for_probe).        *)
THEOREM PlansAreSound == OrdersSpec => []PlansSound
<1>1. PlansRight => PlansSound
  BY AcceptedAgree DEF PlansRight, PlansSound, PlanRight
<1> QED
  BY <1>1, PlansStayRight, PTL
=============================================================================
