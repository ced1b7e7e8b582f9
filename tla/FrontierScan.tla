---------------------------- MODULE FrontierScan ----------------------------
(***************************************************************************)
(* profile_path: a directory is scanned by analyzers in parallel, between  *)
(* two Git snapshots that decide whether the profile may be pinned to a    *)
(* commit, while whoever works in the directory goes on working.           *)
(*                                                                         *)
(* A tree gives every supported file its content, Absent if it is not      *)
(* there; a commit is its tree, and the index is not modelled.  A snapshot *)
(* is the set of the one tree it found, {} if it failed or, the input      *)
(* being a single file, was not taken.  The source corpus is read once,    *)
(* file after file, and shared by the analyzers; if a read fails, each     *)
(* analyzer reads for itself.                                              *)
(***************************************************************************)
EXTENDS Integers, Functions

CONSTANTS
  File,        \* the supported source files
  Content,     \* what a file may contain
  Absent,      \* the content of a file that is not there
  Found,       \* stands for the content of a file that is yet to be read
  Analyzer,    \* shape, symbols, discipline and duplicates
  MaxChanges   \* bound on the changes made during a scan

ASSUME FilesAndMarks ==
  /\ File # {} /\ Absent # Found /\ Found \notin Content
  /\ MaxChanges \in Nat

VARIABLES
  worktree,  \* the files of the directory
  head,      \* the tree of the current commit
  changes,   \* how often the directory changed since the scan began
  progress,  \* what profile_path is at
  part,      \* how far the snapshot being taken is
  probe,     \* the tree it found
  before, after,   \* the snapshots
  corpus,    \* file -> content, as far as walked and read
  from,      \* what the analyzers read, the "corpus" or the "files"
  status,    \* analyzer -> "idle", "running" or its AnalyzerStatus
  observed,  \* analyzer -> the files it saw
  pinnedTo   \* the tree the profile is pinned to, {} if it is not

scanVars ==
  <<worktree, head, changes, progress, part, probe, before, after, corpus,
    from, status, observed, pinnedTo>>

directory == <<worktree, head, changes>>
snapshots == <<part, probe, before, after, pinnedTo>>
analysis == <<corpus, from, status, observed>>

Trees == [File -> Content \cup {Absent}]

Nothing == [f \in {} |-> Absent]

(* A directory is first walked, the files that are not there being left    *)
(* out, and then the files found are read; a file removed in between       *)
(* cannot be.                                                              *)
NextViews(view) ==
  IF DOMAIN view # File
  THEN {[g \in DOMAIN view \cup {f} |->
           IF g # f THEN view[g] ELSE IF worktree[f] = Absent THEN Absent ELSE Found] :
          f \in File \ DOMAIN view}
  ELSE {[view EXCEPT ![f] = worktree[f]] :
          f \in {g \in File : view[g] = Found /\ worktree[g] # Absent}}

Whole(view) == DOMAIN view = File /\ Found \notin Range(view)

Ended == {"Complete", "Failed", "Panicked"}

ScanInit ==
  /\ worktree \in Trees /\ head \in Trees /\ changes = 0
  /\ progress = "before" /\ part = "status"
  /\ probe = {} /\ before = {} /\ after = {} /\ pinnedTo = {}
  /\ corpus = Nothing /\ from = "files"
  /\ status = [a \in Analyzer |-> "idle"]
  /\ observed = [a \in Analyzer |-> Nothing]

-----------------------------------------------------------------------------
(* strict_git_snapshot: one Git command after another                      *)

(* status --porcelain --untracked-files=no                                 *)
Clean == \A f \in File : head[f] # Absent => worktree[f] = head[f]

(* ls-files --others --exclude-standard                                    *)
Untracked == \E f \in File : head[f] = Absent /\ worktree[f] # Absent

(* The snapshot is taken, or has failed; the scan goes on either way.      *)
Snap(result) ==
  /\ part' = "status" /\ probe' = {}
  /\ \/ /\ progress = "before" /\ before' = result /\ progress' = "corpus"
        /\ UNCHANGED <<after, pinnedTo>>
     \/ /\ progress = "after" /\ after' = result /\ progress' = "done"
        /\ pinnedTo' = IF before = result THEN result ELSE {}
        /\ UNCHANGED before

GitStatus ==
  /\ progress \in {"before", "after"} /\ part = "status"
  /\ IF Clean
     THEN /\ part' = "revision"
          /\ UNCHANGED <<progress, probe, before, after, pinnedTo>>
     ELSE Snap({})
  /\ UNCHANGED <<directory, analysis>>

Revision ==
  /\ part = "revision"
  /\ probe' = {head} /\ part' = "untracked"
  /\ UNCHANGED <<directory, analysis, progress, before, after, pinnedTo>>

Others_Unasked ==
  /\ part = "untracked"
  /\ Snap(probe)
  /\ UNCHANGED <<directory, analysis>>

Others ==
  /\ part = "untracked"
  /\ Snap(IF Untracked THEN {} ELSE probe)
  /\ UNCHANGED <<directory, analysis>>

(* Any of the commands may fail.                                           *)
GitFails ==
  /\ progress \in {"before", "after"}
  /\ Snap({})
  /\ UNCHANGED <<directory, analysis>>

-----------------------------------------------------------------------------
(* SourceCorpusSession::activate                                           *)

ReadCorpus ==
  /\ progress = "corpus"
  /\ corpus' \in NextViews(corpus)
  /\ UNCHANGED <<directory, snapshots, progress, from, status, observed>>

(* The analyzers are spawned, with the corpus if it could be read; a part  *)
(* of one is dropped.                                                      *)
SpawnAnalyzers ==
  /\ progress = "corpus"
  /\ \/ Whole(corpus) /\ from' = "corpus" /\ UNCHANGED corpus
     \/ from' = "files" /\ corpus' = Nothing
  /\ progress' = "analyzers"
  /\ status' = [a \in Analyzer |-> "running"]
  /\ UNCHANGED <<directory, snapshots, observed>>

-----------------------------------------------------------------------------
(* The analyzers                                                           *)

(* load_source_tree finds the corpus of its input, or reads the files.     *)
Observe_Fresh(a) ==
  /\ status[a] = "running"
  /\ \E view \in NextViews(observed[a]) :
       observed' = [observed EXCEPT ![a] = view]
  /\ UNCHANGED <<directory, snapshots, progress, corpus, from, status>>

Observe(a) ==
  /\ status[a] = "running"
  /\ IF from = "corpus"
     THEN observed[a] # corpus /\ observed' = [observed EXCEPT ![a] = corpus]
     ELSE \E view \in NextViews(observed[a]) :
            observed' = [observed EXCEPT ![a] = view]
  /\ UNCHANGED <<directory, snapshots, progress, corpus, from, status>>

(* An analyzer ends when it has seen every file, or fails, or panics and   *)
(* leaves nothing.                                                         *)
End(a) ==
  /\ status[a] = "running"
  /\ \/ /\ Whole(observed[a])
        /\ status' = [status EXCEPT ![a] = "Complete"]
        /\ UNCHANGED observed
     \/ /\ \/ status' = [status EXCEPT ![a] = "Failed"]
           \/ status' = [status EXCEPT ![a] = "Panicked"]
        /\ observed' = [observed EXCEPT ![a] = Nothing]
  /\ UNCHANGED <<directory, snapshots, progress, corpus, from>>

Join_Unwraps ==
  /\ progress = "analyzers"
  /\ \A a \in Analyzer : status[a] \in {"Complete", "Failed"}
  /\ progress' = "after"
  /\ UNCHANGED <<directory, snapshots, analysis>>

(* The scope ends when every thread has, whichever way.                    *)
Join ==
  /\ progress = "analyzers"
  /\ \A a \in Analyzer : status[a] \in Ended
  /\ progress' = "after"
  /\ UNCHANGED <<directory, snapshots, analysis>>

-----------------------------------------------------------------------------
(* Whoever works in the directory                                          *)

Change ==
  /\ progress # "done" /\ changes < MaxChanges
  /\ changes' = changes + 1
  /\ \/ /\ \E f \in File, c \in Content \cup {Absent} :   \* an edit
             worktree' = [worktree EXCEPT ![f] = c]
        /\ UNCHANGED head
     \/ \E t \in Trees :   \* a commit, or a checkout
          head' = t /\ worktree' \in {worktree, t}
  /\ UNCHANGED <<snapshots, analysis, progress>>

Scan == \/ GitStatus \/ Revision \/ Others \/ GitFails \/ ReadCorpus
        \/ SpawnAnalyzers \/ Join
        \/ \E a \in Analyzer : Observe(a) \/ End(a)

ScanNext == Scan \/ Change

ScanSpec == ScanInit /\ [][ScanNext]_scanVars

(* The scan is a program that runs on; nobody need touch the directory.    *)
ScanFairSpec == ScanSpec /\ WF_scanVars(Scan)

-----------------------------------------------------------------------------
(* Properties                                                              *)

(* The snapshots are of trees, and none is taken after the analyzers while *)
(* one of them still runs.                                                 *)
ScanTypeOK ==
  /\ progress \in {"before", "corpus", "analyzers", "after", "done"}
  /\ before \subseteq Trees /\ after \subseteq Trees /\ pinnedTo \subseteq Trees
  /\ progress \in {"after", "done"} => \A a \in Analyzer : status[a] \in Ended

(* All that a profile says was computed from one reading of the files, the *)
(* corpus, however the directory changes while the analyzers work.         *)
OneReading ==
  \A a \in Analyzer :
    from = "corpus" /\ status[a] = "Complete" => observed[a] = corpus

Misread == \E t \in pinnedTo, a \in Analyzer :
             status[a] = "Complete" /\ observed[a] # t

(* A profile pinned to a commit is of that commit if at most one thing was *)
(* done in the directory meanwhile: no single edit, commit or checkout, of *)
(* a tracked or a new file, at any moment escapes the snapshots.           *)
OneChangeIsSeen == Misread => changes >= 2

(* The two snapshots surround everything the analyzers read, and no one    *)
(* change in between escapes them (scan_frontier, artifact_identity).      *)
SnapshotsSurround == ScanTypeOK /\ OneChangeIsSeen

(* The scan ends, though snapshots, reads and analyzers fail.              *)
ScanTerminates == <>(progress = "done")

(* A pinned profile is of the commit it is pinned to.                      *)
PinnedIsScanned == ~Misread
=============================================================================
