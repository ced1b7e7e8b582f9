----------------------------- MODULE MCPanelScan -----------------------------
(* The two that work on what others change meanwhile: the panel on a page   *)
(* that moves on, the scan of a directory somebody works in.  They share    *)
(* nothing, so one goes on while the other has not begun.                   *)
EXTENDS RepositoryPanel, FrontierScan

VARIABLE subject  \* the one that goes on

Following(A) == subject = "panel" /\ A /\ UNCHANGED <<scanVars, subject>>
Scanning(A) == subject = "scan" /\ A /\ UNCHANGED <<vars, subject>>

PanelScanInit ==
  /\ subject \in {"panel", "scan"}
  /\ Init
  /\ subject # "panel" => page = None
  /\ ScanInit
  /\ subject # "scan" =>
       head = [f \in File |-> Absent] /\ worktree = head

PanelScanNext == Following(Next) \/ Scanning(ScanNext)

(* The fairness of each: see RepositoryPanel!Fairness and                   *)
(* FrontierScan!ScanFairSpec.                                               *)
PanelScanSpec ==
  /\ PanelScanInit /\ [][PanelScanNext]_<<vars, scanVars, subject>>
  /\ \A g \in Generation :
       WF_vars(Following(Client(g))) /\ WF_vars(Following(Deliver(g)))
  /\ WF_scanVars(Scanning(Scan))

(* profile_path returns, though snapshots, reads and analyzers fail         *)
(* (scan_frontier).                                                         *)
ScanEnds == subject = "scan" => ScanTerminates
=============================================================================
