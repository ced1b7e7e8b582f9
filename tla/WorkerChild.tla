---------------------------- MODULE WorkerChild ----------------------------
(***************************************************************************)
(* run_child: the service runs the analysis of one repository in a child   *)
(* process, collects its standard output through a pipe in a task of its   *)
(* own, and waits for the child's end under a deadline.  Output is counted *)
(* in blocks; the pipe holds PipeSize of them.                             *)
(***************************************************************************)
EXTENDS Naturals

CONSTANTS
  OutputLimit,  \* OUTPUT_LIMIT
  PipeSize,     \* capacity of the pipe, an operating system matter
  MaxOutput     \* bound on what a child may print

ASSUME LimitTyped == OutputLimit \in Nat
ASSUME PipeTyped == PipeSize \in Nat \ {0} /\ MaxOutput \in Nat

VARIABLES
  child,     \* "analyzing", "writing", "failed", "succeeded" or "killed"
  size,      \* how much the child will print
  valid,     \* whether all of it together is a CompactResult
  written,   \* how much it has written
  pipe,      \* how much is in the pipe
  out,       \* how much the collecting task has read
  reader,    \* "reading", "eof" (the task has ended) or "none"
  parent,    \* "waiting", "killing", "collecting" or "done"
  verdict    \* what run_child returned, "none" before it does

vars == <<child, size, valid, written, pipe, out, reader, parent, verdict>>

Alive == {"analyzing", "writing"}

Verdicts == {"none", "ok", "Timeout", "Failed", "InvalidOutput"}

Init ==
  /\ child = "analyzing"
  /\ size \in 0 .. MaxOutput
  /\ valid \in BOOLEAN
  /\ written = 0 /\ pipe = 0 /\ out = 0
  /\ reader = "reading"
  /\ parent = "waiting"
  /\ verdict = "none"

childVars == <<child, size, valid>>
pipeVars == <<written, pipe, out>>

-----------------------------------------------------------------------------
(* The child: sevald worker                                                *)

Analyze ==
  /\ child = "analyzing"
  /\ child' = "writing"
  /\ UNCHANGED <<size, valid, pipeVars, reader, parent, verdict>>

(* A write blocks while the pipe is full and fails once nobody can read.   *)
Write ==
  /\ child = "writing" /\ written < size
  /\ \/ /\ reader = "reading" /\ pipe < PipeSize
        /\ written' = written + 1 /\ pipe' = pipe + 1
        /\ UNCHANGED child
     \/ /\ reader # "reading"
        /\ child' = "failed"
        /\ UNCHANGED <<written, pipe>>
  /\ UNCHANGED <<size, valid, out, reader, parent, verdict>>

Exit ==
  /\ child = "writing" /\ written = size
  /\ child' = "succeeded"
  /\ UNCHANGED <<size, valid, pipeVars, reader, parent, verdict>>

(* The child may also be ended from outside, by lack of memory for one.    *)
Abort ==
  /\ child \in Alive
  /\ child' = "failed"
  /\ UNCHANGED <<size, valid, pipeVars, reader, parent, verdict>>

-----------------------------------------------------------------------------
(* The collecting task: read_to_end on at most OutputLimit + 1             *)

(* At its limit it ends and drops its end of the pipe.                     *)
Read_KeepsPipeOpen ==
  /\ reader = "reading" /\ pipe > 0 /\ out < OutputLimit + 1
  /\ pipe' = pipe - 1
  /\ out' = out + 1
  /\ UNCHANGED <<childVars, written, reader, parent, verdict>>

Read ==
  /\ reader = "reading" /\ pipe > 0
  /\ pipe' = pipe - 1
  /\ out' = out + 1
  /\ reader' = IF out' = OutputLimit + 1 THEN "eof" ELSE "reading"
  /\ UNCHANGED <<childVars, written, parent, verdict>>

EndOfOutput ==
  /\ reader = "reading" /\ pipe = 0 /\ child \notin Alive
  /\ reader' = "eof"
  /\ UNCHANGED <<childVars, pipeVars, parent, verdict>>

-----------------------------------------------------------------------------
(* run_child itself                                                        *)

Return(v) == parent' = "done" /\ verdict' = v

(* child.wait() ended in time.                                             *)
Waited ==
  /\ parent = "waiting" /\ child \notin Alive
  /\ IF child = "succeeded"
     THEN parent' = "collecting" /\ UNCHANGED verdict
     ELSE Return("Failed")
  /\ UNCHANGED <<childVars, pipeVars, reader>>

(* The status cannot be had: the child is killed as its handle is dropped. *)
WaitError ==
  /\ parent = "waiting"
  /\ child' = IF child \in Alive THEN "killed" ELSE child
  /\ Return("Failed")
  /\ UNCHANGED <<size, valid, pipeVars, reader>>

Deadline ==
  /\ parent = "waiting" /\ child \in Alive
  /\ parent' = "killing"
  /\ UNCHANGED <<childVars, pipeVars, reader, verdict>>

(* kill() and wait(): the child may have ended by itself meanwhile.        *)
Kill ==
  /\ parent = "killing"
  /\ child' = IF child \in Alive THEN "killed" ELSE child
  /\ Return("Timeout")
  /\ UNCHANGED <<size, valid, pipeVars, reader>>

Parses == valid /\ out = size

Collected_Strict ==
  /\ parent = "collecting" /\ reader = "eof"
  /\ IF out < OutputLimit /\ Parses THEN Return("ok")
                                    ELSE Return("InvalidOutput")
  /\ UNCHANGED <<childVars, pipeVars, reader>>

Collected ==
  /\ parent = "collecting" /\ reader = "eof"
  /\ IF out <= OutputLimit /\ Parses THEN Return("ok")
                                     ELSE Return("InvalidOutput")
  /\ UNCHANGED <<childVars, pipeVars, reader>>

(* All has ended.                                                          *)
Quiet ==
  /\ parent = "done" /\ child \notin Alive /\ reader = "eof"
  /\ UNCHANGED vars

Child == Analyze \/ Write \/ Exit
Collector == Read \/ EndOfOutput
Parent == Waited \/ Kill \/ Collected

Next == Child \/ Abort \/ Collector \/ Parent \/ WaitError \/ Deadline \/ Quiet

(* The analysis of a finite tree ends; the processes are all scheduled.    *)
(* Nothing is assumed of the deadline: nothing may depend on it.           *)
Spec ==
  /\ Init /\ [][Next]_vars
  /\ WF_vars(Child) /\ WF_vars(Collector) /\ WF_vars(Parent)

-----------------------------------------------------------------------------
(* Properties                                                              *)

TypeOK ==
  /\ child \in Alive \cup {"failed", "succeeded", "killed"}
  /\ size \in 0 .. MaxOutput
  /\ valid \in BOOLEAN
  /\ written \in 0 .. size
  /\ pipe \in 0 .. PipeSize
  /\ out \in 0 .. OutputLimit + 1
  /\ reader \in {"reading", "eof"}
  /\ parent \in {"waiting", "killing", "collecting", "done"}
  /\ verdict \in Verdicts

(* A result is only accepted when the child ended well and the result is   *)
(* all of what it printed, within the limit: never a prefix that parses,   *)
(* never what a killed or failed child left in the pipe.                   *)
AcceptedIsWhole ==
  verdict = "ok" =>
    child = "succeeded" /\ out = size /\ size <= OutputLimit /\ valid

(* Output that is well formed and within the limit is never refused as     *)
(* invalid, up to the very last block.                                     *)
RefusedForCause ==
  verdict = "InvalidOutput" => ~valid \/ size > OutputLimit

(* When run_child has returned, no child is left running: it would read a  *)
(* directory that is about to be removed (the test on timed-out workers).  *)
NoChildLeft == parent = "done" => child \notin Alive

(* All that run_child returns is what the child did: see the three parts.  *)
ChildVerdictSound == AcceptedIsWhole /\ RefusedForCause /\ NoChildLeft

(* run_child returns, and the collecting task ends, even if the deadline   *)
(* never comes: a child that prints more than the collector takes is       *)
(* turned away instead of blocking for ever.                               *)
EndsWithoutDeadline == <>(parent = "done" /\ reader = "eof")
=============================================================================
