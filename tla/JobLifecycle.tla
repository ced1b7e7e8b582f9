---------------------------- MODULE JobLifecycle ----------------------------
(***************************************************************************)
(* What the analysis service promises about a job, whatever the machinery  *)
(* behind it does: the states a poll of /v1/analyses/{analysis_id} can     *)
(* report, in the only order it can report them, with a result exactly     *)
(* when an analysis completed and an error exactly when it failed.  At     *)
(* most Workers jobs are under way, and at most QueueCapacity wait besides *)
(* those a worker has just picked up.                                      *)
(***************************************************************************)
EXTENDS Naturals, FiniteSets

CONSTANTS
  Jobs, Workers, QueueCapacity, Errors, None,
  Results,
  Partial  \* the results in which an instrument failed

VARIABLES state, result, error

vars == <<state, result, error>>

Running == {"resolving", "downloading", "extracting", "analyzing"}

Terminal == {"completed", "completed_partial", "failed"}

States == {"absent", "queued"} \cup Running \cup Terminal

In(S) == {j \in Jobs : state[j] \in S}

Init ==
  /\ state = [j \in Jobs |-> "absent"]
  /\ result = [j \in Jobs |-> None]
  /\ error = [j \in Jobs |-> None]

Admit(j) ==
  /\ state[j] = "absent"
  /\ Cardinality(In({"queued"})) < QueueCapacity + Workers
  /\ state' = [state EXCEPT ![j] = "queued"]
  /\ UNCHANGED <<result, error>>

Begin(j) ==
  /\ state[j] = "queued"
  /\ Cardinality(In(Running)) < Workers
  /\ state' = [state EXCEPT ![j] = "resolving"]
  /\ UNCHANGED <<result, error>>

NextPhase == [resolving |-> "downloading",
              downloading |-> "extracting",
              extracting |-> "analyzing"]

Advance(j) ==
  /\ state[j] \in DOMAIN NextPhase
  /\ state' = [state EXCEPT ![j] = NextPhase[state[j]]]
  /\ UNCHANGED <<result, error>>

(* An analysis ends where the worker answers, or at once when the commit   *)
(* it resolved to was analyzed before.                                     *)
Complete(j) ==
  /\ state[j] \in {"resolving", "analyzing"}
  /\ \E res \in Results :
        /\ result' = [result EXCEPT ![j] = res]
        /\ state' = [state EXCEPT ![j] =
                       IF res \in Partial THEN "completed_partial"
                                         ELSE "completed"]
  /\ UNCHANGED error

Fail(j) ==
  /\ state[j] \in Running
  /\ state' = [state EXCEPT ![j] = "failed"]
  /\ \E e \in Errors : error' = [error EXCEPT ![j] = e]
  /\ UNCHANGED result

(* Jobs live in the memory of one server process.                          *)
LoseAll == Init'

Next ==
  \/ \E j \in Jobs : \/ Admit(j)
                     \/ Begin(j)
                     \/ Advance(j)
                     \/ Complete(j)
                     \/ Fail(j)
  \/ LoseAll

Spec == Init /\ [][Next]_vars
=============================================================================
