----------------------------- MODULE BlobBatch -----------------------------
(* Blobs read through one git process (read_committed_blobs,                *)
(* src/src/repo.rs): names are written to its input while its answers are   *)
(* read from its output.                                                    *)
(*                                                                          *)
(* The input pipe holds requests.  An answer is a header and as many blocks *)
(* as the object has; the output pipe holds blocks.                         *)
EXTENDS Integers, Sequences, SequencesExt

CONSTANTS
  RequestRoom,  \* requests the input pipe holds
  BlockRoom,    \* blocks the output pipe holds
  MaxFiles,     \* bound on the files asked for
  MaxBlocks     \* bound on the blocks of a file

ASSUME RoomAssumption ==
  /\ RequestRoom \in Nat \ {0} /\ BlockRoom \in Nat \ {0}
  /\ MaxFiles \in Nat /\ MaxBlocks \in Nat

VARIABLES
  sizes,    \* the size the tree gives of each file asked for
  requested,\* requests written
  asked,    \* requests git has read
  printing, \* what git has yet to print of its answers
  printed,  \* what it has printed and nobody has read
  received, \* what the reading side has
  git,      \* "running", "succeeded" or "failed"
  writer,   \* the writing thread: "writing", "done" or "broken"
  result    \* "none", "GitInvocation", "GitExit", "GitParse" or "ok", and the blobs

batchVars == <<sizes, requested, asked, printing, printed, received, git, writer, result>>

Header(i, kind, size) == [file |-> i, kind |-> kind, size |-> size]
Block(i) == [file |-> i]

Refused(status) == [status |-> status, blobs |-> <<>>]
Unread == Refused("none")

BatchInit ==
  /\ sizes \in UNION {[1..n -> 0..MaxBlocks] : n \in 0..MaxFiles}
  /\ requested = 0 /\ asked = 0
  /\ printing = <<>> /\ printed = <<>> /\ received = <<>>
  /\ git = "running" /\ writer = "writing" /\ result = Unread

-----------------------------------------------------------------------------
(* The writing thread.  Its end closes git's input.                         *)

WriteRequest ==
  /\ writer = "writing" /\ requested < Len(sizes)
  /\ IF git = "running"
     THEN requested - asked < RequestRoom /\ requested' = requested + 1 /\ UNCHANGED writer
     ELSE writer' = "broken" /\ UNCHANGED requested
  /\ UNCHANGED <<sizes, asked, printing, printed, received, git, result>>

CloseInput ==
  /\ writer = "writing" /\ requested = Len(sizes)
  /\ writer' = "done"
  /\ UNCHANGED <<sizes, requested, asked, printing, printed, received, git, result>>

-----------------------------------------------------------------------------
(* git, as the code uses it.  An object may be missing, or be replaced by   *)
(* one of another size than the tree's or by that of another file.          *)

Objects(j, ns) ==
  {<<Header(j, "blob", n)>> \o [k \in 1..n |-> Block(j)] : n \in ns}

Answers(i) ==
  LET ns == {sizes[i], (sizes[i] + 1) % (MaxBlocks + 1)}
  IN  Objects(i, ns) \cup Objects((i % Len(sizes)) + 1, ns)
        \cup {<<Header(i, "missing", 0)>>}

GitAnswers ==
  /\ git = "running" /\ printing = <<>> /\ asked < requested
  /\ asked' = asked + 1
  /\ printing' \in Answers(asked + 1)
  /\ UNCHANGED <<sizes, requested, printed, received, git, writer, result>>

GitPrints ==
  /\ git = "running" /\ printing # <<>> /\ Len(printed) < BlockRoom
  /\ printed' = Append(printed, Head(printing))
  /\ printing' = Tail(printing)
  /\ UNCHANGED <<sizes, requested, asked, received, git, writer, result>>

GitExits ==
  /\ git = "running" /\ printing = <<>> /\ asked = requested /\ writer = "done"
  /\ git' = "succeeded"
  /\ UNCHANGED <<sizes, requested, asked, printing, printed, received, writer, result>>

GitDies ==
  /\ git = "running"
  /\ git' = "failed" /\ printing' = <<>>
  /\ UNCHANGED <<sizes, requested, asked, printed, received, writer, result>>

-----------------------------------------------------------------------------
(* The reading side: wait_with_output, then the writer's end, then the      *)
(* answers.                                                                 *)

(* Reading only once everything has been written.                           *)
Receive_AfterWriting ==
  /\ result = Unread /\ printed # <<>> /\ writer # "writing"
  /\ received' = Append(received, Head(printed))
  /\ printed' = Tail(printed)
  /\ UNCHANGED <<sizes, requested, asked, printing, git, writer, result>>

Receive ==
  /\ result = Unread /\ printed # <<>>
  /\ received' = Append(received, Head(printed))
  /\ printed' = Tail(printed)
  /\ UNCHANGED <<sizes, requested, asked, printing, git, writer, result>>

(* Any size will do, as long as the answer has that many blocks.            *)
Acceptable_AnySize(header, i) == header.kind = "blob" /\ header.file = i

Acceptable(header, i) == header = Header(i, "blob", sizes[i])

(* One answer after another, in the order of the requests: each of the      *)
(* object asked for, of the size the tree gives, and whole.                 *)
Take(state, i) ==
  IF state.bad \/ state.rest = <<>> THEN [state EXCEPT !.bad = TRUE]
  ELSE LET header == Head(state.rest)
       IN  IF ~Acceptable(header, i) \/ Len(state.rest) < 1 + header.size
           THEN [state EXCEPT !.bad = TRUE]
           ELSE [bad |-> FALSE,
                 rest |-> SubSeq(state.rest, 2 + header.size, Len(state.rest)),
                 blobs |-> Append(state.blobs, SubSeq(state.rest, 2, 1 + header.size))]

Untaken(answers) == [bad |-> FALSE, rest |-> answers, blobs |-> <<>>]

(* And nothing after them.                                                  *)
ParseBlobs(answers) ==
  LET end == FoldLeft(Take, Untaken(answers), [i \in DOMAIN sizes |-> i])
  IN  IF end.bad \/ end.rest # <<>> THEN Refused("GitParse")
      ELSE [status |-> "ok", blobs |-> end.blobs]

(* What the writer met comes before what git said of itself, and that       *)
(* before its answers.                                                      *)
Finish ==
  /\ result = Unread /\ git # "running" /\ printed = <<>> /\ writer # "writing"
  /\ result' = IF writer = "broken" THEN Refused("GitInvocation")
               ELSE IF git = "failed" THEN Refused("GitExit") ELSE ParseBlobs(received)
  /\ UNCHANGED <<sizes, requested, asked, printing, printed, received, git, writer>>

Writing == WriteRequest \/ CloseInput
Git == GitAnswers \/ GitPrints \/ GitExits
Reading == Receive \/ Finish

BatchNext == Writing \/ Git \/ GitDies \/ Reading

BatchSpec == BatchInit /\ [][BatchNext]_batchVars

BatchFairness == WF_batchVars(Writing) /\ WF_batchVars(Git) /\ WF_batchVars(Reading)

-----------------------------------------------------------------------------
(* The blobs are the ones asked for: one for each file, in the order of the *)
(* files, with all of the bytes the tree says it has, whatever git answered *)
(* and whenever it died (read_committed_blobs).                             *)
BlobsAreTheFiles ==
  result.status = "ok" =>
    result.blobs = [i \in DOMAIN sizes |-> [k \in 1..sizes[i] |-> Block(i)]]

(* Neither pipe ever stops the other: the batch ends, however little the    *)
(* pipes hold ("large batches can deadlock when both pipes fill").          *)
BatchEnds == <>(result.status # "none")
=============================================================================
