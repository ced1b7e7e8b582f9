--------------------------- MODULE ProcessesProofs ---------------------------
(***************************************************************************)
(* Proofs about the three programs the code runs, of any size and for any  *)
(* limits.                                                                 *)
(*                                                                         *)
(* The worker: no block is lost or invented between child and task, and    *)
(* output is judged after a complete end only.                             *)
(*                                                                         *)
(* The blobs: what git has printed and prints is a stream in which every   *)
(* header is followed by its blocks; printing and reading move it along,   *)
(* and the reader takes from it one answer after another.                  *)
(*                                                                         *)
(* The benchmark: a run is over when nobody has its output open; sorting   *)
(* moves every value to a place of its own, so that a sum over the sorted  *)
(* values is one over the values.                                          *)
(***************************************************************************)
EXTENDS MCProcesses, FiniteSetTheorems, SequenceTheorems, TLAPS

-----------------------------------------------------------------------------
(* The worker child                                                        *)

(* Blocks are neither lost nor invented between the child and the task.    *)
Conserved == written = pipe + out

(* The task ends at its limit or when the pipe is drained for good.        *)
EofMeans ==
  /\ reader = "reading" => out <= OutputLimit
  /\ reader = "eof" => \/ out = OutputLimit + 1
                       \/ pipe = 0 /\ child \notin Alive

(* Output is only judged after a successful and complete end.              *)
JudgedMeans ==
  /\ child = "succeeded" => written = size
  /\ parent = "collecting" => child = "succeeded"
  /\ verdict \in {"ok", "InvalidOutput"}
       => reader = "eof" /\ child = "succeeded"
  /\ parent # "done" => verdict = "none"

IInv == /\ TypeOK /\ Conserved /\ EofMeans /\ JudgedMeans
        /\ AcceptedIsWhole /\ RefusedForCause /\ NoChildLeft

LEMMA InvInit == Init => IInv
  BY LimitTyped, PipeTyped
  DEF Init, IInv, TypeOK, Conserved, EofMeans, JudgedMeans, AcceptedIsWhole,
      RefusedForCause, NoChildLeft, Alive, Verdicts

LEMMA InvStep == IInv /\ [Next]_vars => IInv'
  <1> SUFFICES ASSUME IInv, [Next]_vars
               PROVE  IInv'
    OBVIOUS
  <1> USE LimitTyped, PipeTyped
      DEF IInv, TypeOK, Conserved, EofMeans, JudgedMeans, AcceptedIsWhole,
          RefusedForCause, NoChildLeft, Alive, Verdicts, childVars, pipeVars
  <1>1. CASE Analyze
    BY <1>1 DEF Analyze
  <1>2. CASE Write
    BY <1>2 DEF Write
  <1>3. CASE Exit
    BY <1>3 DEF Exit
  <1>4. CASE Abort
    BY <1>4 DEF Abort
  <1>5. CASE Read
    BY <1>5 DEF Read
  <1>6. CASE EndOfOutput
    BY <1>6 DEF EndOfOutput
  <1>7. CASE Waited
    BY <1>7 DEF Waited, Return
  <1>8. CASE WaitError
    BY <1>8 DEF WaitError, Return
  <1>9. CASE Deadline
    BY <1>9 DEF Deadline
  <1>10. CASE Kill
    BY <1>10 DEF Kill, Return
  <1>11. CASE Collected
    BY <1>11 DEF Collected, Return, Parses
  <1>12. CASE UNCHANGED vars
    BY <1>12 DEF vars
  <1> QED
    BY <1>1, <1>2, <1>3, <1>4, <1>5, <1>6, <1>7, <1>8, <1>9, <1>10, <1>11,
       <1>12
    DEF Next, Child, Collector, Parent, Quiet

(* Type correctness.                                                       *)
THEOREM TypeCorrect == Spec => []TypeOK
  <1>1. IInv => TypeOK
    BY DEF IInv
  <1> QED
    BY InvInit, InvStep, <1>1, PTL DEF Spec

(* A result is accepted exactly for a successful child's whole, well       *)
(* formed output within the limit, and no child outlives run_child.        *)
THEOREM VerdictSound == Spec => []ChildVerdictSound
  <1>1. IInv => ChildVerdictSound
    BY DEF IInv, ChildVerdictSound
  <1> QED
    BY InvInit, InvStep, <1>1, PTL DEF Spec

-----------------------------------------------------------------------------
(* Blobs through one git                                                   *)

Parse == INSTANCE Folding WITH
  Op <- LAMBDA i, state : Take(state, i), Base <- Untaken(received),
  Value <- LAMBDA i : [j \in DOMAIN sizes |-> j][i], Choice <- LAMBDA S : Max(S)

Piece == [file : Nat, kind : {"blob", "missing"}, size : Nat] \cup [file : Nat]

(* What git has printed, and is printing.                                   *)
Stream == (received \o printed) \o printing

(* Every answer that gives an object is followed by all of its blocks.      *)
Whole(stream) ==
  \A p \in DOMAIN stream, i, n \in Nat :
    stream[p] = Header(i, "blob", n) =>
      p + n \in DOMAIN stream /\ \A k \in 1..n : stream[p + k] = Block(i)

BlobInv ==
  /\ Len(sizes) \in Nat /\ sizes \in [1..Len(sizes) -> 0..MaxBlocks]
  /\ {requested, asked} \subseteq Nat
  /\ asked <= requested /\ requested <= Len(sizes)
  /\ received \in Seq(Piece) /\ printed \in Seq(Piece) /\ printing \in Seq(Piece)
  /\ git \in {"running", "succeeded", "failed"}
  /\ git # "failed" => Whole(Stream)
  /\ git = "succeeded" => printing = <<>>
  /\ BlobsAreTheFiles

LEMMA Parts ==
  ASSUME NEW i, NEW kind, NEW n, NEW j, NEW m
  PROVE  /\ Header(i, kind, n) # Block(j)
         /\ Header(i, kind, n) = Header(j, "blob", m) => i = j /\ n = m /\ kind = "blob"
  BY DEF Header, Block

(* One more answer.                                                         *)
LEMMA WholeGrows ==
  ASSUME NEW s \in Seq(Piece), Whole(s), NEW i \in Nat, NEW n \in Nat,
         NEW a \in Seq(Piece), a # <<>>,
         \/ Len(a) = 1 /\ a[1] = Header(i, "missing", 0)
         \/ /\ Len(a) = n + 1 /\ a[1] = Header(i, "blob", n)
            /\ \A k \in 1 .. n : a[1 + k] = Block(i)
  PROVE  Whole(s \o a)
<1> DEFINE t == s \o a
           L == Len(s)
<1>1. /\ L \in Nat /\ Len(a) \in Nat /\ DOMAIN s = 1 .. L
      /\ DOMAIN t = 1 .. L + Len(a)
      /\ \A q \in 1 .. L : t[q] = s[q]
      /\ \A k \in 1 .. Len(a) : t[L + k] = a[k]
  <2>1. /\ t \in Seq(Piece) /\ Len(t) = L + Len(a)
        /\ \A q \in 1 .. L + Len(a) : t[q] = IF q <= L THEN s[q] ELSE a[q - L]
    BY ConcatProperties
  <2>2. L \in Nat /\ Len(a) \in Nat /\ DOMAIN s = 1 .. L /\ DOMAIN t = 1 .. Len(t)
    BY <2>1
  <2> HIDE DEF t, L
  <2>3. \A q \in 1 .. L : t[q] = s[q]
    BY <2>1, <2>2
  <2>4. ASSUME NEW k \in 1 .. Len(a) PROVE t[L + k] = a[k]
    <3>1. L + k \in 1 .. L + Len(a) /\ ~(L + k <= L) /\ (L + k) - L = k
      BY <2>2
    <3>2. t[L + k] = a[(L + k) - L]
      BY <2>1, <3>1
    <3> QED BY <3>1, <3>2
  <2> QED BY <2>1, <2>2, <2>3, <2>4
<1> HIDE DEF t, L
<1> SUFFICES ASSUME NEW p \in DOMAIN t, NEW j \in Nat, NEW m \in Nat,
                    t[p] = Header(j, "blob", m)
             PROVE  p + m \in DOMAIN t /\ \A k \in 1 .. m : t[p + k] = Block(j)
  BY DEF Whole, t
<1>2. CASE p \in 1 .. L
  <2>1. p + m \in 1 .. L /\ \A k \in 1 .. m : s[p + k] = Block(j)
    BY <1>1, <1>2 DEF Whole
  <2>2. \A k \in 1 .. m : p + k \in 1 .. L
    BY <1>1, <1>2, <2>1
  <2> QED BY <1>1, <2>1, <2>2
<1>3. CASE p \notin 1 .. L
  <2>1. PICK k \in 1 .. Len(a) : p = L + k
    <3>1. p - L \in 1 .. Len(a) /\ p = L + (p - L)
      BY <1>1, <1>3
    <3> QED BY <3>1
  <2>2. a[k] = Header(j, "blob", m)
    BY <1>1, <2>1
  <2>3. /\ Len(a) = n + 1 /\ a[1] = Header(i, "blob", n)
        /\ \A x \in 1 .. n : a[1 + x] = Block(i)
    <3>1. CASE Len(a) = 1 /\ a[1] = Header(i, "missing", 0)
      BY <2>1, <2>2, <3>1, Parts
    <3> QED BY <3>1
  <2>4. k = 1
    <3>1. ASSUME k # 1 PROVE FALSE
      <4>1. k - 1 \in 1 .. n /\ 1 + (k - 1) = k
        BY <2>1, <2>3, <3>1
      <4> QED BY <2>2, <2>3, <4>1, Parts
    <3> QED BY <3>1
  <2>5. i = j /\ n = m
    BY <2>2, <2>3, <2>4, Parts
  <2>6. ASSUME NEW x \in 1 .. m
        PROVE  t[p + x] = Block(j)
    <3>1. 1 + x \in 1 .. Len(a) /\ p + x = L + (1 + x)
      BY <1>1, <2>1, <2>3, <2>4, <2>5
    <3> QED BY <1>1, <2>3, <2>5, <3>1
  <2>7. p + m \in DOMAIN t
    BY <1>1, <2>1, <2>3, <2>4, <2>5
  <2> QED BY <2>6, <2>7
<1> QED BY <1>2, <1>3

(* Printing and reading move the stream along.                              *)
LEMMA StreamMoves ==
  ASSUME NEW T, NEW a \in Seq(T), NEW b \in Seq(T), b # <<>>
  PROVE  /\ Append(a, Head(b)) \in Seq(T) /\ Tail(b) \in Seq(T)
         /\ Append(a, Head(b)) \o Tail(b) = a \o b
<1>1. Head(b) \in T /\ Tail(b) \in Seq(T) /\ Len(b) \in Nat \ {0}
  BY HeadTailProperties, EmptySeq
<1>2. Append(a, Head(b)) = a \o <<Head(b)>> /\ Append(a, Head(b)) \in Seq(T)
  BY <1>1, AppendIsConcat, AppendProperties
<1>3. b = <<Head(b)>> \o Tail(b)
  OBVIOUS
<1>4. <<Head(b)>> \in Seq(T)
  BY <1>1
<1> QED BY <1>1, <1>2, <1>3, <1>4, ConcatAssociative

LEMMA InitBlobs == BatchInit => BlobInv
<1> SUFFICES ASSUME BatchInit PROVE BlobInv
  OBVIOUS
<1>1. PICK n \in 0..MaxFiles : sizes \in [1..n -> 0..MaxBlocks]
  BY DEF BatchInit
<1>2. n \in Nat
  BY RoomAssumption
<1>3. Len(sizes) = n
  BY <1>1, <1>2
<1>4. Stream = <<>>
  BY DEF BatchInit, Stream
<1>5. Whole(<<>>)
  BY DEF Whole
<1> QED BY <1>1, <1>2, <1>3, <1>4, <1>5 DEF BatchInit, BlobInv, BlobsAreTheFiles, Unread, Refused


Blob(i) == [k \in 1 .. sizes[i] |-> Block(i)]

(* What stays of the answers after those to i requests have been taken.     *)
Taken(state, i) ==
  /\ state \in [bad : BOOLEAN, rest : Seq(Piece), blobs : Seq(Seq(Piece))]
  /\ ~state.bad =>
       /\ \E q \in 1 .. Len(received) + 1 :
            /\ Len(state.rest) = (Len(received) + 1) - q
            /\ \A k \in 1 .. Len(state.rest) :
                 state.rest[k] = received[(q - 1) + k]
       /\ Len(state.blobs) = i
       /\ \A j \in 1 .. i : state.blobs[j] = Blob(j)

LEMMA MaxOfSegment ==
  ASSUME NEW n \in Nat \ {0}
  PROVE  Max(1 .. n) = n
<1>1. \A m \in 1 .. n : n >= m
  OBVIOUS
<1>2. \A x \in 1 .. n : (\A y \in 1 .. n : x >= y) => x = n
  OBVIOUS
<1> QED BY <1>1, <1>2 DEF Max

LEMMA FoldOfSegment ==
  ASSUME NEW n \in Nat, n + 1 \in DOMAIN sizes
  PROVE  Parse!Folded(1 .. n + 1) = Take(Parse!Folded(1 .. n), n + 1)
<1>1. Parse!Chooses(1 .. n + 1)
  <2> SUFFICES ASSUME NEW S \in SUBSET (1 .. n + 1), S # {}
               PROVE  Max(S) \in S
    BY DEF Parse!Chooses
  <2>1. PICK x \in S : \A y \in S : y <= x
    <3>1. n + 1 \in Nat
      OBVIOUS
    <3> QED BY <3>1, Parse!LargestExists
  <2>2. \A y \in S : x >= y
    BY <2>1
  <2> QED BY <2>2 DEF Max
<1>2. Parse!Counted(1 .. n + 1)
  <2>1. IsFiniteSet(1 .. n + 1)
    BY FS_Interval
  <2> QED
    BY <2>1, FS_NatSurjection DEF Parse!Counted, ExistsSurjection, Surjection
<1>3. /\ 1 .. n + 1 # {} /\ Max(1 .. n + 1) = n + 1
      /\ (1 .. n + 1) \ {n + 1} = 1 .. n
  BY MaxOfSegment
<1> QED BY <1>1, <1>2, <1>3, Parse!FoldedStep

(* What is cut from the front of a sequence, and what stays.                *)
LEMMA Cut ==
  ASSUME NEW T, NEW r \in Seq(T), NEW n \in Nat, Len(r) >= 1 + n
  PROVE  /\ SubSeq(r, 2 + n, Len(r)) \in Seq(T)
         /\ Len(SubSeq(r, 2 + n, Len(r))) = (Len(r) - n) - 1
         /\ \A k \in 1 .. (Len(r) - n) - 1 :
              SubSeq(r, 2 + n, Len(r))[k] = r[(1 + n) + k]
         /\ SubSeq(r, 2, 1 + n) \in Seq(T)
         /\ Len(SubSeq(r, 2, 1 + n)) = n
         /\ \A k \in 1 .. n : SubSeq(r, 2, 1 + n)[k] = r[1 + k]
<1>1. Len(r) \in Nat /\ \A k \in 1 .. Len(r) : r[k] \in T
  OBVIOUS
<1>2. \A k \in 2 + n .. Len(r) : r[k] \in T
  BY <1>1
<1>3. \A k \in 2 .. 1 + n : r[k] \in T
  BY <1>1
<1>4. /\ SubSeq(r, 2 + n, Len(r)) \in Seq(T)
      /\ Len(SubSeq(r, 2 + n, Len(r))) = IF 2 + n <= Len(r) THEN Len(r) - (2 + n) + 1 ELSE 0
      /\ \A k \in 1 .. Len(r) - (2 + n) + 1 :
           SubSeq(r, 2 + n, Len(r))[k] = r[2 + n + k - 1]
  BY <1>1, <1>2, SubSeqProperties
<1>5. /\ SubSeq(r, 2, 1 + n) \in Seq(T)
      /\ Len(SubSeq(r, 2, 1 + n)) = IF 2 <= 1 + n THEN (1 + n) - 2 + 1 ELSE 0
      /\ \A k \in 1 .. (1 + n) - 2 + 1 : SubSeq(r, 2, 1 + n)[k] = r[2 + k - 1]
  BY <1>3, SubSeqProperties
<1>6. Len(SubSeq(r, 2 + n, Len(r))) = (Len(r) - n) - 1 /\ Len(SubSeq(r, 2, 1 + n)) = n
  BY <1>1, <1>4, <1>5
<1>7. ASSUME NEW k \in 1 .. (Len(r) - n) - 1
      PROVE  SubSeq(r, 2 + n, Len(r))[k] = r[(1 + n) + k]
  <2>1. k \in 1 .. Len(r) - (2 + n) + 1 /\ 2 + n + k - 1 = (1 + n) + k
    BY <1>1
  <2> QED BY <1>4, <2>1
<1>8. ASSUME NEW k \in 1 .. n
      PROVE  SubSeq(r, 2, 1 + n)[k] = r[1 + k]
  <2>1. k \in 1 .. (1 + n) - 2 + 1 /\ 2 + k - 1 = 1 + k
    OBVIOUS
  <2> QED BY <1>5, <2>1
<1> QED BY <1>4, <1>5, <1>6, <1>7, <1>8

LEMMA TakeKeeps ==
  ASSUME Whole(received), received \in Seq(Piece), NEW i \in Nat,
         sizes[i + 1] \in Nat, NEW state, Taken(state, i)
  PROVE  Taken(Take(state, i + 1), i + 1)
<1> DEFINE next == Take(state, i + 1)
           r == state.rest
           n == sizes[i + 1]
<1>1. /\ state \in [bad : BOOLEAN, rest : Seq(Piece), blobs : Seq(Seq(Piece))]
      /\ n \in Nat /\ r \in Seq(Piece) /\ Len(r) \in Nat /\ Len(received) \in Nat
  BY DEF Taken
<1>2. CASE \/ state.bad \/ r = <<>>
           \/ ~Acceptable(Head(r), i + 1) \/ Len(r) < 1 + Head(r).size
  <2>1. next = [state EXCEPT !.bad = TRUE]
    BY <1>2 DEF Take
  <2>2. next.bad /\ next \in [bad : BOOLEAN, rest : Seq(Piece), blobs : Seq(Seq(Piece))]
    BY <1>1, <2>1
  <2> HIDE DEF next
  <2>3. Taken(next, i + 1)
    BY <2>2 DEF Taken
  <2> QED BY <2>3 DEF next
<1>3. CASE ~(\/ state.bad \/ r = <<>>
             \/ ~Acceptable(Head(r), i + 1) \/ Len(r) < 1 + Head(r).size)
  <2>1. /\ ~state.bad /\ r # <<>> /\ Head(r) = Header(i + 1, "blob", n)
        /\ Head(r).size = n /\ Len(r) >= 1 + n
        /\ next = [bad |-> FALSE,
                   rest |-> SubSeq(r, 2 + n, Len(r)),
                   blobs |-> Append(state.blobs, SubSeq(r, 2, 1 + n))]
    <3>1. ~state.bad /\ r # <<>> /\ Head(r) = Header(i + 1, "blob", n)
      BY <1>3 DEF Acceptable
    <3>2. Head(r).size = n
      BY <3>1 DEF Header
    <3>3. Len(r) >= 1 + n
      BY <1>1, <1>3, <3>2
    <3>4. next = [bad |-> FALSE,
                  rest |-> SubSeq(r, 2 + Head(r).size, Len(r)),
                  blobs |-> Append(state.blobs, SubSeq(r, 2, 1 + Head(r).size))]
      BY <1>3 DEF Take
    <3> QED BY <3>1, <3>2, <3>3, <3>4
  <2>2. PICK q \in 1 .. Len(received) + 1 :
          /\ Len(r) = (Len(received) + 1) - q
          /\ \A k \in 1 .. Len(r) : r[k] = received[(q - 1) + k]
    BY <2>1 DEF Taken
  <2> HIDE DEF r, n
  <2> DEFINE rest == SubSeq(r, 2 + n, Len(r))
             blob == SubSeq(r, 2, 1 + n)
  <2>3. /\ rest \in Seq(Piece) /\ Len(rest) = (Len(r) - n) - 1
        /\ \A k \in 1 .. (Len(r) - n) - 1 : rest[k] = r[(1 + n) + k]
        /\ blob \in Seq(Piece) /\ Len(blob) = n
        /\ \A k \in 1 .. n : blob[k] = r[1 + k]
    <3>1. r \in Seq(Piece) /\ n \in Nat /\ Len(r) >= 1 + n
      BY <1>1, <2>1
    <3> HIDE DEF Piece
    <3> QED BY <3>1, Cut
  <2> HIDE DEF rest, blob
  <2>4. \A k \in 1 .. n : blob[k] = Block(i + 1)
    <3>1. received[q] = Header(i + 1, "blob", n) /\ q \in DOMAIN received
      <4>1. 1 \in 1 .. Len(r) /\ (q - 1) + 1 = q /\ q \in 1 .. Len(received)
        BY <1>1, <2>1, <2>2
      <4>2. Head(r) = r[1] /\ DOMAIN received = 1 .. Len(received)
        BY <1>1, <2>1
      <4>3. r[1] = received[(q - 1) + 1]
        BY <2>2, <4>1
      <4> QED BY <2>1, <4>1, <4>2, <4>3
    <3>2. \A k \in 1 .. n : received[q + k] = Block(i + 1)
      BY <1>1, <3>1, i + 1 \in Nat DEF Whole
    <3>3. \A k \in 1 .. n : r[1 + k] = received[q + k]
      BY <1>1, <2>1, <2>2
    <3> QED BY <2>3, <3>2, <3>3
  <2>5. blob = Blob(i + 1)
    <3>1. blob \in [1 .. n -> Piece]
      BY <2>3, LenProperties
    <3> QED BY <2>4, <3>1 DEF Blob, n
  <2>6. /\ q + (1 + n) \in 1 .. Len(received) + 1
        /\ Len(rest) = (Len(received) + 1) - (q + (1 + n))
        /\ \A k \in 1 .. Len(rest) : rest[k] = received[((q + (1 + n)) - 1) + k]
    <3>1. /\ q + (1 + n) \in 1 .. Len(received) + 1
          /\ Len(rest) = (Len(received) + 1) - (q + (1 + n))
      BY <1>1, <2>1, <2>2, <2>3
    <3>2. ASSUME NEW k \in 1 .. Len(rest)
          PROVE  rest[k] = received[((q + (1 + n)) - 1) + k]
      <4>1. (1 + n) + k \in 1 .. Len(r)
        BY <1>1, <2>1, <2>3
      <4>2. (q - 1) + ((1 + n) + k) = ((q + (1 + n)) - 1) + k
        BY <1>1
      <4>3. r[(1 + n) + k] = received[(q - 1) + ((1 + n) + k)]
        BY <2>2, <4>1
      <4> QED BY <2>3, <4>2, <4>3
    <3> QED BY <3>1, <3>2
  <2>7. /\ next.blobs = Append(state.blobs, blob) /\ next.rest = rest /\ next.bad = FALSE
        /\ next \in [bad : BOOLEAN, rest : Seq(Piece), blobs : Seq(Seq(Piece))]
    <3>1. next = [bad |-> FALSE, rest |-> rest, blobs |-> Append(state.blobs, blob)]
      BY <2>1 DEF rest, blob
    <3> HIDE DEF next
    <3>2. Append(state.blobs, blob) \in Seq(Seq(Piece))
      BY <1>1, <2>3, AppendProperties
    <3> QED BY <2>3, <3>1, <3>2
  <2>8. /\ Len(next.blobs) = i + 1
        /\ \A j \in 1 .. i + 1 : next.blobs[j] = Blob(j)
    <3>1. /\ state.blobs \in Seq(Seq(Piece)) /\ Len(state.blobs) = i
          /\ \A j \in 1 .. i : state.blobs[j] = Blob(j)
      BY <1>1, <2>1 DEF Taken
    <3>2. /\ Len(next.blobs) = i + 1
          /\ \A j \in 1 .. i : next.blobs[j] = state.blobs[j]
          /\ next.blobs[i + 1] = blob
      <4>1. Append(state.blobs, blob) = next.blobs
        BY <2>7
      <4> HIDE DEF next
      <4> DEFINE list == state.blobs
      <4>2. list \in Seq(Seq(Piece)) /\ blob \in Seq(Piece) /\ Len(list) = i
        BY <2>3, <3>1
      <4> HIDE DEF list
      <4>3. /\ Len(Append(list, blob)) = i + 1
            /\ \A j \in 1 .. i : Append(list, blob)[j] = list[j]
            /\ Append(list, blob)[i + 1] = blob
        BY <4>2, AppendProperties
      <4> QED BY <4>1, <4>3 DEF list
    <3> HIDE DEF next
    <3>3. ASSUME NEW j \in 1 .. i + 1 PROVE next.blobs[j] = Blob(j)
      <4>1. j \in 1 .. i \/ j = i + 1
        OBVIOUS
      <4> QED BY <2>5, <3>1, <3>2, <4>1
    <3> QED BY <3>2, <3>3
  <2> HIDE DEF next
  <2>9. Taken(next, i + 1)
    BY <2>6, <2>7, <2>8 DEF Taken
  <2> QED BY <2>9 DEF next
<1> QED BY <1>2, <1>3

(* Answers are only accepted when each is what was asked for.               *)
LEMMA ParsedAreTheFiles ==
  ASSUME Whole(received), received \in Seq(Piece), Len(sizes) \in Nat,
         sizes \in [1 .. Len(sizes) -> Nat],
         ParseBlobs(received).status = "ok"
  PROVE  ParseBlobs(received).blobs = [i \in DOMAIN sizes |-> Blob(i)]
<1> DEFINE N == Len(sizes)
           P == {i \in Nat : i <= N => Taken(Parse!Folded(1 .. i), i)}
           end == Parse!Folded(1 .. N)
<1>1. DOMAIN sizes = 1 .. N
  OBVIOUS
<1>2. 0 \in P
  <2>1. Parse!Folded(1 .. 0) = [bad |-> FALSE, rest |-> received, blobs |-> <<>>]
    BY 1 .. 0 = {}, Parse!FoldedEmpty DEF Untaken
  <2>2. /\ Len(received) \in Nat /\ 1 \in 1 .. Len(received) + 1
        /\ Len(received) = (Len(received) + 1) - 1
        /\ \A k \in 1 .. Len(received) : received[k] = received[(1 - 1) + k]
    OBVIOUS
  <2>3. <<>> \in Seq(Seq(Piece))
    OBVIOUS
  <2>4. Taken([bad |-> FALSE, rest |-> received, blobs |-> <<>>], 0)
    BY <2>2, <2>3 DEF Taken
  <2> QED BY <2>1, <2>4
<1>3. ASSUME NEW i \in Nat, i \in P
      PROVE  i + 1 \in P
  <2> SUFFICES ASSUME i + 1 <= N PROVE Taken(Parse!Folded(1 .. i + 1), i + 1)
    OBVIOUS
  <2>1. Taken(Parse!Folded(1 .. i), i) /\ sizes[i + 1] \in Nat
    BY <1>1, <1>3
  <2>2. Taken(Take(Parse!Folded(1 .. i), i + 1), i + 1)
    BY <2>1, TakeKeeps
  <2>3. i + 1 \in DOMAIN sizes
    BY <1>1
  <2> QED BY <2>2, <2>3, FoldOfSegment
<1> HIDE DEF P
<1>4. N \in P
  BY <1>2, <1>3, Parse!NaturalInduction
<1>5. Taken(end, N)
  BY <1>4 DEF P
<1>6. FoldLeft(Take, Untaken(received), [i \in DOMAIN sizes |-> i]) = end
  BY <1>1 DEF FoldLeft, MapThenFoldSet, Parse!Folded, Parse!Iteration, Parse!Unfold
<1>7. ~end.bad /\ ParseBlobs(received).blobs = end.blobs
  BY <1>6 DEF ParseBlobs, Refused
<1> HIDE DEF end
<1>8. /\ end.blobs \in Seq(Seq(Piece)) /\ Len(end.blobs) = N
      /\ \A j \in 1 .. N : end.blobs[j] = Blob(j)
  BY <1>5, <1>7 DEF Taken
<1>9. end.blobs = [i \in 1 .. N |-> Blob(i)]
  BY <1>8, LenProperties
<1> QED BY <1>1, <1>7, <1>9

LEMMA NextBlobs == BlobInv /\ [BatchNext]_batchVars => BlobInv'
<1> SUFFICES ASSUME BlobInv, [BatchNext]_batchVars
             PROVE  BlobInv'
  OBVIOUS
<1>0. /\ Len(sizes) \in Nat /\ sizes \in [1..Len(sizes) -> 0..MaxBlocks]
      /\ requested \in Nat /\ asked \in Nat
      /\ asked <= requested /\ requested <= Len(sizes)
      /\ received \in Seq(Piece) /\ printed \in Seq(Piece) /\ printing \in Seq(Piece)
  BY DEF BlobInv
<1>1. CASE WriteRequest \/ CloseInput \/ UNCHANGED batchVars
  <2>1. /\ requested' = requested \/ (requested < Len(sizes) /\ requested' = requested + 1)
        /\ UNCHANGED <<sizes, asked, printing, printed, received, git, result>>
    BY <1>1 DEF WriteRequest, CloseInput, batchVars
  <2> QED BY <1>0, <2>1 DEF BlobInv, Stream, BlobsAreTheFiles
<1>2. CASE GitAnswers
  <2>1. /\ git = "running" /\ printing = <<>> /\ asked < requested
        /\ asked' = asked + 1 /\ printing' \in Answers(asked + 1)
        /\ UNCHANGED <<sizes, requested, printed, received, git, result>>
    BY <1>2 DEF GitAnswers
  <2> DEFINE i == asked + 1
             a == printing'
  <2>2. sizes[i] \in Nat /\ MaxBlocks + 1 \in Nat \ {0} /\ i \in Nat
    BY <1>0, <2>1, RoomAssumption
  <2> HIDE DEF a, i
  <2>3. PICK j \in Nat, n \in Nat :
          \/ a = <<Header(j, "blob", n)>> \o [k \in 1 .. n |-> Block(j)]
          \/ a = <<Header(j, "missing", 0)>>
    <3>1. (sizes[i] + 1) % (MaxBlocks + 1) \in Nat /\ (i % Len(sizes)) + 1 \in Nat
      BY <1>0, <2>1, <2>2
    <3> DEFINE next == (i % Len(sizes)) + 1
               ns == {sizes[i], (sizes[i] + 1) % (MaxBlocks + 1)}
    <3>2. a \in Objects(i, ns) \/ a \in Objects(next, ns)
            \/ a = <<Header(i, "missing", 0)>>
      BY <2>1 DEF Answers, a, i
    <3>3. ns \subseteq Nat /\ i \in Nat /\ next \in Nat
      BY <2>2, <3>1
    <3> HIDE DEF ns, next
    <3>4. ASSUME NEW j \in Nat, a \in Objects(j, ns)
          PROVE  \E n \in Nat :
                   a = <<Header(j, "blob", n)>> \o [k \in 1 .. n |-> Block(j)]
      BY <3>3, <3>4 DEF Objects
    <3>5. CASE a = <<Header(i, "missing", 0)>>
      <4>1. 0 \in Nat
        OBVIOUS
      <4> QED BY <3>3, <3>5, <4>1
    <3> QED BY <3>2, <3>3, <3>4, <3>5
  <2>4. /\ a \in Seq(Piece) /\ a # <<>>
        /\ \/ Len(a) = 1 /\ a[1] = Header(j, "missing", 0)
           \/ /\ Len(a) = n + 1 /\ a[1] = Header(j, "blob", n)
              /\ \A k \in 1 .. n : a[1 + k] = Block(j)
    <3>1. Header(j, "blob", n) \in Piece /\ Header(j, "missing", 0) \in Piece /\ Block(j) \in Piece
      BY <2>2 DEF Header, Block, Piece
    <3> HIDE DEF Piece
    <3>2. CASE a = <<Header(j, "missing", 0)>>
      BY <3>1, <3>2
    <3>3. CASE a = <<Header(j, "blob", n)>> \o [k \in 1 .. n |-> Block(j)]
      <4> DEFINE h == <<Header(j, "blob", n)>>
                 bs == [k \in 1 .. n |-> Block(j)]
      <4>1. /\ h \in Seq(Piece) /\ Len(h) = 1 /\ h[1] = Header(j, "blob", n)
            /\ bs \in Seq(Piece) /\ Len(bs) = n /\ \A k \in 1 .. n : bs[k] = Block(j)
        BY <3>1
      <4>2. a = h \o bs
        BY <3>3
      <4> HIDE DEF h, bs
      <4>3. /\ a \in Seq(Piece) /\ Len(a) = 1 + n
            /\ \A k \in 1 .. 1 + n : a[k] = IF k <= 1 THEN h[k] ELSE bs[k - 1]
        <5>1. /\ h \o bs \in Seq(Piece) /\ Len(h \o bs) = Len(h) + Len(bs)
              /\ \A k \in 1 .. Len(h) + Len(bs) :
                   (h \o bs)[k] = IF k <= Len(h) THEN h[k] ELSE bs[k - Len(h)]
          BY <4>1, ConcatProperties
        <5> QED BY <4>1, <4>2, <5>1
      <4>4. ASSUME NEW k \in 1 .. n PROVE a[1 + k] = Block(j)
        <5>1. 1 + k \in 1 .. 1 + n /\ ~(1 + k <= 1) /\ (1 + k) - 1 = k
          OBVIOUS
        <5>2. a[1 + k] = bs[(1 + k) - 1]
          BY <4>3, <5>1
        <5> QED BY <4>1, <5>1, <5>2
      <4>5. a # <<>>
        BY <4>3
      <4> QED BY <4>1, <4>3, <4>4, <4>5
    <3> QED BY <2>3, <3>2, <3>3
  <2>5. received \o printed \in Seq(Piece) /\ Stream = received \o printed
    BY <1>0, <2>1, ConcatProperties, ConcatEmptySeq DEF Stream
  <2>6. Whole(received \o printed)
    BY <2>1, <2>5 DEF BlobInv
  <2>7. Whole((received \o printed) \o a)
    BY <2>2, <2>4, <2>5, <2>6, WholeGrows
  <2>8. Whole(Stream)'
    BY <2>1, <2>7 DEF Stream, a
  <2>9. /\ asked' \in Nat /\ asked' <= requested' /\ printing' \in Seq(Piece)
    BY <1>0, <2>1, <2>4 DEF a
  <2> QED BY <1>0, <2>1, <2>8, <2>9 DEF BlobInv, BlobsAreTheFiles
<1>3. CASE GitPrints
  <2>1. /\ printing # <<>> /\ git = "running"
        /\ printed' = Append(printed, Head(printing)) /\ printing' = Tail(printing)
        /\ UNCHANGED <<sizes, requested, asked, received, git, result>>
    BY <1>3 DEF GitPrints
  <2>2. /\ printed' \in Seq(Piece) /\ printing' \in Seq(Piece)
        /\ printed' \o printing' = printed \o printing
    BY SMTT(30), <1>0, <2>1, StreamMoves
  <2>3. Stream' = Stream
    <3>1. Stream = received \o (printed \o printing)
      BY <1>0, ConcatAssociative DEF Stream
    <3>2. Stream' = received \o (printed' \o printing')
      <4>1. Stream' = (received \o printed') \o printing'
        BY <2>1 DEF Stream
      <4>2. \A p, q \in Seq(Piece) :
              (received \o p) \o q = received \o (p \o q)
        BY SMTT(30), <1>0, ConcatAssociative
      <4> QED BY <2>2, <4>1, <4>2
    <3> QED BY <2>2, <3>1, <3>2
  <2> QED BY <1>0, <2>1, <2>2, <2>3 DEF BlobInv, BlobsAreTheFiles
<1>4. CASE GitExits \/ GitDies
  <2>1. /\ \/ git' = "succeeded" /\ printing = <<>> /\ printing' = printing /\ git = "running"
           \/ git' = "failed" /\ printing' = <<>>
        /\ UNCHANGED <<sizes, requested, asked, printed, received, result>>
    BY <1>4 DEF GitExits, GitDies
  <2>2. <<>> \in Seq(Piece)
    OBVIOUS
  <2>3. git' # "failed" => Whole(Stream)'
    BY <2>1 DEF BlobInv, Stream
  <2> QED BY <1>0, <2>1, <2>2, <2>3 DEF BlobInv, BlobsAreTheFiles
<1>5. CASE Receive
  <2>1. /\ printed # <<>>
        /\ received' = Append(received, Head(printed)) /\ printed' = Tail(printed)
        /\ UNCHANGED <<sizes, requested, asked, printing, git, result>>
    BY <1>5 DEF Receive
  <2>2. /\ received' \in Seq(Piece) /\ printed' \in Seq(Piece)
        /\ received' \o printed' = received \o printed
    BY <1>0, <2>1, StreamMoves
  <2>3. Stream' = Stream
    BY <2>1, <2>2 DEF Stream
  <2> QED BY <1>0, <2>1, <2>2, <2>3 DEF BlobInv, BlobsAreTheFiles
<1>6. CASE Finish
  <2>1. /\ printed = <<>> /\ git # "running"
        /\ result' = IF writer = "broken" THEN Refused("GitInvocation")
                     ELSE IF git = "failed" THEN Refused("GitExit") ELSE ParseBlobs(received)
        /\ UNCHANGED <<sizes, requested, asked, printing, printed, received, git>>
    BY <1>6 DEF Finish
  <2>2. BlobsAreTheFiles'
    <3> SUFFICES ASSUME result'.status = "ok"
                 PROVE  result'.blobs = [i \in DOMAIN sizes |-> Blob(i)]
      BY <2>1 DEF BlobsAreTheFiles, Blob
    <3>1. git # "failed" /\ result' = ParseBlobs(received)
      BY <2>1 DEF Refused
    <3>2. printing = <<>> /\ Whole(Stream)
      BY <2>1, <3>1 DEF BlobInv
    <3>3. Stream = received
      BY <1>0, <2>1, <3>2, ConcatEmptySeq DEF Stream
    <3>4. sizes \in [1 .. Len(sizes) -> Nat]
      BY <1>0, RoomAssumption
    <3> QED BY <1>0, <3>1, <3>2, <3>3, <3>4, ParsedAreTheFiles
  <2> QED BY <1>0, <2>1, <2>2 DEF BlobInv, Stream
<1> QED BY <1>1, <1>2, <1>3, <1>4, <1>5, <1>6 DEF BatchNext, Writing, Git, Reading

THEOREM BlobsAreWhole == BatchSpec => []BlobsAreTheFiles
<1>1. BlobInv => BlobsAreTheFiles
  BY DEF BlobInv
<1> QED BY InitBlobs, NextBlobs, <1>1, PTL DEF BatchSpec

-----------------------------------------------------------------------------
(* The benchmark                                                           *)

(* The sums that the mean is made of, and the one it stands for.            *)
Ascending == Sorted(Latencies)

Added == INSTANCE Folding WITH
  Op <- LAMBDA v, t : v + t, Base <- 0, Value <- LAMBDA i : Latencies[i],
  Choice <- LAMBDA S : CHOOSE i \in S : TRUE

Quotients == INSTANCE Folding WITH
  Op <- LAMBDA v, t : v + t, Base <- 0,
  Value <- LAMBDA i : [k \in DOMAIN Ascending |-> Ascending[k] \div Len(Ascending)][i],
  Choice <- LAMBDA S : CHOOSE i \in S : TRUE

Remainders == INSTANCE Folding WITH
  Op <- LAMBDA v, t : v + t, Base <- 0,
  Value <- LAMBDA i : [k \in DOMAIN Ascending |-> Ascending[k] % Len(Ascending)][i],
  Choice <- LAMBDA S : CHOOSE i \in S : TRUE

Before(values, i) ==
  {j \in DOMAIN values : \/ values[j] < values[i]
                         \/ values[j] = values[i] /\ j <= i}

(* Every place is taken, by one value.                                      *)
LEMMA PlacesAreTaken ==
  ASSUME NEW values \in Seq(Nat)
  PROVE  /\ \A i \in DOMAIN values : Place(values, i) \in DOMAIN values
         /\ \A i, j \in DOMAIN values :
              Place(values, i) = Place(values, j) => i = j
         /\ \A k \in DOMAIN values : \E i \in DOMAIN values : Place(values, i) = k
<1> DEFINE n == Len(values)
           f == [i \in 1 .. n |-> Place(values, i)]
<1>1. /\ n \in Nat /\ DOMAIN values = 1 .. n /\ \A i \in 1 .. n : values[i] \in Nat
      /\ IsFiniteSet(1 .. n) /\ Cardinality(1 .. n) = n
  <2>1. n \in Nat /\ DOMAIN values = 1 .. n /\ \A i \in 1 .. n : values[i] \in Nat
    OBVIOUS
  <2> HIDE DEF n
  <2>2. IsFiniteSet(1 .. n) /\ Cardinality(1 .. n) = n
    BY <2>1, FS_Interval
  <2> QED BY <2>1, <2>2
<1> HIDE DEF n
<1>2. ASSUME NEW i \in 1 .. n
      PROVE  /\ Before(values, i) \subseteq 1 .. n /\ i \in Before(values, i)
             /\ IsFiniteSet(Before(values, i))
             /\ Place(values, i) = Cardinality(Before(values, i))
  <2>1. Before(values, i) \subseteq 1 .. n /\ i \in Before(values, i)
    BY <1>1 DEF Before
  <2>2. Place(values, i) = Cardinality(Before(values, i))
    BY DEF Place, Before
  <2> QED BY <1>1, <2>1, <2>2, FS_Subset
<1>3. ASSUME NEW i \in 1 .. n
      PROVE  Place(values, i) \in 1 .. n
  <2>1. /\ Cardinality(Before(values, i)) \in Nat
        /\ Cardinality(Before(values, i)) <= n
        /\ Cardinality(Before(values, i)) # 0
    BY <1>1, <1>2, FS_Subset, FS_CardinalityType, FS_EmptySet
  <2> QED BY <1>1, <1>2, <2>1
<1>4. ASSUME NEW i \in 1 .. n, NEW j \in 1 .. n,
             Place(values, i) = Place(values, j)
      PROVE  i = j
  <2>1. ASSUME NEW x \in 1 .. n, NEW y \in 1 .. n,
               \/ values[x] < values[y]
               \/ values[x] = values[y] /\ x < y
        PROVE  Place(values, x) # Place(values, y)
    <3>1. Before(values, x) \subseteq Before(values, y)
      BY <1>1, <2>1 DEF Before
    <3>2. y \in Before(values, y) /\ y \notin Before(values, x)
      BY <1>1, <2>1 DEF Before
    <3> QED BY <1>2, <3>1, <3>2, FS_Subset
  <2>2. \/ i = j
        \/ values[i] < values[j] \/ (values[i] = values[j] /\ i < j)
        \/ values[j] < values[i] \/ (values[j] = values[i] /\ j < i)
    BY <1>1
  <2> QED BY <1>4, <2>1, <2>2
<1>5. \A k \in 1 .. n : \E i \in 1 .. n : Place(values, i) = k
  <2>1. f \in Injection(1 .. n, 1 .. n)
    BY <1>3, <1>4 DEF Injection, IsInjective
  <2>2. f \in Surjection(1 .. n, 1 .. n)
    BY <1>1, <2>1, FS_Injection
  <2> QED BY <2>2 DEF Surjection
<1> QED BY <1>1, <1>3, <1>4, <1>5

(* Sorting moves every value to its place, and no value is lost.            *)
LEMMA SortedMoves ==
  ASSUME NEW values \in Seq(Nat)
  PROVE  /\ Sorted(values) \in Seq(Nat) /\ Len(Sorted(values)) = Len(values)
         /\ \A i \in DOMAIN values : Sorted(values)[Place(values, i)] = values[i]
<1>1. Len(values) \in Nat /\ DOMAIN values = 1 .. Len(values)
  OBVIOUS
<1>2. ASSUME NEW k \in DOMAIN values
      PROVE  Sorted(values)[k] \in Nat
  <2>1. (CHOOSE i \in DOMAIN values : Place(values, i) = k) \in DOMAIN values
    BY PlacesAreTaken
  <2> QED BY <1>1, <2>1 DEF Sorted
<1>3. ASSUME NEW i \in DOMAIN values
      PROVE  Sorted(values)[Place(values, i)] = values[i]
  <2>1. (CHOOSE j \in DOMAIN values : Place(values, j) = Place(values, i)) = i
    BY PlacesAreTaken
  <2>2. Place(values, i) \in DOMAIN values
    BY PlacesAreTaken
  <2> QED BY <2>1, <2>2 DEF Sorted
<1>4. Sorted(values) \in [1 .. Len(values) -> Nat]
  BY <1>1, <1>2 DEF Sorted
<1> QED BY <1>1, <1>3, <1>4

(* The nearest rank: at least the percentile is at or below it.             *)
LEMMA RankRight ==
  ASSUME NEW values \in Seq(Nat), NEW percentile \in 1 .. 100,
         NEW v \in NearestRankOf(Sorted(values), percentile)
  PROVE  100 * Cardinality({i \in DOMAIN values : values[i] <= v})
           >= percentile * Len(values)
<1> DEFINE n == Len(values)
           k == (percentile * n + 99) \div 100
           Low == {i \in DOMAIN values : values[i] <= v}
<1>1. /\ n \in Nat /\ DOMAIN values = 1 .. n
      /\ Sorted(values) \in Seq(Nat) /\ Len(Sorted(values)) = n
  BY SortedMoves
<1>2. Sorted(values) # <<>> /\ v = Sorted(values)[k]
  BY <1>1 DEF NearestRankOf
<1>3. n # 0
  BY <1>1, <1>2
<1>4. k \in 1 .. n /\ 100 * k >= percentile * n
  <2> HIDE DEF n
  <2>1. percentile * n \in Nat /\ percentile * n <= 100 * n /\ percentile * n >= 1
    BY <1>1, <1>3
  <2> DEFINE q == percentile * n
  <2> HIDE DEF q
  <2>2. q \in Nat /\ q <= 100 * n /\ q >= 1
    BY <2>1 DEF q
  <2>3. (q + 99) \div 100 \in 1 .. n /\ 100 * ((q + 99) \div 100) >= q
    BY <1>1, <2>2
  <2> QED BY <2>3 DEF q
<1> HIDE DEF k, n
<1>5. PICK i \in DOMAIN values : Place(values, i) = k
  BY <1>1, <1>4, PlacesAreTaken
<1>6. v = values[i]
  BY <1>2, <1>5, SortedMoves
<1>7. Before(values, i) \subseteq Low /\ Low \subseteq 1 .. n
  <2>1. \A j \in DOMAIN values : values[j] \in Nat
    OBVIOUS
  <2> QED BY <1>1, <1>6, <2>1 DEF Before
<1>8. IsFiniteSet(1 .. n)
  BY <1>1, FS_Interval
<1>9. /\ Cardinality(Before(values, i)) = k
      /\ Cardinality(Low) \in Nat /\ Cardinality(Before(values, i)) <= Cardinality(Low)
  <2>1. Cardinality(Before(values, i)) = k
    BY <1>5 DEF Place, Before
  <2> QED BY <1>7, <1>8, <2>1, FS_Subset, FS_CardinalityType
<1> HIDE DEF Low
<1>10. 100 * Cardinality(Low) >= percentile * n
  BY <1>1, <1>4, <1>9
<1> QED BY <1>10 DEF Low, n

(* A sum over a sequence is one of these, whatever is added last.           *)
LEMMA SumsAre ==
  ASSUME Latencies \in Seq(Nat), Latencies # <<>>, NEW S \in SUBSET DOMAIN Latencies
  PROVE  /\ Added!Folded(S) \in Nat /\ Quotients!Folded(S) \in Nat
         /\ Remainders!Folded(S) \in Nat
         /\ \A i \in S :
              /\ Added!Folded(S) = Latencies[i] + Added!Folded(S \ {i})
              /\ Quotients!Folded(S)
                   = (Ascending[i] \div Len(Latencies)) + Quotients!Folded(S \ {i})
              /\ Remainders!Folded(S)
                   = (Ascending[i] % Len(Latencies)) + Remainders!Folded(S \ {i})
<1>1. /\ Len(Latencies) \in Nat \ {0} /\ DOMAIN Latencies = 1 .. Len(Latencies)
      /\ Ascending \in Seq(Nat) /\ Len(Ascending) = Len(Latencies)
      /\ DOMAIN Ascending = DOMAIN Latencies
  BY SortedMoves, EmptySeq DEF Ascending
<1>2. \A i \in S : /\ Latencies[i] \in Nat
                   /\ [k \in DOMAIN Ascending |-> Ascending[k] \div Len(Ascending)][i]
                        = Ascending[i] \div Len(Latencies)
                   /\ Ascending[i] \div Len(Latencies) \in Nat
                   /\ [k \in DOMAIN Ascending |-> Ascending[k] % Len(Ascending)][i]
                        = Ascending[i] % Len(Latencies)
                   /\ Ascending[i] % Len(Latencies) \in Nat
  <2>1. \A i \in S : Ascending[i] \in Nat /\ Latencies[i] \in Nat
    BY <1>1
  <2> DEFINE n == Len(Latencies)
  <2>2. n \in Nat \ {0} /\ Len(Ascending) = n
    BY <1>1
  <2> HIDE DEF n
  <2>3. \A v \in Nat : v \div n \in Nat /\ v % n \in Nat
    BY <2>2
  <2>4. \A i \in S : Ascending[i] \div n \in Nat /\ Ascending[i] % n \in Nat
    BY <2>1, <2>3
  <2>5. S \subseteq DOMAIN Ascending
    BY <1>1
  <2> QED BY <2>1, <2>2, <2>4, <2>5 DEF n
<1>3. IsFiniteSet(S)
  <2>1. IsFiniteSet(DOMAIN Latencies)
    BY <1>1, FS_Interval
  <2> QED BY <2>1, FS_Subset
<1>4. Added!Counted(S) /\ Quotients!Counted(S) /\ Remainders!Counted(S)
  BY <1>3, FS_NatSurjection
  DEF Added!Counted, Quotients!Counted, Remainders!Counted, ExistsSurjection, Surjection
<1>5. Added!Chooses(S) /\ Quotients!Chooses(S) /\ Remainders!Chooses(S)
  BY DEF Added!Chooses, Quotients!Chooses, Remainders!Chooses
<1>6. Added!Folded(S) \in Nat
      /\ \A i \in S : Added!Folded(S) = Latencies[i] + Added!Folded(S \ {i})
  BY <1>2, <1>4, <1>5, Added!FoldedSum
<1>7. Quotients!Folded(S) \in Nat
      /\ \A i \in S : Quotients!Folded(S)
           = (Ascending[i] \div Len(Latencies)) + Quotients!Folded(S \ {i})
  BY <1>2, <1>4, <1>5, Quotients!FoldedSum
<1>8. Remainders!Folded(S) \in Nat
      /\ \A i \in S : Remainders!Folded(S)
           = (Ascending[i] % Len(Latencies)) + Remainders!Folded(S \ {i})
  BY <1>2, <1>4, <1>5, Remainders!FoldedSum
<1> QED BY <1>6, <1>7, <1>8

(* The values of a set add up to what their quotients and remainders do at  *)
(* the places they are sorted to.                                           *)
LEMMA SumSplits ==
  ASSUME Latencies \in Seq(Nat), Latencies # <<>>
  PROVE  Added!Folded(DOMAIN Latencies)
           = Len(Latencies) * Quotients!Folded(DOMAIN Latencies)
               + Remainders!Folded(DOMAIN Latencies)
<1> DEFINE n == Len(Latencies)
           Places(S) == {Place(Latencies, i) : i \in S}
           Splits(S) == Added!Folded(S) = n * Quotients!Folded(Places(S))
                                            + Remainders!Folded(Places(S))
           P == {c \in Nat : \A S \in SUBSET DOMAIN Latencies :
                   Cardinality(S) = c => Splits(S)}
<1>1. /\ n \in Nat \ {0} /\ DOMAIN Latencies = 1 .. n
      /\ \A S \in SUBSET DOMAIN Latencies : IsFiniteSet(S) /\ Cardinality(S) \in Nat
  <2>1. n \in Nat \ {0} /\ DOMAIN Latencies = 1 .. n
    BY EmptySeq
  <2>2. IsFiniteSet(DOMAIN Latencies)
    BY <2>1, FS_Interval
  <2> QED BY <2>1, <2>2, FS_Subset, FS_CardinalityType
<1>2. 0 \in P
  <2>1. \A S \in SUBSET DOMAIN Latencies : Cardinality(S) = 0 => S = {} /\ Places(S) = {}
    BY <1>1, FS_EmptySet
  <2>2. /\ Added!Folded({}) = 0 /\ Quotients!Folded({}) = 0 /\ Remainders!Folded({}) = 0
    BY Added!FoldedEmpty, Quotients!FoldedEmpty, Remainders!FoldedEmpty
  <2>3. n * 0 + 0 = 0
    BY <1>1
  <2> QED BY <2>1, <2>2, <2>3
<1>3. ASSUME NEW c \in Nat, c \in P
      PROVE  c + 1 \in P
  <2> SUFFICES ASSUME NEW S \in SUBSET DOMAIN Latencies, Cardinality(S) = c + 1
               PROVE  Splits(S)
    <3> HIDE DEF Splits
    <3> QED OBVIOUS
  <2>1. PICK i \in S : Cardinality(S \ {i}) = c
    <3>1. S # {}
      BY <1>1, FS_EmptySet
    <3> QED BY <1>1, <3>1, FS_RemoveElement
  <2> DEFINE p == Place(Latencies, i)
             T == Places(S)
             U == Places(S \ {i})
             v == Latencies[i]
  <2>2. Splits(S \ {i})
    <3> HIDE DEF Splits
    <3> QED BY <1>3, <2>1
  <2>3. U = T \ {p} /\ p \in T /\ T \in SUBSET DOMAIN Latencies /\ U \in SUBSET DOMAIN Latencies
    <3>1. \A x \in DOMAIN Latencies : Place(Latencies, x) \in DOMAIN Latencies
      BY PlacesAreTaken
    <3>2. \A x \in S : Place(Latencies, x) = p => x = i
      BY PlacesAreTaken
    <3> HIDE DEF p
    <3>3. p = Place(Latencies, i)
      BY DEF p
    <3> QED BY <3>1, <3>2, <3>3
  <2>4. Ascending[p] = v /\ v \in Nat
    BY SortedMoves DEF Ascending
  <2> HIDE DEF p, T, U, v, n
  <2>5. /\ Added!Folded(S) = v + Added!Folded(S \ {i})
        /\ Quotients!Folded(T) = (v \div n) + Quotients!Folded(U)
        /\ Remainders!Folded(T) = (v % n) + Remainders!Folded(U)
        /\ Quotients!Folded(U) \in Nat /\ Remainders!Folded(U) \in Nat
    <3>1. /\ Added!Folded(S) = Latencies[i] + Added!Folded(S \ {i})
      BY SumsAre
    <3>2. /\ Quotients!Folded(T)
               = (Ascending[p] \div Len(Latencies)) + Quotients!Folded(T \ {p})
          /\ Remainders!Folded(T)
               = (Ascending[p] % Len(Latencies)) + Remainders!Folded(T \ {p})
      BY <2>3, SumsAre
    <3>3. Quotients!Folded(U) \in Nat /\ Remainders!Folded(U) \in Nat
      BY <2>3, SumsAre
    <3> QED BY <2>3, <2>4, <3>1, <3>2, <3>3 DEF v, n
  <2>6. Added!Folded(S \ {i}) = n * Quotients!Folded(U) + Remainders!Folded(U)
    BY <2>2 DEF U
  <2>7. v \div n \in Nat /\ v % n \in Nat /\ v = n * (v \div n) + (v % n)
    BY <1>1, <2>4
  <2>8. Added!Folded(S) = n * Quotients!Folded(T) + Remainders!Folded(T)
    <3> DEFINE QU == Quotients!Folded(U)
               RU == Remainders!Folded(U)
               a == v \div n
               b == v % n
    <3>1. QU \in Nat /\ RU \in Nat /\ a \in Nat /\ b \in Nat
      BY <2>5, <2>7
    <3>2. Added!Folded(S) = (n * a + b) + (n * QU + RU)
      BY <2>5, <2>6, <2>7
    <3>3. n * Quotients!Folded(T) + Remainders!Folded(T) = n * (a + QU) + (b + RU)
      BY <2>5
    <3> HIDE DEF QU, RU, a, b
    <3>4. n * a \in Nat /\ n * QU \in Nat /\ n * (a + QU) = n * a + n * QU
      BY <1>1, <3>1
    <3> QED BY <3>1, <3>2, <3>3, <3>4
  <2> QED BY <2>8 DEF T
<1> HIDE DEF P
<1>4. n \in Nat /\ Cardinality(DOMAIN Latencies) \in Nat
  BY <1>1
<1>5. Cardinality(DOMAIN Latencies) \in P
  BY <1>2, <1>3, <1>4, Added!NaturalInduction
<1>6. Splits(DOMAIN Latencies)
  BY <1>5 DEF P
<1>7. Places(DOMAIN Latencies) = DOMAIN Latencies
  <2>1. \A i \in DOMAIN Latencies : Place(Latencies, i) \in DOMAIN Latencies
    BY PlacesAreTaken
  <2>2. \A k \in DOMAIN Latencies : \E i \in DOMAIN Latencies : Place(Latencies, i) = k
    BY PlacesAreTaken
  <2> QED BY <2>1, <2>2
<1> HIDE DEF Places
<1> QED BY <1>6, <1>7

(* The mean is the sum divided, rounded down.                               *)
LEMMA MeanRight ==
  ASSUME Latencies \in Seq(Nat), NEW m \in IntegerMean(Sorted(Latencies))
  PROVE  /\ m * Len(Latencies) <= Sum(Latencies)
         /\ Sum(Latencies) < (m + 1) * Len(Latencies)
<1> DEFINE n == Len(Latencies)
           D == DOMAIN Latencies
           q == Quotients!Folded(D)
           r == Remainders!Folded(D)
<1>1. /\ Len(Ascending) = n /\ DOMAIN Ascending = D
      /\ Ascending \in Seq(Nat)
  BY SortedMoves DEF Ascending
<1>2. n # 0 /\ m = Sum([k \in DOMAIN Ascending |-> Ascending[k] \div Len(Ascending)])
               + (Sum([k \in DOMAIN Ascending |-> Ascending[k] % Len(Ascending)]) \div Len(Ascending))
  BY <1>1 DEF IntegerMean, Ascending
<1>3. Sum([k \in DOMAIN Ascending |-> Ascending[k] \div Len(Ascending)]) = q
  BY <1>1
  DEF Sum, FoldSeq, FoldFunction, FoldFunctionOnSet, MapThenFoldSet,
      Quotients!Folded, Quotients!Iteration, Quotients!Unfold
<1>4. Sum([k \in DOMAIN Ascending |-> Ascending[k] % Len(Ascending)]) = r
  BY <1>1
  DEF Sum, FoldSeq, FoldFunction, FoldFunctionOnSet, MapThenFoldSet,
      Remainders!Folded, Remainders!Iteration, Remainders!Unfold
<1>5. Sum(Latencies) = Added!Folded(D)
  BY DEF Sum, FoldSeq, FoldFunction, FoldFunctionOnSet, MapThenFoldSet,
         Added!Folded, Added!Iteration, Added!Unfold
<1>6. n \in Nat \ {0} /\ Latencies # <<>>
  BY <1>2
<1>7. /\ Added!Folded(D) = n * q + r /\ q \in Nat /\ r \in Nat
  BY <1>6, SumSplits, SumsAre
<1> HIDE DEF n, D, q, r
<1>8. m = q + (r \div n)
  BY <1>1, <1>2, <1>3, <1>4
<1>9. m * n <= n * q + r /\ n * q + r < (m + 1) * n
  BY <1>6, <1>7, <1>8
<1> QED BY <1>5, <1>7, <1>9 DEF n

-----------------------------------------------------------------------------
Attestation == [success : BOOLEAN, timed : BOOLEAN, terminated : BOOLEAN,
                elapsed : Nat, ended : {"none", "0", "1", "signal", "killed"}]

Honest(a) ==
  /\ a.success => a.ended = "0" /\ ~a.timed
  /\ a.timed => a.elapsed >= TimeLimit
  /\ a.ended = "killed" => a.terminated

Knowledge == [timed : BOOLEAN, terminated : BOOLEAN, waited : BOOLEAN]

(* While a run is over its program and whoever it left behind are gone; a   *)
(* program has been killed only by a runner that says so.                   *)
BenchInv ==
  /\ attestations \in Seq(Attestation)
  /\ phase \in {"spawning", "polling", "comparing", "killing", "waiting", "joining",
                "reported"}
  /\ Len(attestations) <= Runs
  /\ phase = "reported" <=> Len(attestations) = Runs
  /\ clock \in Nat /\ produced \in Nat /\ captured \in Nat
  /\ program \in {"none", "running", "0", "1", "signal", "killed"}
  /\ program = "running" => "program" \in holders
  /\ phase \in {"spawning", "reported"} => holders = {} /\ captured = produced
  /\ phase \in {"polling", "comparing", "killing"} => program \notin {"none", "killed"}
  /\ phase = "joining" => program # "running"
  /\ phase \in {"killing", "waiting", "joining"} =>
       /\ run \in Knowledge
       /\ run.timed => clock >= TimeLimit
  /\ phase \in {"waiting", "joining"} /\ program = "killed" => run.terminated
  /\ \A i \in DOMAIN attestations : Honest(attestations[i])

LEMMA InitBench == BenchInit => BenchInv
<1> SUFFICES ASSUME BenchInit PROVE BenchInv
  OBVIOUS
<1>1. Runs \in Nat \ {0}
  BY SpecAssumption DEF Runs
<1> QED BY <1>1 DEF BenchInit, BenchInv

(* One more run is over.                                                    *)
LEMMA AttestKeeps ==
  ASSUME BenchInv, phase # "reported", NEW a \in Attestation, Honest(a),
         attestations' = Append(attestations, a), phase' = After(attestations')
  PROVE  /\ attestations' \in Seq(Attestation)
         /\ phase' \in {"spawning", "reported"}
         /\ Len(attestations') <= Runs
         /\ phase' = "reported" <=> Len(attestations') = Runs
         /\ \A i \in DOMAIN attestations' : Honest(attestations'[i])
<1>1. /\ attestations \in Seq(Attestation) /\ Len(attestations) \in Nat
      /\ Len(attestations) < Runs /\ Runs \in Nat
      /\ \A i \in 1 .. Len(attestations) : Honest(attestations[i])
  BY SpecAssumption DEF BenchInv, Runs
<1>2. /\ attestations' \in Seq(Attestation) /\ Len(attestations') = Len(attestations) + 1
      /\ \A i \in 1 .. Len(attestations) : attestations'[i] = attestations[i]
      /\ attestations'[Len(attestations) + 1] = a
  BY <1>1, AppendProperties
<1>3. DOMAIN attestations' = 1 .. Len(attestations) + 1
  BY <1>2
<1>4. ASSUME NEW i \in DOMAIN attestations'
      PROVE  Honest(attestations'[i])
  <2>1. i \in 1 .. Len(attestations) \/ i = Len(attestations) + 1
    BY <1>1, <1>3
  <2> QED BY <1>1, <1>2, <2>1
<1> QED BY <1>1, <1>2, <1>4 DEF After

LEMMA NextBench == BenchInv /\ [BenchNext]_benchVars => BenchInv'
<1> SUFFICES ASSUME BenchInv, [BenchNext]_benchVars
             PROVE  BenchInv'
  OBVIOUS
<1>1. CASE Produce
  BY <1>1 DEF Produce, BenchInv
<1>2. CASE Fork
  BY <1>2 DEF Fork, BenchInv
<1>3. CASE ProgramExits
  BY <1>3 DEF ProgramExits, BenchInv
<1>4. CASE DescendantExits
  BY <1>4 DEF DescendantExits, BenchInv
<1>5. CASE Spawn
  <2>1. /\ phase = "spawning" /\ produced' = 0 /\ captured' = 0
        /\ UNCHANGED <<clock, run>>
    BY <1>5 DEF Spawn
  <2>2. CASE /\ program' = "running" /\ holders' = {"program"} /\ phase' = "polling"
             /\ UNCHANGED attestations
    BY <2>1, <2>2 DEF BenchInv
  <2>3. CASE /\ attestations' = Append(attestations,
                  [success |-> FALSE, timed |-> FALSE, terminated |-> FALSE, elapsed |-> 0,
                   ended |-> "none"])
             /\ phase' = After(attestations')
             /\ program' = "none" /\ holders' = {}
    <3> DEFINE a == [success |-> FALSE, timed |-> FALSE, terminated |-> FALSE, elapsed |-> 0,
                     ended |-> "none"]
    <3>1. a \in Attestation /\ Honest(a)
      BY DEF Attestation, Honest
    <3> HIDE DEF a
    <3>2. /\ attestations' \in Seq(Attestation)
          /\ phase' \in {"spawning", "reported"}
          /\ Len(attestations') <= Runs
          /\ phase' = "reported" <=> Len(attestations') = Runs
          /\ \A i \in DOMAIN attestations' : Honest(attestations'[i])
      BY <2>1, <2>3, <3>1, AttestKeeps DEF a
    <3> QED BY <2>1, <2>3, <3>2 DEF BenchInv, Runs
  <2> QED BY <1>5, <2>2, <2>3 DEF Spawn
<1>6. CASE Tick
  <2>1. clock \in Nat /\ clock' = clock + 1 /\ TimeLimit \in Nat
    BY <1>6, SpecAssumption DEF Tick, BenchInv
  <2>2. clock >= TimeLimit => clock' >= TimeLimit
    BY <2>1
  <2> QED BY <1>6, <2>1, <2>2 DEF Tick, BenchInv
<1>7. CASE Capture
  BY <1>7 DEF Capture, BenchInv
<1>8. CASE FindEnded
  <2>1. run' \in Knowledge /\ ~run'.timed
    BY <1>8 DEF FindEnded, Known, Knowledge, BenchInv
  <2> QED BY <1>8, <2>1 DEF FindEnded, BenchInv
<1>9. CASE FindLate \/ PollFails
  <2>1. run' \in Knowledge /\ (run'.timed => clock >= TimeLimit)
    <3>1. clock \in Nat
      BY DEF BenchInv
    <3>2. CASE FindLate
      BY <3>1, <3>2 DEF FindLate, Known, Knowledge
    <3>3. CASE PollFails
      BY <3>1, <3>3 DEF PollFails, Known, Knowledge
    <3> QED BY <1>9, <3>2, <3>3
  <2> QED BY <1>9, <2>1 DEF FindLate, PollFails, BenchInv
<1>10. CASE FindRunning \/ InTime
  BY <1>10 DEF FindRunning, InTime, BenchInv
<1>13. CASE KillBench
  <2>1. PICK sent \in BOOLEAN :
          /\ run' = [run EXCEPT !.terminated = sent]
          /\ IF sent /\ program = "running"
             THEN program' = "killed" /\ holders' = holders \ {"program"}
             ELSE UNCHANGED <<program, holders>>
    BY <1>13 DEF KillBench
  <2>2. run \in Knowledge /\ (run.timed => clock >= TimeLimit)
    BY <1>13 DEF KillBench, BenchInv
  <2>3. /\ run' \in Knowledge /\ run'.terminated = sent
        /\ run'.timed => clock >= TimeLimit
    BY <2>1, <2>2 DEF Knowledge
  <2> QED BY <1>13, <2>1, <2>3 DEF KillBench, BenchInv
<1>14. CASE WaitBench
  <2>1. PICK waited \in BOOLEAN :
          run' = [run EXCEPT !.waited = waited]
    BY <1>14 DEF WaitBench
  <2>2. /\ run \in Knowledge /\ clock \in Nat
        /\ run.timed => clock >= TimeLimit
        /\ program = "killed" => run.terminated
    BY <1>14 DEF WaitBench, BenchInv
  <2>3. /\ run' \in Knowledge /\ run'.terminated = run.terminated
        /\ run'.timed => clock >= TimeLimit
    BY <2>1, <2>2 DEF Knowledge
  <2> QED BY <1>14, <2>2, <2>3 DEF WaitBench, BenchInv
<1>11. CASE JoinCapture
  <2> DEFINE a == [success |-> Success, timed |-> run.timed, terminated |-> run.terminated,
                   elapsed |-> clock, ended |-> program]
  <2>1. /\ phase = "joining" /\ holders = {} /\ captured = produced
        /\ attestations' = Append(attestations, a) /\ phase' = After(attestations')
        /\ clock' = 0 /\ UNCHANGED <<program, holders, produced, captured>>
    BY <1>11 DEF JoinCapture, Attest
  <2>2. a \in Attestation /\ Honest(a)
    <3>1. program \in {"none", "0", "1", "signal", "killed"}
      BY <2>1 DEF BenchInv
    <3> QED BY <2>1, <3>1 DEF BenchInv, Attestation, Honest, Success, Knowledge
  <2> HIDE DEF a
  <2>3. /\ attestations' \in Seq(Attestation)
        /\ phase' \in {"spawning", "reported"}
        /\ Len(attestations') <= Runs
        /\ phase' = "reported" <=> Len(attestations') = Runs
        /\ \A i \in DOMAIN attestations' : Honest(attestations'[i])
    BY <2>1, <2>2, AttestKeeps
  <2> QED BY <2>1, <2>3 DEF BenchInv, Runs
<1>12. CASE UNCHANGED benchVars
  BY <1>12 DEF benchVars, BenchInv
<1> QED
  BY <1>1, <1>2, <1>3, <1>4, <1>5, <1>6, <1>7, <1>8, <1>9, <1>10, <1>11, <1>12,
     <1>13, <1>14
  DEF BenchNext, Program, Runner

(* The measured runs after the first.                                       *)
LEMMA WarmedAre ==
  ASSUME BenchInv
  PROVE  /\ Latencies \in Seq(Nat)
         /\ phase = "reported" => Len(Latencies) = MeasuredRuns - 1
<1> DEFINE L == Len(attestations)
<1>1. /\ attestations \in Seq(Attestation) /\ L \in Nat
      /\ WarmupRuns + 2 \in Int
      /\ \A i \in WarmupRuns + 2 .. L : attestations[i] \in Attestation
  BY SpecAssumption DEF BenchInv
<1>2. /\ Warmed \in Seq(Attestation)
      /\ Len(Warmed) = IF WarmupRuns + 2 <= L THEN L - (WarmupRuns + 2) + 1 ELSE 0
  BY <1>1, SubSeqProperties DEF Warmed
<1>3. \A i \in DOMAIN Warmed : Warmed[i].elapsed \in Nat
  <2> SUFFICES ASSUME NEW i \in DOMAIN Warmed PROVE Warmed[i].elapsed \in Nat
    OBVIOUS
  <2>1. Warmed[i] \in Attestation
    <3> HIDE DEF Attestation
    <3> QED BY <1>2
  <2> QED BY <2>1 DEF Attestation
<1>4. Latencies \in Seq(Nat) /\ Len(Latencies) = Len(Warmed)
  BY <1>2, <1>3 DEF Latencies
<1>5. phase = "reported" => L = WarmupRuns + MeasuredRuns
  BY DEF BenchInv, Runs
<1> HIDE DEF L
<1> QED BY <1>1, <1>2, <1>4, <1>5, SpecAssumption

(* What is attested of the runs follows from the invariant.                 *)
LEMMA BenchIsHonest == BenchInv => AttestationsHonest
<1> SUFFICES ASSUME BenchInv PROVE AttestationsHonest
  OBVIOUS
<1> DEFINE d == LatencyDistribution(Latencies)
           Below(v) == Cardinality({i \in DOMAIN Latencies : Latencies[i] <= v})
<1>1. /\ phase = "spawning" => program # "running" /\ holders = {}
      /\ \A i \in DOMAIN attestations : Honest(attestations[i])
      /\ phase \in {"spawning", "reported"} => captured = produced
  BY DEF BenchInv
<1>2. ASSUME phase = "reported"
      PROVE  /\ d.count = MeasuredRuns - 1
             /\ \A v \in d.p50 : 100 * Below(v) >= 50 * d.count
             /\ \A v \in d.p95 : 100 * Below(v) >= 95 * d.count
             /\ \A v \in d.p99 : 100 * Below(v) >= 99 * d.count
             /\ \A m \in d.mean : m * d.count <= Sum(Latencies)
                                  /\ Sum(Latencies) < (m + 1) * d.count
  <2>1. Latencies \in Seq(Nat) /\ Len(Latencies) = MeasuredRuns - 1
    BY <1>2, WarmedAre
  <2>2. /\ d.count = Len(Latencies) /\ d.mean = IntegerMean(Sorted(Latencies))
        /\ d.p50 = NearestRankOf(Sorted(Latencies), 50)
        /\ d.p95 = NearestRankOf(Sorted(Latencies), 95)
        /\ d.p99 = NearestRankOf(Sorted(Latencies), 99)
    BY <2>1, SortedMoves DEF LatencyDistribution
  <2> HIDE DEF d
  <2>3. 50 \in 1 .. 100 /\ 95 \in 1 .. 100 /\ 99 \in 1 .. 100
    OBVIOUS
  <2>4. \A v \in d.p50 : 100 * Below(v) >= 50 * d.count
    BY ZenonT(60), <2>1, <2>2, <2>3, RankRight
  <2>5. \A v \in d.p95 : 100 * Below(v) >= 95 * d.count
    BY ZenonT(60), <2>1, <2>2, <2>3, RankRight
  <2>6. \A v \in d.p99 : 100 * Below(v) >= 99 * d.count
    BY ZenonT(60), <2>1, <2>2, <2>3, RankRight
  <2>7. \A m \in d.mean : m * d.count <= Sum(Latencies)
                            /\ Sum(Latencies) < (m + 1) * d.count
    BY <2>1, <2>2, MeanRight
  <2> QED BY <2>1, <2>2, <2>4, <2>5, <2>6, <2>7
<1> QED BY <1>1, <1>2 DEF AttestationsHonest, Honest

(* Whatever the program does and leaves behind, and whatever fails, what is *)
(* attested of the runs is true, and the distribution is of all of them.    *)
THEOREM AttestationsAreHonest == BenchSpec => []AttestationsHonest
  BY InitBench, NextBench, BenchIsHonest, PTL DEF BenchSpec

-----------------------------------------------------------------------------
(* Each goes on while the two others stay as they began, so that what holds *)
(* of each alone holds of all together.                                     *)
THEOREM ProcessesSound ==
  ProcessesSpec => [](ChildVerdictSound /\ BlobsAreTheFiles /\ AttestationsHonest)
<1> DEFINE All == IInv /\ BlobInv /\ BenchInv
<1>1. ProcessesInit => All
  BY InvInit, InitBlobs, InitBench DEF ProcessesInit
<1>2. [ProcessesNext]_processVars =>
        /\ [Next]_vars /\ [BatchNext]_batchVars /\ [BenchNext]_benchVars
  BY DEF ProcessesNext, Worker, Batch, Benchmark, processVars
<1>3. All /\ [ProcessesNext]_processVars => All'
  BY <1>2, InvStep, NextBlobs, NextBench
<1>4. All => ChildVerdictSound /\ BlobsAreTheFiles /\ AttestationsHonest
  BY BenchIsHonest DEF IInv, ChildVerdictSound, BlobInv
<1> QED BY <1>1, <1>3, <1>4, PTL DEF ProcessesSpec
=============================================================================
