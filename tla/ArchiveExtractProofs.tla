------------------------ MODULE ArchiveExtractProofs ------------------------
(***************************************************************************)
(* Proofs about the download and the extraction of archives of any size,   *)
(* with any entries, under any limits.                                     *)
(*                                                                         *)
(* Download: while a chunk is between stream and file it is counted in n   *)
(* and in neither of landed and writing; that makes the limit inductive.   *)
(*                                                                         *)
(* Extraction: what the loop has done is a function of the entries it is   *)
(* past (Done).  Their paths are distinct, so that the tree and the list   *)
(* of skipped files hold each of them once, and the running total is the   *)
(* sum of their declared sizes in whatever order it is added up.  That the *)
(* tree is as large as that needs that the sizes declared are true, and    *)
(* nothing else bounds it but the number of entries.                       *)
(***************************************************************************)
EXTENDS ArchiveExtract, FiniteSetTheorems, TLAPS

(* Sums of declared sizes.                                                 *)
Declared == INSTANCE Folding WITH
  Op <- LAMBDA bytes, sum : bytes + sum, Base <- 0,
  Value <- LAMBDA i : archive[i].size, Choice <- LAMBDA S : CHOOSE i \in S : TRUE

INSTANCE Folding WITH
  Op <- LAMBDA v, t : v + t, Base <- 0, Value <- LAMBDA x : x, Choice <- LAMBDA s : s

-----------------------------------------------------------------------------
(* The download                                                            *)

Open == {"send", "stream", "write", "ok"}

ReceivedInv ==
  /\ DownloadTypeOK
  /\ transfer \in Open => n <= CompressedLimit
  /\ transfer = "write" => landed + writing + lost < n
  /\ WithinLimit

LEMMA InitDownload == DownloadInit => ReceivedInv
<1> SUFFICES ASSUME DownloadInit
             PROVE  ReceivedInv
  OBVIOUS
<1>1. sent \in Nat /\ CompressedLimit \in Nat
  BY SizesTyped DEF DownloadInit
<1> QED
  BY <1>1 DEF DownloadInit, ReceivedInv, DownloadTypeOK, WithinLimit, Open

LEMMA NextDownload == ReceivedInv /\ [Download]_downloadVars => ReceivedInv'
<1> SUFFICES ASSUME ReceivedInv, [Download]_downloadVars
             PROVE  ReceivedInv'
  OBVIOUS
<1>0. /\ sent \in Nat /\ CompressedLimit \in Nat
      /\ n \in Nat /\ landed \in Nat /\ writing \in {0, 1}
      /\ lost \in {0, 1}
  BY SizesTyped DEF ReceivedInv, DownloadTypeOK
<1> USE <1>0 DEF ReceivedInv, DownloadTypeOK, WithinLimit, Open, Outcomes
<1>1. CASE Respond
  BY <1>1 DEF Respond, fileVars
<1>2. CASE Chunk
  <2>1. n' = n + 1 /\ n + 1 <= sent /\ UNCHANGED <<sent, announced, fileVars>>
    BY <1>2 DEF Chunk
  <2>2. transfer' = IF n' > CompressedLimit THEN "TooLarge" ELSE "write"
    BY <1>2 DEF Chunk
  <2> QED
    BY <2>1, <2>2 DEF fileVars
<1>3. CASE WriteChunk
  BY <1>3 DEF WriteChunk
<1>4. CASE Land
  <2>1. writing = 1 /\ lost = 0 /\ writing' = 0 /\ landed + 1 <= n
    BY <1>4 DEF Land
  <2>2. /\ \/ landed' = landed + 1 /\ lost' = 0
           \/ landed' = landed /\ lost' = 1
        /\ UNCHANGED <<sent, announced, transfer, n>>
    BY <1>4, <2>1 DEF Land
  <2>3. CASE landed' = landed + 1 /\ lost' = 0
    BY <2>1, <2>2, <2>3
  <2>4. CASE landed' = landed /\ lost' = 1
    BY <2>1, <2>2, <2>4
  <2> QED
    BY <2>2, <2>3, <2>4
<1>5. CASE StreamBreaks
  BY <1>5 DEF StreamBreaks, fileVars
<1>6. CASE EndOfStream
  BY <1>6 DEF EndOfStream, fileVars
<1>7. CASE UNCHANGED downloadVars
  BY <1>7 DEF downloadVars
<1> QED
  BY <1>1, <1>2, <1>3, <1>4, <1>5, <1>6, <1>7 DEF Download

(* Whatever the response says of its length, and whenever its chunks are   *)
(* written, the file never exceeds the limit and holds received bytes only.*)
THEOREM LimitHolds == DownloadSpec => [](WithinLimit /\ DownloadTypeOK)
<1>1. ReceivedInv => WithinLimit /\ DownloadTypeOK
  BY DEF ReceivedInv
<1> QED
  BY InitDownload, NextDownload, <1>1, PTL DEF DownloadSpec

-----------------------------------------------------------------------------
(* The inductive invariant of the extraction                               *)

(* The entries the loop is past.                                          *)
Done == 1 .. index - 1

KeptIn(S) == {i \in S : ~archive[i].dir /\ archive[i].size <= FileLimit}

OversizedIn(S) == {i \in S : ~archive[i].dir /\ archive[i].size > FileLimit}

SkippedAs(i) == [path |-> archive[i].path, bytes |-> archive[i].size]

(* An archive is read when all of it is written, and the loop runs only    *)
(* over what was read.                                                     *)
StageInv ==
  /\ opened \in {"no", "measured", "read", "truncated", "unreadable"}
  /\ opened # "no" => transfer = "ok"
  /\ opened = "read" => landed = sent
  /\ opened # "read" => archive = <<>> /\ index = 0
  /\ outcome = "ok" => index = Len(archive) + 1 /\ opened = "read"
  /\ index > 0 => Len(archive) <= EntryLimit

TypeInv ==
  /\ compressed \in Nat /\ compressed <= landed
  /\ archive \in Seq(Entry) /\ index \in 0 .. Len(archive) + 1
  /\ IsFiniteSet(seen)
  /\ Cardinality(seen) <= (IF index = 0 THEN 0 ELSE index - 1)
  /\ total \in Nat /\ total <= ExpandedLimit + FileLimit
  /\ outcome = "none" => total <= ExpandedLimit
  /\ outcome \in Errors \cup {"none", "ok"}

(* The paths passed are distinct, remembered and under one root.           *)
PathsInv ==
  /\ \A i, j \in Done : archive[i].path = archive[j].path => i = j
  /\ \A i \in Done : archive[i].path # <<>>
  /\ seen = {archive[i].path : i \in Done}
  /\ Done = {} => root = <<>>
  /\ \A i \in Done : root = <<Head(archive[i].path)>>

(* The tree has exactly the files passed and kept, the list the others.    *)
TreeInv ==
  /\ DOMAIN files = {archive[i].path : i \in KeptIn(Done)}
  /\ \A i \in KeptIn(Done) : files[archive[i].path] = archive[i].data
                               /\ archive[i].data <= FileLimit
  /\ \A p \in dirs : <<Head(p)>> = root
  /\ skipped = {SkippedAs(i) : i \in OversizedIn(Done)}

(* The running total is the sum over the files kept.                       *)
SumInv == total = Declared!Folded(KeptIn(Done)) /\ ~TooMuch(total)

IInv ==
  /\ StageInv /\ TypeInv
  /\ outcome \in {"none", "ok"} => PathsInv /\ TreeInv /\ SumInv

-----------------------------------------------------------------------------
(* Entries and sets of them                                                *)

LEMMA MinOfTwo ==
  ASSUME NEW a \in Nat, NEW b \in Nat
  PROVE  Min({a, b}) = IF a <= b THEN a ELSE b
<1>1. \E c \in {a, b} : \A d \in {a, b} : c <= d
  OBVIOUS
<1>2. Min({a, b}) \in {a, b} /\ \A d \in {a, b} : Min({a, b}) <= d
  BY <1>1 DEF Min
<1> QED BY <1>2

LEMMA EntryFacts ==
  ASSUME TypeInv, NEW i \in DOMAIN archive
  PROVE  /\ archive[i].dir \in BOOLEAN
         /\ archive[i].size \in Nat /\ archive[i].data \in Nat
         /\ archive[i].path \in Seq(ToSet(archive[i].path))
         /\ archive[i].fault # "path" => archive[i].path # <<>>
<1>1. archive[i] \in Entry
  BY DEF TypeInv
<1> QED BY <1>1, EntriesTyped

(* The objection is the first there is, and none if there is none.         *)
LEMMA ObjectionIs ==
  /\ Objection = 0 => \A i \in 1 .. 4 : ~Checks[i][1]
  /\ Objection # 0 => Objection \in 1 .. 4
<1> DEFINE I == {i \in 1 .. 4 : Checks[i][1]}
<1>1. Len(Checks) = 4
  BY DEF Checks
<1>2. Objection = IF I # {} THEN Min(I) ELSE 0
  BY <1>1 DEF Objection, SelectInSeq
<1>3. I \subseteq 1 .. 4
  OBVIOUS
<1> HIDE DEF I
<1>4. ASSUME I # {} PROVE Min(I) \in I
  <2>1. \E i \in I : \A j \in I : i <= j
    <3>1. CASE 1 \in I
      BY <1>3, <3>1
    <3>2. CASE 1 \notin I /\ 2 \in I
      <4>1. \A j \in I : j \in {2, 3, 4}
        BY <1>3, <3>2
      <4> QED BY <3>2, <4>1
    <3>3. CASE 1 \notin I /\ 2 \notin I /\ 3 \in I
      <4>1. \A j \in I : j \in {3, 4}
        BY <1>3, <3>3
      <4> QED BY <3>3, <4>1
    <3>4. CASE 1 \notin I /\ 2 \notin I /\ 3 \notin I
      <4>1. \A j \in I : j = 4
        BY <1>3, <3>4
      <4> QED BY <1>4, <4>1
    <3> QED BY <3>1, <3>2, <3>3, <3>4
  <2> QED BY <2>1 DEF Min
<1>5. ASSUME I # {} PROVE Objection \in 1 .. 4 /\ Objection # 0
  <2>1. Objection = Min(I)
    BY <1>2, <1>5
  <2>2. Min(I) \in I
    BY <1>4, <1>5
  <2>3. Min(I) \in 1 .. 4
    BY <1>3, <2>2
  <2> HIDE DEF Objection
  <2> QED BY <2>1, <2>3
<1> QED BY <1>2, <1>5 DEF I

(* An entry that passes every check is new and under the root.             *)
LEMMA NoObjection ==
  ASSUME Objection = 0
  PROVE  /\ entry.fault # "encrypted" /\ entry.fault # "path"
         /\ root = <<>> \/ root = <<Head(entry.path)>>
         /\ entry.path \notin seen
<1>1. ~Checks[1][1] /\ ~Checks[2][1] /\ ~Checks[3][1] /\ ~Checks[4][1]
  BY ObjectionIs
<1> QED BY <1>1 DEF Checks

(* The directories above a path begin as it does.                          *)
LEMMA UpHeads ==
  ASSUME NEW S, NEW path \in Seq(S), path # <<>>
  PROVE  \A p \in Up(path) : Head(p) = Head(path)
<1> SUFFICES ASSUME NEW k \in 1 .. Len(path)
             PROVE  Head(SubSeq(path, 1, k)) = Head(path)
  BY DEF Up
<1>1. Len(SubSeq(path, 1, k)) = k /\ SubSeq(path, 1, k)[1] = path[1]
  OBVIOUS
<1> QED BY <1>1

LEMMA NothingDeclared == Declared!Folded({}) = 0
  BY Declared!FoldedEmpty

(* Any part of an archive has a sum, and one more file adds its size.      *)
LEMMA SumOfKept ==
  ASSUME TypeInv, NEW S \in SUBSET DOMAIN archive
  PROVE  /\ Declared!Folded({}) = 0
         /\ Declared!Folded(S) \in Nat
         /\ \A i \in DOMAIN archive : i \notin S =>
              Declared!Folded(S \cup {i}) = archive[i].size + Declared!Folded(S)
<1>1. \A i \in DOMAIN archive : archive[i].size \in Nat
  BY EntryFacts
<1>2. IsFiniteSet(DOMAIN archive)
  BY FS_Interval DEF TypeInv
<1>3. ASSUME NEW T \in SUBSET DOMAIN archive
      PROVE  /\ Declared!Folded(T) \in Nat
             /\ \A i \in T : Declared!Folded(T) = archive[i].size + Declared!Folded(T \ {i})
  <2>1. IsFiniteSet(T)
    BY <1>2, FS_Subset
  <2>2. Declared!Counted(T)
    BY <2>1, FS_NatSurjection DEF Declared!Counted, ExistsSurjection, Surjection
  <2>3. Declared!Chooses(T)
    BY DEF Declared!Chooses
  <2>4. \A x \in T : archive[x].size \in Nat
    BY <1>1
  <2> QED
    BY <2>2, <2>3, <2>4, Declared!FoldedSum
<1>4. ASSUME NEW i \in DOMAIN archive, i \notin S
      PROVE  Declared!Folded(S \cup {i}) = archive[i].size + Declared!Folded(S)
  BY <1>3, <1>4, (S \cup {i}) \ {i} = S
<1> QED BY <1>3, <1>4, Declared!FoldedEmpty

(* What the loop has done is not changed by what leaves its state alone.   *)
LEMMA LoopSame ==
  ASSUME UNCHANGED <<archive, loopVars, treeVars>>
  PROVE  /\ PathsInv => PathsInv'
         /\ TreeInv => TreeInv'
         /\ KeptIn(Done)' = KeptIn(Done)
         /\ Declared!Folded(KeptIn(Done))' = Declared!Folded(KeptIn(Done))
<1>1. /\ archive' = archive /\ index' = index /\ seen' = seen /\ root' = root
      /\ skipped' = skipped /\ files' = files /\ dirs' = dirs
  BY DEF loopVars, treeVars
<1>2. Done' = Done
  BY <1>1 DEF Done
<1>3. PathsInv => PathsInv'
  BY <1>1, <1>2 DEF PathsInv
<1>4. KeptIn(Done)' = KeptIn(Done) /\ OversizedIn(Done)' = OversizedIn(Done)
  BY <1>1, <1>2 DEF KeptIn, OversizedIn
<1>5. {SkippedAs(i) : i \in OversizedIn(Done)}' = {SkippedAs(i) : i \in OversizedIn(Done)}
  BY <1>1, <1>4 DEF SkippedAs
<1>6. TreeInv => TreeInv'
  BY <1>1, <1>4, <1>5 DEF TreeInv
<1>7. Declared!Folded(KeptIn(Done))' = Declared!Folded(KeptIn(Done))
  BY <1>1, <1>4 DEF Declared!Folded, Declared!Iteration, Declared!Unfold
<1> QED BY <1>3, <1>4, <1>6, <1>7

-----------------------------------------------------------------------------
(* The loop                                                                *)

(* An accepted entry joins the entries done: its path is new and its root  *)
(* is theirs.                                                              *)
LEMMA AcceptKeeps ==
  ASSUME IInv, Accept, outcome' \in Errors \cup {"none"},
         total' \in Nat, total' <= ExpandedLimit + FileLimit,
         outcome' = "none" => total' <= ExpandedLimit
  PROVE  /\ StageInv' /\ TypeInv' /\ PathsInv'
         /\ index \in DOMAIN archive /\ index \notin Done
         /\ Done' = Done \cup {index}
         /\ KeptIn(Done)' = KeptIn(Done \cup {index})
         /\ OversizedIn(Done)' = OversizedIn(Done \cup {index})
         /\ PathsInv /\ TreeInv /\ SumInv
<1>1. /\ index \in DOMAIN archive /\ outcome = "none" /\ Objection = 0
      /\ index' = index + 1 /\ root' = <<Head(entry.path)>>
      /\ seen' = seen \cup {entry.path}
      /\ UNCHANGED <<downloadVars, opened, compressed, archive>>
  BY DEF Accept, InLoop, zipVars
<1>2. /\ index \in 1 .. Len(archive) /\ Len(archive) \in Nat
      /\ PathsInv /\ TreeInv /\ SumInv /\ StageInv /\ TypeInv
  BY <1>1 DEF IInv, TypeInv
<1>3. Done' = Done \cup {index} /\ index \notin Done
  BY <1>1, <1>2 DEF Done
<1>4. entry.path \notin seen /\ entry.path # <<>>
  BY <1>1, <1>2, NoObjection, EntryFacts DEF entry
<1>5. StageInv'
  <2>1. landed' = landed /\ sent' = sent /\ transfer' = transfer
    BY <1>1 DEF downloadVars
  <2>2. opened = "read"
    BY <1>2 DEF StageInv
  <2> QED BY <1>1, <1>2, <2>1, <2>2 DEF StageInv, Errors
<1>6. TypeInv'
  <2>1. /\ IsFiniteSet(seen') /\ Cardinality(seen') = Cardinality(seen) + 1
        /\ Cardinality(seen) \in Nat
    BY <1>1, <1>2, <1>4, FS_AddElement, FS_CardinalityType DEF TypeInv
  <2>2. landed' = landed
    BY <1>1 DEF downloadVars
  <2> QED BY <1>1, <1>2, <2>1, <2>2 DEF TypeInv
<1>7. PathsInv'
  <2>1. \A i \in Done : archive[i].path \in seen /\ archive[i].path # entry.path
    BY <1>2, <1>4 DEF PathsInv
  <2>2. \A i, j \in Done \cup {index} :
          archive[i].path = archive[j].path => i = j
    BY <1>2, <2>1 DEF PathsInv, entry
  <2>3. \A i \in Done \cup {index} : archive[i].path # <<>>
    BY <1>2, <1>4 DEF PathsInv, entry
  <2>4. seen' = {archive[i].path : i \in Done \cup {index}}
    BY <1>1, <1>2 DEF PathsInv, entry
  <2>5. \A i \in Done \cup {index} : root' = <<Head(archive[i].path)>>
    <3>1. \A i \in Done : root = <<Head(archive[i].path)>> /\ root # <<>>
      <4>1. \A i \in Done : root = <<Head(archive[i].path)>>
        BY <1>2 DEF PathsInv
      <4>2. \A x : <<x>> # <<>>
        OBVIOUS
      <4> QED BY <4>1, <4>2
    <3>2. root = <<>> \/ root = root'
      BY <1>1, NoObjection
    <3> QED BY <1>1, <3>1, <3>2 DEF entry
  <2> QED BY <1>1, <1>3, <2>2, <2>3, <2>4, <2>5 DEF PathsInv
<1>8. /\ KeptIn(Done)' = KeptIn(Done \cup {index})
      /\ OversizedIn(Done)' = OversizedIn(Done \cup {index})
  BY <1>1, <1>3 DEF KeptIn, OversizedIn
<1> QED BY <1>1, <1>2, <1>3, <1>5, <1>6, <1>7, <1>8

(* The root that is kept is the one there was, if there was one.           *)
LEMMA RootStays ==
  ASSUME IInv, Accept, PathsInv, TreeInv
  PROVE  \A p \in dirs : <<Head(p)>> = root'
<1>1. root = <<>> \/ root = root'
  BY NoObjection DEF Accept
<1> QED BY <1>1 DEF TreeInv

(* An entry that is not a file to keep leaves the files as they were.      *)
LEMMA FilesSame ==
  ASSUME TreeInv, archive' = archive, files' = files,
         KeptIn(Done)' = KeptIn(Done)
  PROVE  /\ (DOMAIN files = {archive[i].path : i \in KeptIn(Done)})'
         /\ (\A i \in KeptIn(Done) : files[archive[i].path] = archive[i].data
                                       /\ archive[i].data <= FileLimit)'
<1>1. /\ DOMAIN files = {archive[i].path : i \in KeptIn(Done)}
      /\ \A i \in KeptIn(Done) : files[archive[i].path] = archive[i].data
                                   /\ archive[i].data <= FileLimit
  BY DEF TreeInv
<1>2. (DOMAIN files = {archive[i].path : i \in KeptIn(Done)})'
  BY <1>1
<1>3. (\A i \in KeptIn(Done) : files[archive[i].path] = archive[i].data
                                /\ archive[i].data <= FileLimit)'
  BY <1>1
<1> QED BY <1>2, <1>3

LEMMA SkipKeeps ==
  ASSUME IInv, SkipOversized
  PROVE  IInv'
<1>1. /\ Accept /\ ~entry.dir /\ entry.size > FileLimit
      /\ skipped' = skipped \cup {[path |-> entry.path, bytes |-> entry.size]}
      /\ UNCHANGED <<total, files, dirs, outcome>>
  BY DEF SkipOversized
<1>2. outcome = "none"
  BY <1>1 DEF Accept, InLoop
<1>3. /\ StageInv' /\ TypeInv' /\ PathsInv'
      /\ index \in DOMAIN archive /\ index \notin Done
      /\ Done' = Done \cup {index}
      /\ KeptIn(Done)' = KeptIn(Done \cup {index})
      /\ OversizedIn(Done)' = OversizedIn(Done \cup {index})
      /\ PathsInv /\ TreeInv /\ SumInv
  BY <1>1, <1>2, AcceptKeeps DEF IInv, TypeInv
<1>4. archive' = archive /\ compressed' = compressed
  BY <1>1 DEF Accept, zipVars
<1>5. /\ KeptIn(Done \cup {index}) = KeptIn(Done)
      /\ OversizedIn(Done \cup {index}) = OversizedIn(Done) \cup {index}
  <2>1. entry.size \in Nat /\ FileLimit \in Nat
    BY <1>3, EntryFacts, EntriesTyped DEF IInv, entry
  <2> QED BY <1>1, <2>1 DEF KeptIn, OversizedIn, entry
<1>6. TreeInv'
  <2>1. \A i : SkippedAs(i)' = SkippedAs(i)
    BY <1>4 DEF SkippedAs
  <2>2. skipped' = {SkippedAs(i) : i \in OversizedIn(Done) \cup {index}}
    BY <1>1, <1>3 DEF TreeInv, SkippedAs, entry
  <2>3. \A p \in dirs' : <<Head(p)>> = root'
    BY <1>1, <1>3, RootStays
  <2>4. skipped' = {SkippedAs(i) : i \in OversizedIn(Done)}'
    BY <1>3, <1>5, <2>1, <2>2
  <2>5. KeptIn(Done)' = KeptIn(Done)
    BY <1>3, <1>5
  <2>6. /\ (DOMAIN files = {archive[i].path : i \in KeptIn(Done)})'
        /\ (\A i \in KeptIn(Done) : files[archive[i].path] = archive[i].data
                                      /\ archive[i].data <= FileLimit)'
    BY <1>1, <1>3, <1>4, <2>5, FilesSame
  <2> QED BY <2>3, <2>4, <2>6 DEF TreeInv
<1>7. SumInv'
  <2>1. Declared!Folded(KeptIn(Done))' = Declared!Folded(KeptIn(Done))
    <3>1. KeptIn(Done)' = KeptIn(Done)
      BY <1>3, <1>5
    <3> QED BY <1>4, <3>1 DEF Declared!Folded, Declared!Iteration, Declared!Unfold
  <2> QED BY <1>1, <1>3, <1>4, <2>1 DEF SumInv, TooMuch
<1> QED BY <1>3, <1>6, <1>7 DEF IInv

LEMMA DirectoryKeeps ==
  ASSUME IInv, MakeDirectory
  PROVE  IInv'
<1>1. /\ Accept /\ entry.dir
      /\ \/ dirs' = dirs \cup Up(entry.path) /\ outcome' = outcome
         \/ outcome' = "Io"
      /\ UNCHANGED <<total, skipped, files>>
  BY DEF MakeDirectory, Refuse
<1>2. outcome = "none"
  BY <1>1 DEF Accept, InLoop
<1>3. /\ StageInv' /\ TypeInv' /\ PathsInv'
      /\ index \in DOMAIN archive /\ index \notin Done
      /\ Done' = Done \cup {index}
      /\ KeptIn(Done)' = KeptIn(Done \cup {index})
      /\ OversizedIn(Done)' = OversizedIn(Done \cup {index})
      /\ PathsInv /\ TreeInv /\ SumInv
  BY <1>1, <1>2, AcceptKeeps DEF IInv, TypeInv, Errors
<1>4. /\ archive' = archive /\ compressed' = compressed
      /\ root' = <<Head(entry.path)>>
      /\ entry.fault # "path"
  BY <1>1, NoObjection DEF Accept, zipVars
<1>5. CASE dirs' = dirs \cup Up(entry.path) /\ outcome' = outcome
  <2>1. KeptIn(Done)' = KeptIn(Done) /\ OversizedIn(Done)' = OversizedIn(Done)
    BY <1>1, <1>3 DEF KeptIn, OversizedIn, entry
  <2>2. \A p \in dirs' : <<Head(p)>> = root'
    <3>1. /\ entry.path \in Seq(ToSet(entry.path)) /\ entry.path # <<>>
      BY <1>3, <1>4, EntryFacts DEF IInv, entry
    <3>2. \A p \in Up(entry.path) : Head(p) = Head(entry.path)
      BY <3>1, UpHeads
    <3> QED BY <1>1, <1>3, <1>4, <1>5, <3>2, RootStays
  <2>3. {SkippedAs(i) : i \in OversizedIn(Done)}' = {SkippedAs(i) : i \in OversizedIn(Done)}
    BY <1>4, <2>1 DEF SkippedAs
  <2>4. TreeInv'
    <3>1. /\ (DOMAIN files = {archive[i].path : i \in KeptIn(Done)})'
          /\ (\A i \in KeptIn(Done) : files[archive[i].path] = archive[i].data
                                        /\ archive[i].data <= FileLimit)'
      BY <1>1, <1>3, <1>4, <2>1, FilesSame
    <3>2. skipped' = {SkippedAs(i) : i \in OversizedIn(Done)}'
      BY <1>1, <1>3, <2>3 DEF TreeInv
    <3> QED BY <2>2, <3>1, <3>2 DEF TreeInv
  <2>5. Declared!Folded(KeptIn(Done))' = Declared!Folded(KeptIn(Done))
    BY <1>4, <2>1 DEF Declared!Folded, Declared!Iteration, Declared!Unfold
  <2>6. SumInv'
    BY <1>1, <1>3, <1>4, <2>5 DEF SumInv, TooMuch
  <2> QED BY <1>3, <2>4, <2>6 DEF IInv
<1>6. CASE outcome' = "Io"
  BY <1>3, <1>6 DEF IInv
<1> QED BY <1>1, <1>5, <1>6

LEMMA WriteKeeps ==
  ASSUME IInv, WriteFile
  PROVE  IInv'
<1>1. /\ Accept /\ ~entry.dir /\ entry.size <= FileLimit
      /\ total' = total + entry.size
      /\ skipped' = skipped
      /\ \/ outcome' \in Errors
         \/ /\ outcome' = outcome /\ ~TooMuch(total') /\ Written <= FileLimit
            /\ files' = [p \in DOMAIN files \cup {entry.path} |->
                           IF p = entry.path THEN Written ELSE files[p]]
            /\ dirs' = dirs \cup (Up(entry.path) \ {entry.path})
  <2>1. Written \in Nat /\ FileLimit \in Nat
    <3>1. entry.data \in Nat /\ FileLimit \in Nat
      BY EntryFacts, EntriesTyped DEF WriteFile, Accept, InLoop, entry, IInv
    <3> QED BY <3>1, MinOfTwo DEF Written
  <2> QED BY <2>1 DEF WriteFile, Refuse, Errors
<1>2. /\ outcome = "none" /\ index \in DOMAIN archive
  BY <1>1 DEF Accept, InLoop
<1>3. /\ entry.size \in Nat /\ entry.data \in Nat
      /\ entry.path \in Seq(ToSet(entry.path))
      /\ entry.fault # "path" => entry.path # <<>>
      /\ FileLimit \in Nat /\ ExpandedLimit \in Nat
  BY <1>2, EntryFacts, EntriesTyped DEF entry, IInv
<1>4. /\ archive' = archive /\ compressed' = compressed
      /\ root' = <<Head(entry.path)>>
      /\ entry.fault # "path"
  BY <1>1, NoObjection DEF Accept, zipVars
<1>5. /\ StageInv' /\ TypeInv' /\ PathsInv'
      /\ index \in DOMAIN archive /\ index \notin Done
      /\ Done' = Done \cup {index}
      /\ KeptIn(Done)' = KeptIn(Done \cup {index})
      /\ OversizedIn(Done)' = OversizedIn(Done \cup {index})
      /\ PathsInv /\ TreeInv /\ SumInv
  <2>1. total' \in Nat /\ total' <= ExpandedLimit + FileLimit
    BY <1>1, <1>2, <1>3 DEF IInv, TypeInv
  <2>2. outcome' = "none" => total' <= ExpandedLimit
    BY <1>1, <1>3, <2>1 DEF TooMuch, Errors
  <2>3. outcome' \in Errors \cup {"none"}
    BY <1>1, <1>2
  <2> QED BY <1>1, <2>1, <2>2, <2>3, AcceptKeeps
<1>6. CASE outcome' \in Errors
  BY <1>5, <1>6 DEF IInv, Errors
<1>7. CASE /\ outcome' = outcome /\ ~TooMuch(total') /\ Written <= FileLimit
           /\ files' = [p \in DOMAIN files \cup {entry.path} |->
                          IF p = entry.path THEN Written ELSE files[p]]
           /\ dirs' = dirs \cup (Up(entry.path) \ {entry.path})
  <2>1. Written = entry.data
    BY <1>3, <1>7, MinOfTwo DEF Written
  <2>2. /\ KeptIn(Done)' = KeptIn(Done) \cup {index}
        /\ OversizedIn(Done)' = OversizedIn(Done)
    BY <1>1, <1>3, <1>5 DEF KeptIn, OversizedIn, entry
  <2>3. \A p \in dirs' : <<Head(p)>> = root'
    <3>1. \A p \in Up(entry.path) : Head(p) = Head(entry.path)
      BY <1>3, <1>4, UpHeads
    <3> QED BY <1>1, <1>4, <1>5, <1>7, <3>1, RootStays
  <2>4. {SkippedAs(i) : i \in OversizedIn(Done)}' = {SkippedAs(i) : i \in OversizedIn(Done)}
    BY <1>4, <2>2 DEF SkippedAs
  <2>5. (DOMAIN files = {archive[i].path : i \in KeptIn(Done)})'
    BY <1>4, <1>5, <1>7, <2>2 DEF TreeInv, entry
  <2>6. ASSUME NEW i \in KeptIn(Done)'
        PROVE  files'[archive[i].path] = archive[i].data /\ archive[i].data <= FileLimit
    <3>1. CASE i = index
      BY <1>7, <2>1, <3>1 DEF entry
    <3>2. CASE i \in KeptIn(Done) /\ i # index
      <4>1. i \in Done /\ archive[i].path \in DOMAIN files
        BY <1>5, <3>2 DEF KeptIn, TreeInv
      <4>2. archive[i].path # entry.path
        BY <1>4, <1>5, <3>2, <4>1 DEF PathsInv, entry
      <4> QED BY <1>5, <1>7, <3>2, <4>1, <4>2 DEF TreeInv
    <3> QED BY <2>2, <3>1, <3>2
  <2>7. TreeInv'
    BY <1>1, <1>4, <1>5, <2>2, <2>3, <2>4, <2>5, <2>6 DEF TreeInv
  <2>8. Declared!Folded(KeptIn(Done))' = total'
    <3>1. Declared!Folded(KeptIn(Done))' = Declared!Folded(KeptIn(Done) \cup {index})
      BY <1>4, <2>2 DEF Declared!Folded, Declared!Iteration, Declared!Unfold
    <3>2. KeptIn(Done) \in SUBSET DOMAIN archive /\ index \notin KeptIn(Done)
      BY <1>2, <1>5 DEF KeptIn, Done, IInv, TypeInv
    <3>3. Declared!Folded(KeptIn(Done) \cup {index})
            = archive[index].size + Declared!Folded(KeptIn(Done))
      BY <1>2, <3>2, SumOfKept DEF IInv
    <3>4. total = Declared!Folded(KeptIn(Done)) /\ total \in Nat
      BY <1>5 DEF SumInv, IInv, TypeInv
    <3> QED BY <1>1, <1>3, <3>1, <3>3, <3>4 DEF entry
  <2>9. SumInv'
    BY <1>4, <1>7, <2>8 DEF SumInv, TooMuch
  <2> QED BY <1>5, <2>7, <2>9 DEF IInv
<1> QED BY <1>1, <1>6, <1>7

-----------------------------------------------------------------------------
(* The invariant                                                           *)

LEMMA InitIInv == ExtractInit => ReceivedInv /\ IInv
<1> SUFFICES ASSUME ExtractInit PROVE ReceivedInv /\ IInv
  OBVIOUS
<1>1. ReceivedInv
  BY InitDownload DEF ExtractInit
<1>2. StageInv
  BY DEF ExtractInit, StageInv
<1>3. ExpandedLimit \in Nat /\ FileLimit \in Nat /\ RatioLimit \in Nat
  BY EntriesTyped
<1>4. TypeInv
  BY <1>3, FS_EmptySet DEF ExtractInit, DownloadInit, TypeInv
<1>5. Done = {} /\ KeptIn(Done) = {} /\ OversizedIn(Done) = {}
  BY DEF ExtractInit, Done, KeptIn, OversizedIn
<1>6. PathsInv /\ TreeInv
  BY <1>5 DEF ExtractInit, PathsInv, TreeInv
<1>7. SumInv
  <2>1. Declared!Folded(KeptIn(Done)) = 0
    BY <1>5, Declared!FoldedEmpty
  <2>2. total = 0 /\ compressed = 0
    BY DEF ExtractInit
  <2> QED BY <1>3, <2>1, <2>2 DEF SumInv, TooMuch
<1> QED BY <1>1, <1>2, <1>4, <1>6, <1>7 DEF IInv

(* The file never shrinks, and does not grow once all of it is there.      *)
LEMMA LandedGrows ==
  ASSUME ReceivedInv, ReceivedInv', [Download]_downloadVars
  PROVE  /\ landed' \in Nat /\ landed' >= landed /\ sent' = sent
         /\ landed = sent => landed' = sent
         /\ transfer = "ok" => transfer' = "ok"
<1>1. /\ landed \in Nat /\ landed' \in Nat /\ n' \in Nat /\ n' <= sent'
      /\ landed' <= n' /\ sent' \in Nat
  BY SizesTyped DEF ReceivedInv, DownloadTypeOK
<1>2. /\ landed' = landed \/ landed' = landed + 1
      /\ sent' = sent
      /\ transfer = "ok" => transfer' = "ok"
  BY DEF Download, Respond, Chunk, WriteChunk, Land, StreamBreaks, EndOfStream,
         downloadVars, fileVars
<1> QED BY <1>1, <1>2

LEMMA NextIInv ==
  ReceivedInv /\ ReceivedInv' /\ IInv /\ [ExtractNext]_archiveVars => IInv'
<1> SUFFICES ASSUME ReceivedInv, ReceivedInv', IInv, [ExtractNext]_archiveVars
             PROVE  IInv'
  OBVIOUS
<1>0. /\ StageInv /\ TypeInv
      /\ landed \in Nat /\ landed <= sent /\ sent \in Nat
      /\ ExpandedLimit \in Nat /\ FileLimit \in Nat /\ RatioLimit \in Nat
  BY SizesTyped, EntriesTyped DEF ReceivedInv, DownloadTypeOK, IInv
<1>1. ASSUME UNCHANGED <<archive, loopVars, treeVars, compressed>>,
             outcome \in {"none", "ok"} \/ outcome' \notin {"none", "ok"}
      PROVE  outcome' \in {"none", "ok"} => PathsInv' /\ TreeInv' /\ SumInv'
  <2>1. total' = total /\ compressed' = compressed
    BY <1>1 DEF loopVars
  <2>2. SumInv => SumInv'
    BY <1>1, <2>1, LoopSame DEF SumInv, TooMuch
  <2> QED BY <1>1, <2>2, LoopSame DEF IInv
<1>2. CASE Acquire \/ UNCHANGED archiveVars
  <2>1. [Download]_downloadVars /\ UNCHANGED extractVars
    BY <1>2 DEF Acquire, archiveVars
  <2>2. /\ UNCHANGED <<archive, loopVars, treeVars, compressed>>
        /\ opened' = opened /\ compressed' = compressed /\ index' = index
        /\ seen' = seen /\ total' = total
        /\ outcome' = outcome /\ archive' = archive
    BY <2>1 DEF extractVars, loopVars, treeVars
  <2>3. StageInv'
    BY <1>0, <2>1, <2>2, LandedGrows DEF StageInv
  <2>4. TypeInv'
    <3>1. landed' \in Nat /\ landed' >= landed
      BY <2>1, LandedGrows
    <3> QED BY <1>0, <2>2, <3>1 DEF TypeInv
  <2> QED BY <1>1, <2>2, <2>3, <2>4 DEF IInv
<1>3. CASE Measure
  <2>1. /\ transfer = "ok" /\ opened = "no" /\ outcome = "none"
        /\ opened' = "measured" /\ compressed' = landed
        /\ outcome' \in {"none", "TooLarge"}
        /\ transfer' = transfer /\ landed' = landed /\ sent' = sent
        /\ UNCHANGED <<archive, loopVars, treeVars>>
    BY <1>3 DEF Measure, Refuse, downloadVars
  <2>2. /\ index' = index /\ seen' = seen /\ total' = total
        /\ archive' = archive /\ archive = <<>> /\ index = 0
    BY <1>0, <2>1 DEF loopVars, StageInv
  <2>3. StageInv'
    BY <1>0, <2>1, <2>2 DEF StageInv
  <2>4. TypeInv'
    BY <1>0, <2>1, <2>2 DEF TypeInv, Errors
  <2>5. PathsInv' /\ TreeInv'
    BY <2>1, LoopSame DEF IInv
  <2>6. SumInv'
    <3>1. KeptIn(Done) = {}
      BY <2>2 DEF Done, KeptIn
    <3>2. total = 0 /\ total = Declared!Folded(KeptIn(Done))
      BY <2>1, <3>1, Declared!FoldedEmpty DEF IInv, SumInv
    <3>3. ~TooMuch(total)'
      BY <1>0, <2>1, <2>2, <3>2 DEF TooMuch
    <3> QED BY <2>1, <2>2, <3>2, <3>3, LoopSame DEF SumInv
  <2> QED BY <2>3, <2>4, <2>5, <2>6 DEF IInv
<1>4. CASE ReadDirectory
  <2>1. /\ opened = "measured" /\ outcome = "none"
        /\ \/ /\ landed = sent /\ opened' = "read" /\ outcome' = outcome
              /\ archive' \in IF sent = 0 THEN {<<>>}
                              ELSE BoundedSeq(Entry, MaxLength)
           \/ /\ opened' \in {"truncated", "unreadable"}
              /\ outcome' = "Malformed" /\ archive' = archive
        /\ transfer' = transfer /\ landed' = landed /\ sent' = sent
        /\ UNCHANGED <<compressed, loopVars, treeVars>>
    BY <1>4 DEF ReadDirectory, Refuse, downloadVars
  <2>2. /\ index' = index /\ seen' = seen /\ total' = total /\ root' = root
        /\ files' = files /\ dirs' = dirs /\ skipped' = skipped
        /\ compressed' = compressed /\ archive = <<>> /\ index = 0
        /\ transfer = "ok"
    BY <1>0, <2>1 DEF loopVars, treeVars, StageInv
  <2>3. archive' \in Seq(Entry)
    <3>1. MaxLength \in Nat
      BY EntriesTyped
    <3>2. BoundedSeq(Entry, MaxLength) \subseteq Seq(Entry)
      BY <3>1 DEF BoundedSeq, SeqOf
    <3>3. archive \in Seq(Entry) /\ <<>> \in Seq(Entry)
      BY <1>0 DEF TypeInv
    <3>4. \/ archive' = archive \/ archive' = <<>>
          \/ archive' \in BoundedSeq(Entry, MaxLength)
      BY <2>1
    <3> QED BY <3>2, <3>3, <3>4
  <2>4. StageInv'
    BY <2>1, <2>2 DEF StageInv
  <2>5. TypeInv'
    BY <1>0, <2>1, <2>2, <2>3 DEF TypeInv, Errors
  <2>6. CASE outcome' = "Malformed"
    BY <2>4, <2>5, <2>6 DEF IInv
  <2>7. CASE outcome' = "none"
    <3>1. Done = {} /\ Done' = {}
      BY <2>2 DEF Done
    <3>2. PathsInv'
      BY <2>1, <2>2, <3>1 DEF IInv, PathsInv
    <3>3. /\ KeptIn(Done) = {} /\ OversizedIn(Done) = {}
          /\ KeptIn(Done)' = {} /\ OversizedIn(Done)' = {}
      BY <3>1 DEF KeptIn, OversizedIn
    <3>4. TreeInv'
      BY <2>1, <2>2, <3>3 DEF IInv, TreeInv
    <3>5. Declared!Folded(KeptIn(Done)) = 0 /\ Declared!Folded(KeptIn(Done))' = 0
      <4>1. (Declared!Folded({}) = 0)'
        BY NothingDeclared, PTL
      <4> QED BY <3>3, <4>1, NothingDeclared
    <3>6. SumInv'
      BY <2>1, <2>2, <3>5 DEF IInv, SumInv, TooMuch
    <3> QED BY <2>4, <2>5, <3>2, <3>4, <3>6 DEF IInv
  <2> QED BY <2>1, <2>6, <2>7
<1>5. CASE Screen
  <2>1. /\ opened = "read" /\ index = 0 /\ outcome = "none"
        /\ \/ outcome' \in Errors \cup {"none"} /\ index' = index
           \/ /\ index' = 1 /\ outcome' = outcome
              /\ ~(Len(archive) > EntryLimit)
        /\ UNCHANGED <<downloadVars, opened, compressed, archive, seen, root, total,
                       skipped, files, dirs>>
    <3>1. RawRefusal(Min(RawRefusals)) \in Errors \cup {"none"}
      BY DEF RawRefusal, Errors
    <3> QED BY <1>5, <3>1 DEF Screen, Refuse, zipVars, treeVars, Errors
  <2>2. landed' = landed /\ sent' = sent /\ transfer' = transfer
    BY <2>1 DEF downloadVars
  <2>3. StageInv'
    <3>1. Len(archive) \in Nat /\ EntryLimit \in Nat
      BY <1>0, EntriesTyped DEF TypeInv
    <3>2. outcome' # "ok" /\ opened' = opened /\ archive' = archive
      BY <2>1 DEF Errors
    <3>3. index' > 0 => Len(archive') <= EntryLimit
      BY <2>1, <3>1, <3>2
    <3> QED BY <1>0, <2>1, <2>2, <3>2, <3>3 DEF StageInv
  <2>4. TypeInv'
    <3>1. Len(archive) \in Nat
      BY <1>0 DEF TypeInv
    <3> QED BY <1>0, <2>1, <2>2, <3>1 DEF TypeInv, Errors
  <2>5. Done = {} /\ Done' = {}
    BY <2>1 DEF Done
  <2>6. PathsInv'
    BY <2>1, <2>5 DEF IInv, PathsInv
  <2>7. /\ KeptIn(Done) = {} /\ OversizedIn(Done) = {}
        /\ KeptIn(Done)' = {} /\ OversizedIn(Done)' = {}
    BY <2>5 DEF KeptIn, OversizedIn
  <2>8. TreeInv'
    BY <2>1, <2>7 DEF IInv, TreeInv
  <2>9. SumInv'
    <3>1. Declared!Folded(KeptIn(Done))' = Declared!Folded(KeptIn(Done))
      BY <2>1, <2>7 DEF Declared!Folded, Declared!Iteration, Declared!Unfold
    <3> QED BY <2>1, <3>1 DEF IInv, SumInv, TooMuch
  <2> QED BY <2>3, <2>4, <2>6, <2>8, <2>9 DEF IInv
<1>6. ASSUME UNCHANGED <<zipVars, loopVars, treeVars>>, outcome = "none",
             outcome' \in Errors \/ (outcome' = "ok" /\ index = Len(archive) + 1)
      PROVE  IInv'
  <2>1. /\ transfer' = transfer /\ landed' = landed /\ sent' = sent
        /\ opened' = opened /\ compressed' = compressed /\ archive' = archive
        /\ index' = index /\ seen' = seen /\ total' = total
    BY <1>6 DEF zipVars, downloadVars, loopVars
  <2>2. Len(archive) \in Nat
    BY <1>0 DEF TypeInv
  <2>3. StageInv'
    BY <1>0, <1>6, <2>1, <2>2 DEF StageInv, Errors
  <2>4. TypeInv'
    BY <1>0, <1>6, <2>1 DEF TypeInv, Errors
  <2> QED BY <1>1, <1>6, <2>1, <2>3, <2>4 DEF IInv
<1>7. CASE RefuseEntry
  <2>1. Checks[Objection][2] \in Errors
    BY <1>7, ObjectionIs DEF RefuseEntry, Checks, Errors
  <2>2. /\ outcome' \in Errors /\ outcome = "none"
        /\ UNCHANGED <<zipVars, loopVars, treeVars>>
    BY <1>7, <2>1 DEF RefuseEntry, Refuse, InLoop
  <2> QED BY <1>6, <2>2
<1>8. CASE SkipOversized
  BY <1>8, SkipKeeps
<1>9. CASE MakeDirectory
  BY <1>9, DirectoryKeeps
<1>10. CASE WriteFile
  BY <1>10, WriteKeeps
<1>11. CASE DiskFails
  BY <1>6, <1>11 DEF DiskFails, Refuse, Errors
<1>14. CASE EntryMissing
  BY <1>6, <1>14 DEF EntryMissing, Refuse, InLoop, Errors
<1>12. CASE FinishExtraction
  <2>1. /\ outcome' = "Malformed" \/ outcome' = "ok"
        /\ index = Len(archive) + 1 /\ outcome = "none"
        /\ UNCHANGED <<zipVars, loopVars, treeVars>>
    BY <1>12 DEF FinishExtraction, Refuse
  <2>2. "Malformed" \in Errors
    BY DEF Errors
  <2> QED BY <1>6, <2>1, <2>2
<1>13. CASE ExtractReturned
  BY <1>2, <1>13 DEF ExtractReturned
<1> QED
  BY <1>2, <1>3, <1>4, <1>5, <1>7, <1>8, <1>9, <1>10, <1>11, <1>12, <1>13, <1>14
  DEF ExtractNext

(* Only the download's own steps change what is downloaded.                *)
LEMMA NextIsDownload == [ExtractNext]_archiveVars => [Download]_downloadVars
<1> SUFFICES ASSUME [ExtractNext]_archiveVars
             PROVE  Download \/ UNCHANGED downloadVars
  OBVIOUS
<1>1. CASE Acquire \/ UNCHANGED archiveVars \/ ExtractReturned
  BY <1>1 DEF Acquire, ExtractReturned, archiveVars
<1>2. CASE Measure \/ ReadDirectory \/ Screen
  BY <1>2 DEF Measure, ReadDirectory, Screen, zipVars
<1>3. CASE RefuseEntry \/ DiskFails \/ EntryMissing \/ FinishExtraction
  BY <1>3 DEF RefuseEntry, DiskFails, EntryMissing, FinishExtraction, zipVars
<1>4. CASE SkipOversized \/ MakeDirectory \/ WriteFile
  BY <1>4 DEF SkipOversized, MakeDirectory, WriteFile, Accept, zipVars
<1> QED BY <1>1, <1>2, <1>3, <1>4 DEF ExtractNext

THEOREM ExtractInvariant == ExtractSpec => [](ReceivedInv /\ IInv)
<1>1. ReceivedInv /\ IInv /\ [ExtractNext]_archiveVars => (ReceivedInv /\ IInv)'
  BY NextIsDownload, NextDownload, NextIInv
<1> QED BY InitIInv, <1>1, PTL DEF ExtractSpec

-----------------------------------------------------------------------------
(* What a successful extraction leaves                                     *)

LEMMA MaxOfTwo ==
  ASSUME NEW a \in Nat, NEW b \in Nat
  PROVE  Max({a, b}) = IF a >= b THEN a ELSE b
<1>1. \E c \in {a, b} : \A d \in {a, b} : c >= d
  OBVIOUS
<1>2. Max({a, b}) \in {a, b} /\ \A d \in {a, b} : Max({a, b}) >= d
  BY <1>1 DEF Max
<1> QED BY <1>2

(* Distinct elements have as many distinct images.                         *)
LEMMA ImageCardinality ==
  ASSUME NEW S, IsFiniteSet(S), NEW f, DOMAIN f = S,
         \A x, y \in S : f[x] = f[y] => x = y
  PROVE  Cardinality({f[x] : x \in S}) = Cardinality(S)
<1> DEFINE T == {f[x] : x \in S}
           g == [x \in S |-> f[x]]
<1>1. g \in [S -> T]
  OBVIOUS
<1>2. \A x, y \in S : g[x] = g[y] => x = y
  OBVIOUS
<1>3. \A t \in T : \E x \in S : g[x] = t
  OBVIOUS
<1>4. g \in Bijection(S, T)
  BY <1>1, <1>2, <1>3 DEF Bijection, Injection, Surjection, IsInjective
<1>5. ExistsBijection(S, T)
  BY <1>4 DEF ExistsBijection
<1> QED BY <1>5, FS_Bijection

(* The loop of an extraction that succeeds is past every entry.            *)
LEMMA AllDone ==
  ASSUME IInv, outcome = "ok"
  PROVE  /\ Done = DOMAIN archive /\ IsFiniteSet(DOMAIN archive)
         /\ StageInv /\ TypeInv /\ PathsInv /\ TreeInv /\ SumInv
<1>1. StageInv /\ TypeInv /\ PathsInv /\ TreeInv /\ SumInv
  BY DEF IInv
<1>2. Len(archive) \in Nat /\ DOMAIN archive = 1 .. Len(archive)
      /\ index = Len(archive) + 1
  BY <1>1 DEF StageInv, TypeInv
<1>3. Done = DOMAIN archive
  BY <1>2 DEF Done
<1>4. IsFiniteSet(DOMAIN archive)
  BY <1>2, FS_Interval
<1> QED BY <1>1, <1>3, <1>4

LEMMA TypesRight == ReceivedInv /\ IInv => ExtractTypeOK
<1> SUFFICES ASSUME ReceivedInv, IInv PROVE ExtractTypeOK
  OBVIOUS
<1>1. /\ DownloadTypeOK /\ landed \in Nat
      /\ ExpandedLimit \in Nat /\ FileLimit \in Nat
  BY SizesTyped, EntriesTyped DEF ReceivedInv, DownloadTypeOK
<1>2. TypeInv /\ index \in Nat /\ Cardinality(seen) \in Nat
  BY FS_CardinalityType DEF IInv, TypeInv
<1>3. Max({index, 1}) = IF index >= 1 THEN index ELSE 1
  BY <1>2, MaxOfTwo
<1>4. Cardinality(seen) < Max({index, 1})
  BY <1>2, <1>3 DEF TypeInv
<1> QED BY <1>1, <1>2, <1>4 DEF TypeInv, ExtractTypeOK

LEMMA TreeComplete == IInv => Complete
<1> SUFFICES ASSUME IInv, outcome = "ok"
             PROVE  /\ DOMAIN files = {f.path : f \in {g \in FileEntries : g.size <= FileLimit}}
                    /\ \A f \in FileEntries :
                         IF f.size > FileLimit
                         THEN /\ [path |-> f.path, bytes |-> f.size] \in skipped
                              /\ f.path \notin DOMAIN files
                         ELSE files[f.path] = f.data
                    /\ Cardinality(DOMAIN files) + Cardinality(skipped)
                         = Cardinality({i \in DOMAIN archive : ~archive[i].dir})
  BY DEF Complete
<1> DEFINE K == KeptIn(DOMAIN archive)
           O == OversizedIn(DOMAIN archive)
<1>1. /\ IsFiniteSet(DOMAIN archive) /\ TypeInv
      /\ DOMAIN files = {archive[i].path : i \in K}
      /\ \A i \in K : files[archive[i].path] = archive[i].data
      /\ skipped = {SkippedAs(i) : i \in O}
      /\ \A i, j \in DOMAIN archive : archive[i].path = archive[j].path => i = j
  BY AllDone DEF PathsInv, TreeInv
<1>2. \A i \in DOMAIN archive : archive[i].size \in Nat /\ FileLimit \in Nat
  BY <1>1, EntryFacts, EntriesTyped
<1>3. FileEntries = {archive[i] : i \in {j \in DOMAIN archive : ~archive[j].dir}}
  BY DEF FileEntries, ToSet
<1>4. DOMAIN files = {f.path : f \in {g \in FileEntries : g.size <= FileLimit}}
  BY <1>1, <1>3 DEF KeptIn
<1>5. ASSUME NEW f \in FileEntries
      PROVE  IF f.size > FileLimit
             THEN /\ [path |-> f.path, bytes |-> f.size] \in skipped
                  /\ f.path \notin DOMAIN files
             ELSE files[f.path] = f.data
  <2>1. PICK i \in DOMAIN archive : f = archive[i] /\ ~archive[i].dir
    BY <1>3
  <2>2. CASE f.size > FileLimit
    <3>1. i \in O /\ i \notin K
      BY <1>2, <2>1, <2>2 DEF KeptIn, OversizedIn
    <3>2. SkippedAs(i) \in skipped
      BY <1>1, <3>1
    <3>3. f.path \notin DOMAIN files
      BY <1>1, <2>1, <3>1 DEF KeptIn
    <3> QED BY <2>1, <2>2, <3>2, <3>3 DEF SkippedAs
  <2>3. CASE ~(f.size > FileLimit)
    <3>1. i \in K
      BY <1>2, <2>1, <2>3 DEF KeptIn
    <3> QED BY <1>1, <2>1, <2>3, <3>1
  <2> QED BY <2>2, <2>3
<1>6. IsFiniteSet(K) /\ IsFiniteSet(O) /\ K \cap O = {}
      /\ K \cup O = {i \in DOMAIN archive : ~archive[i].dir}
  <2>1. K \subseteq DOMAIN archive /\ O \subseteq DOMAIN archive
    BY DEF KeptIn, OversizedIn
  <2>2. K \cap O = {} /\ K \cup O = {i \in DOMAIN archive : ~archive[i].dir}
    BY <1>2 DEF KeptIn, OversizedIn
  <2> QED BY <1>1, <2>1, <2>2, FS_Subset
<1>7. Cardinality(DOMAIN files) = Cardinality(K)
  <2> DEFINE f == [i \in K |-> archive[i].path]
  <2>1. \A x, y \in K : f[x] = f[y] => x = y
    BY <1>1 DEF KeptIn
  <2>2. Cardinality({f[x] : x \in K}) = Cardinality(K)
    <3>1. DOMAIN f = K
      OBVIOUS
    <3> HIDE DEF f, K
    <3> QED BY <1>6, <2>1, <3>1, ImageCardinality
  <2>3. {f[x] : x \in K} = DOMAIN files
    BY <1>1
  <2> QED BY <2>2, <2>3
<1>8. Cardinality(skipped) = Cardinality(O)
  <2> DEFINE f == [i \in O |-> SkippedAs(i)]
  <2>1. \A x, y \in O : f[x] = f[y] => x = y
    BY <1>1 DEF OversizedIn, SkippedAs
  <2>2. Cardinality({f[x] : x \in O}) = Cardinality(O)
    <3>1. DOMAIN f = O
      OBVIOUS
    <3> HIDE DEF f, O
    <3> QED BY <1>6, <2>1, <3>1, ImageCardinality
  <2>3. {f[x] : x \in O} = skipped
    BY <1>1
  <2> QED BY <2>2, <2>3
<1>9. Cardinality(K \cup O) = Cardinality(K) + Cardinality(O)
  <2>1. Cardinality(K \cup O) = Cardinality(K) + Cardinality(O) - Cardinality(K \cap O)
    BY <1>6, FS_Union
  <2>2. Cardinality(K) \in Nat /\ Cardinality(O) \in Nat
    BY <1>6, FS_CardinalityType
  <2>3. Cardinality(K \cap O) = 0
    BY <1>6, FS_EmptySet
  <2> HIDE DEF K, O
  <2> QED BY <2>1, <2>2, <2>3
<1>10. Cardinality(DOMAIN files) + Cardinality(skipped)
         = Cardinality({i \in DOMAIN archive : ~archive[i].dir})
  BY <1>6, <1>7, <1>8, <1>9
<1> QED BY <1>4, <1>5, <1>10

(* The tree of distinct paths is no larger than the sum of sizes that are   *)
(* no smaller than the files.                                              *)
LEMMA TreeUnderDeclared ==
  ASSUME TypeInv, NEW K \in SUBSET DOMAIN archive, IsFiniteSet(K),
         \A i, j \in K : archive[i].path = archive[j].path => i = j,
         \A i \in K : /\ files[archive[i].path] \in Nat
                      /\ files[archive[i].path] <= archive[i].size
  PROVE  Sum(files, {archive[i].path : i \in K}) <= Declared!Folded(K)
<1> DEFINE Paths(T) == {archive[i].path : i \in T}
           P == {T \in SUBSET K : /\ IsFiniteSet(Paths(T))
                                  /\ Sum(files, Paths(T)) <= Declared!Folded(T)}
<1>1. {} \in P
  <2>1. Paths({}) = {} /\ IsFiniteSet(Paths({}))
    BY FS_EmptySet
  <2>2. Sum(files, {}) = 0
    BY FS_EmptySet, SumStep
  <2> QED BY <2>1, <2>2, NothingDeclared
<1>2. ASSUME NEW T \in SUBSET K, NEW x \in K \ T, T \in P
      PROVE  T \cup {x} \in P
  <2>1. Paths(T \cup {x}) = Paths(T) \cup {archive[x].path}
    OBVIOUS
  <2>2. archive[x].path \notin Paths(T) /\ IsFiniteSet(Paths(T))
    BY <1>2
  <2>3. \A q \in Paths(T) \cup {archive[x].path} : files[q] \in Int
    OBVIOUS
  <2> HIDE DEF Paths
  <2>4. /\ Sum(files, Paths(T)) \in Int
        /\ IsFiniteSet(Paths(T) \cup {archive[x].path})
        /\ Sum(files, Paths(T) \cup {archive[x].path})
             = files[archive[x].path] + Sum(files, Paths(T))
    BY <2>2, <2>3, SumAdd
  <2>5. /\ Declared!Folded(T) \in Nat
        /\ Declared!Folded(T \cup {x}) = archive[x].size + Declared!Folded(T)
    BY SumOfKept
  <2>6. archive[x].size \in Nat /\ files[archive[x].path] <= archive[x].size
    BY EntryFacts
  <2>7. Sum(files, Paths(T)) <= Declared!Folded(T)
    BY <1>2
  <2>8. Sum(files, Paths(T) \cup {archive[x].path}) <= Declared!Folded(T \cup {x})
    BY <2>4, <2>5, <2>6, <2>7
  <2> QED BY <2>1, <2>4, <2>8
<1> HIDE DEF P
<1>3. K \in P
  BY <1>1, <1>2, SetInduction
<1> QED BY <1>3 DEF P

LEMMA ExpandedIsSum ==
  ASSUME IsFiniteSet(DOMAIN files)
  PROVE  Expanded = Sum(files, DOMAIN files)
<1> DEFINE S == DOMAIN files
           Unrolled(g, s) ==
             IF s = {} THEN 0
             ELSE files[CHOOSE x \in s : TRUE] + g[s \ {CHOOSE x \in s : TRUE}]
           g == CHOOSE h : h = [s \in SUBSET S |-> Unrolled(h, s)]
<1>1. Expanded = g[S]
  BY DEF Expanded, SumFunction, SumFunctionOnSet, FoldFunctionOnSet, MapThenFoldSet
<1>2. g = Totals(files, S)
  BY DEF Totals, Stepped, Step, OneOf
<1> QED BY <1>1, <1>2 DEF Sum

(* The number of files bounds them together.                               *)
LEMMA TreeUnderCount ==
  ASSUME IsFiniteSet(DOMAIN files), NEW count \in Nat,
         Cardinality(DOMAIN files) <= count,
         \A p \in DOMAIN files : files[p] \in Nat /\ files[p] <= FileLimit
  PROVE  Expanded <= count * FileLimit
<1> DEFINE S == DOMAIN files
           most == [p \in S |-> FileLimit]
<1>1. FileLimit \in Nat /\ Cardinality(S) \in Nat
  BY EntriesTyped, FS_CardinalityType
<1>2. Sum(most, S) = FileLimit * Cardinality(S)
  <2>1. \A p \in S : most[p] = FileLimit
    OBVIOUS
  <2> HIDE DEF most
  <2> QED BY <1>1, <2>1, SumConstant
<1>3. Sum(files, S) <= Sum(most, S)
  <2>1. \A p \in S : files[p] \in Int /\ most[p] \in Int /\ files[p] <= most[p]
    BY <1>1
  <2> HIDE DEF most
  <2> QED BY <2>1, SumMonotone
<1>4. Sum(files, S) \in Int
  BY SumStep
<1>5. Expanded = Sum(files, S)
  BY ExpandedIsSum
<1>6. FileLimit * Cardinality(S) <= count * FileLimit
  <2>1. PICK more \in Nat : count = Cardinality(S) + more
    <3>1. count - Cardinality(S) \in Nat /\ count = Cardinality(S) + (count - Cardinality(S))
      BY <1>1
    <3> QED BY <3>1
  <2> DEFINE c == Cardinality(S)
  <2> HIDE DEF c, S
  <2>2. c \in Nat /\ count = c + more
    BY <1>1, <2>1 DEF c
  <2>3. (c + more) * FileLimit = FileLimit * c + more * FileLimit /\ more * FileLimit \in Nat
    BY <1>1, <2>2
  <2>4. FileLimit * c \in Nat
    BY <1>1, <2>2
  <2> QED BY <2>2, <2>3, <2>4 DEF c
<1> HIDE DEF S, most
<1> QED BY <1>1, <1>2, <1>3, <1>4, <1>5, <1>6

LEMMA TreeBounded == IInv => Bounded
<1> SUFFICES ASSUME IInv, outcome = "ok"
             PROVE  /\ \A p \in DOMAIN files : files[p] <= FileLimit
                    /\ ~TooMuch(MapThenSumSet(LAMBDA i : archive[i].size, Kept))
                    /\ (\A i \in Kept : archive[i].data <= archive[i].size)
                         => ~TooMuch(Expanded)
                    /\ Expanded <= EntryLimit * FileLimit
  BY DEF Bounded
<1>1. /\ DOMAIN files = {archive[i].path : i \in Kept}
      /\ \A i \in Kept : files[archive[i].path] = archive[i].data
                           /\ archive[i].data <= FileLimit
      /\ total = Declared!Folded(Kept) /\ ~TooMuch(total)
      /\ TypeInv /\ StageInv /\ IsFiniteSet(DOMAIN archive)
      /\ \A i, j \in DOMAIN archive : archive[i].path = archive[j].path => i = j
  BY AllDone DEF TreeInv, SumInv, PathsInv, KeptIn, Kept
<1>2. MapThenSumSet(LAMBDA i : archive[i].size, Kept) = Declared!Folded(Kept)
  BY DEF MapThenSumSet, MapThenFoldSet, Declared!Folded, Declared!Iteration,
         Declared!Unfold
<1>3. Kept \in SUBSET DOMAIN archive /\ IsFiniteSet(Kept)
  BY <1>1, FS_Subset DEF Kept
<1>4. \A i \in Kept : files[archive[i].path] \in Nat
  BY <1>1, <1>3, EntryFacts
<1>5. \A p \in DOMAIN files : files[p] \in Nat /\ files[p] <= FileLimit
  BY <1>1, <1>4
<1>6. IsFiniteSet(DOMAIN files) /\ Cardinality(DOMAIN files) = Cardinality(Kept)
  <2> DEFINE f == [i \in Kept |-> archive[i].path]
  <2>1. \A x, y \in Kept : f[x] = f[y] => x = y
    BY <1>1, <1>3
  <2>2. DOMAIN f = Kept /\ {f[x] : x \in Kept} = DOMAIN files
    BY <1>1
  <2> HIDE DEF f
  <2> QED BY <1>3, <2>1, <2>2, ImageCardinality, FiniteImage
<1>7. ASSUME \A i \in Kept : archive[i].data <= archive[i].size
      PROVE  ~TooMuch(Expanded)
  <2>1. Sum(files, {archive[i].path : i \in Kept}) <= Declared!Folded(Kept)
    BY <1>1, <1>3, <1>4, <1>7, TreeUnderDeclared
  <2>2. Expanded = Sum(files, DOMAIN files)
    BY <1>6, ExpandedIsSum
  <2>3. Sum(files, DOMAIN files) \in Int
    BY <1>5, <1>6, SumStep
  <2>4. Expanded \in Int /\ Expanded <= total
    BY <1>1, <2>1, <2>2, <2>3
  <2>5. /\ total \in Nat /\ compressed \in Nat
        /\ ExpandedLimit \in Nat /\ RatioLimit \in Nat
    BY <1>1, EntriesTyped DEF TypeInv
  <2>6. compressed * RatioLimit \in Nat
    BY <2>5
  <2> QED BY <1>1, <2>4, <2>5, <2>6 DEF TooMuch
<1>8. Expanded <= EntryLimit * FileLimit
  <2>1. Len(archive) \in Nat /\ DOMAIN archive = 1 .. Len(archive)
        /\ Len(archive) <= EntryLimit /\ EntryLimit \in Nat
    BY <1>1, EntriesTyped DEF StageInv, TypeInv
  <2>2. Cardinality(DOMAIN archive) = Len(archive)
    <3>1. Cardinality(1 .. Len(archive))
            = IF 1 > Len(archive) THEN 0 ELSE Len(archive) - 1 + 1
      BY <2>1, FS_Interval, 1 \in Int, Len(archive) \in Int
    <3> QED BY <2>1, <3>1
  <2>3. Cardinality(Kept) <= Cardinality(DOMAIN archive) /\ Cardinality(Kept) \in Nat
    BY <1>1, <1>3, FS_Subset, FS_CardinalityType
  <2>4. Cardinality(DOMAIN files) <= EntryLimit
    BY <1>6, <2>1, <2>2, <2>3
  <2> QED BY <1>5, <1>6, <2>1, <2>4, TreeUnderCount
<1> QED BY <1>1, <1>2, <1>5, <1>7, <1>8

LEMMA TreeRooted == IInv => SingleRoot
<1> SUFFICES ASSUME IInv, outcome = "ok",
                    NEW p \in DOMAIN files \cup dirs \cup {x.path : x \in skipped}
             PROVE  <<Head(p)>> = root
  BY DEF SingleRoot
<1>1. /\ \A i \in Done : root = <<Head(archive[i].path)>>
      /\ DOMAIN files = {archive[i].path : i \in KeptIn(Done)}
      /\ \A q \in dirs : <<Head(q)>> = root
      /\ skipped = {SkippedAs(i) : i \in OversizedIn(Done)}
  BY AllDone DEF PathsInv, TreeInv
<1>2. CASE p \in DOMAIN files
  BY <1>1, <1>2 DEF KeptIn
<1>3. CASE p \in dirs
  BY <1>1, <1>3
<1>4. CASE p \in {x.path : x \in skipped}
  BY <1>1, <1>4 DEF OversizedIn, SkippedAs
<1> QED BY <1>2, <1>3, <1>4

(* Whatever an archive holds and however download, disk and process fail:  *)
(* an extraction that succeeds leaves the whole archive, every file of it  *)
(* once, in the tree or by name among those skipped, and under one root.   *)
(* Each file is within the limit of a file and the declared sizes within   *)
(* those of the tree, so that the tree is as far as no entry holds more    *)
(* than it declares; in any case it is within the limit of a file times    *)
(* the limit of entries (download, extract_zip).                           *)
THEOREM ExtractionIsSound == ExtractSpec => [](WithinLimit /\ ExtractionSound)
<1>1. ReceivedInv /\ IInv => WithinLimit /\ WholeOrNothing
  BY DEF ReceivedInv, IInv, StageInv, WholeOrNothing
<1>2. ReceivedInv /\ IInv => WithinLimit /\ ExtractionSound
  BY <1>1, TypesRight, TreeComplete, TreeBounded, TreeRooted DEF ExtractionSound
<1> QED BY ExtractInvariant, <1>2, PTL
=============================================================================
