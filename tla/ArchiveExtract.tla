--------------------------- MODULE ArchiveExtract ---------------------------
(***************************************************************************)
(* How an archive becomes the tree the worker analyzes.  download streams  *)
(* it into a file, chunk by chunk and under the byte limit; extract_zip    *)
(* makes the tree of it, one entry after another, under the limits of      *)
(* ArchiveLimits, on a thread of its own once the download has returned.   *)
(*                                                                         *)
(* The file is an asynchronous one.  A write hands the chunk to a thread   *)
(* of the runtime and returns; the next write waits for it, and reports    *)
(* its failure.  The download returns without waiting for the last one.    *)
(* Bytes are counted in chunks.                                            *)
(*                                                                         *)
(* An entry is [path, spelling, dir, size, data, fault]: the components of *)
(* its name, the way the name spells them (two spellings of one path are   *)
(* different names), whether it is a directory, its declared size, the     *)
(* size its data expands to, which need not be the one declared, and what  *)
(* is wrong with it, if anything: it is encrypted, its name leaves the     *)
(* tree or is out of bounds ("path"), or it is neither a regular file nor  *)
(* a directory ("kind").                                                   *)
(***************************************************************************)
EXTENDS Integers, Sequences, FiniteSets, SequencesExt, FiniteSetsExt, Functions

CONSTANTS
  Sizes,           \* the sizes an archive may have
  CompressedLimit  \* limits.compressed_bytes

ASSUME SizesTyped == Sizes \subseteq Nat /\ CompressedLimit \in Nat

VARIABLES
  sent,       \* the size of the archive sent
  announced,  \* whether the response names it
  transfer,   \* what download is at, or what it returned
  n,          \* bytes received
  writing,    \* bytes that a thread is writing
  landed,     \* bytes in the file
  lost        \* bytes whose write failed and nobody was told yet

downloadVars == <<sent, announced, transfer, n, writing, landed, lost>>

fileVars == <<writing, landed, lost>>

Outcomes == {"ok", "Upstream", "TooLarge", "Io"}

DownloadInit ==
  /\ sent \in Sizes /\ announced \in BOOLEAN
  /\ transfer = "send" /\ n = 0
  /\ writing = 0 /\ landed = 0 /\ lost = 0

-----------------------------------------------------------------------------
(* GithubClient::download                                                  *)

TooLong == announced /\ sent > CompressedLimit

(* The request fails, or its response is refused for its declared length,  *)
(* or the file cannot be made, or the body can be read.                    *)
Respond ==
  /\ transfer = "send"
  /\ \/ transfer' = "Upstream"
     \/ TooLong /\ transfer' = "TooLarge"
     \/ ~TooLong /\ transfer' \in {"Io", "stream"}
  /\ UNCHANGED <<sent, announced, n, fileVars>>

Chunk_Unchecked ==
  /\ transfer = "stream" /\ n < sent
  /\ n' = n + 1
  /\ transfer' = "write"
  /\ UNCHANGED <<sent, announced, fileVars>>

Chunk ==
  /\ transfer = "stream" /\ n < sent
  /\ n' = n + 1
  /\ transfer' = IF n' > CompressedLimit THEN "TooLarge" ELSE "write"
  /\ UNCHANGED <<sent, announced, fileVars>>

(* write_all: a chunk is taken once the one before it is written.          *)
WriteChunk ==
  /\ transfer = "write" /\ writing = 0
  /\ IF lost > 0
     THEN transfer' = "Io" /\ lost' = 0 /\ UNCHANGED writing
     ELSE transfer' = "stream" /\ writing' = 1 /\ UNCHANGED lost
  /\ UNCHANGED <<sent, announced, n, landed>>

(* The thread writes the chunk, at any time and whatever download is at.   *)
Land ==
  /\ writing = 1 /\ writing' = 0
  /\ \/ landed' = landed + 1 /\ UNCHANGED lost
     \/ lost' = lost + 1 /\ UNCHANGED landed
  /\ UNCHANGED <<sent, announced, transfer, n>>

StreamBreaks ==
  /\ transfer = "stream"
  /\ transfer' = "Upstream"
  /\ UNCHANGED <<sent, announced, n, fileVars>>

EndOfStream ==
  /\ transfer = "stream" /\ n = sent
  /\ transfer' = "ok"
  /\ UNCHANGED <<sent, announced, n, fileVars>>

Download ==
  Respond \/ Chunk \/ WriteChunk \/ Land \/ StreamBreaks \/ EndOfStream

DownloadSpec == DownloadInit /\ [][Download]_downloadVars

-----------------------------------------------------------------------------

(* The counters stay in their ranges, and no byte is written that was not  *)
(* received.                                                               *)
DownloadTypeOK ==
  /\ sent \in Sizes /\ announced \in BOOLEAN
  /\ transfer \in {"send", "stream", "write"} \cup Outcomes
  /\ n \in 0 .. sent /\ landed \in 0 .. n
  /\ writing \in {0, 1} /\ lost \in {0, 1} /\ writing + lost <= 1
  /\ landed + writing + lost <= n

(* The limit holds for what is on disk, whether or not the response told   *)
(* its length beforehand, and while the last write is still under way.     *)
WithinLimit == landed + writing <= CompressedLimit

-----------------------------------------------------------------------------
(* The extraction                                                          *)

CONSTANTS
  Entry,          \* the entries an archive may have
  MaxLength,      \* bound on the length of the archives checked
  EntryLimit,     \* limits.entries
  FileLimit,      \* limits.file_bytes
  ExpandedLimit,  \* limits.expanded_bytes
  RatioLimit      \* limits.expansion_ratio

(* Only a name that is refused may have no components.                     *)
ASSUME EntriesTyped ==
  /\ \A f \in Entry :
       /\ f.dir \in BOOLEAN /\ f.size \in Nat /\ f.data \in Nat
       /\ f.path \in Seq(ToSet(f.path))
       /\ f.fault # "path" => f.path # <<>>
  /\ {MaxLength, EntryLimit, FileLimit, ExpandedLimit, RatioLimit} \subseteq Nat

VARIABLES
  opened,      \* "no", "measured", "read", "truncated" or "unreadable"
  compressed,  \* the size of the file when it was measured
  archive,     \* its central directory, once it is read
  index,       \* the entry the loop is at
  seen,        \* normalized paths so far
  root,        \* the first component of every path, <<>> before the first
  total,       \* declared bytes so far
  skipped,     \* files left out by name
  files,       \* path -> bytes written
  dirs,        \* directories made
  outcome      \* "none" while extracting, "ok", or an ArchiveError

extractVars == <<opened, compressed, archive, index, seen, root, total,
                 skipped, files, dirs, outcome>>

archiveVars == <<downloadVars, extractVars>>

zipVars == <<downloadVars, opened, compressed, archive>>
loopVars == <<index, seen, root, total>>
treeVars == <<skipped, files, dirs>>

Errors == {"Io", "Malformed", "Encrypted", "TooLarge", "TooManyEntries",
           "UnsafePath", "DuplicatePath", "MultipleRoots", "UnsupportedEntry"}

Name(f) == <<f.path, f.spelling, f.dir>>

ExtractInit ==
  /\ DownloadInit
  /\ opened = "no" /\ compressed = 0 /\ archive = <<>>
  /\ index = 0
  /\ seen = {} /\ root = <<>> /\ total = 0
  /\ skipped = {} /\ files = <<>> /\ dirs = {}
  /\ outcome = "none"

-----------------------------------------------------------------------------
(* The file, and the checks before the loop: extract_zip and               *)
(* reject_raw_duplicates                                                   *)

Acquire == Download /\ UNCHANGED extractVars

Refuse(error) == outcome' = error

Measure ==
  /\ transfer = "ok" /\ opened = "no" /\ outcome = "none"
  /\ opened' = "measured" /\ compressed' = landed
  /\ IF landed > CompressedLimit THEN Refuse("TooLarge")
                                 ELSE UNCHANGED outcome
  /\ UNCHANGED <<downloadVars, archive, loopVars, treeVars>>

ReadDirectory_Prefix ==
  /\ opened = "measured" /\ outcome = "none"
  /\ opened' = "read" /\ archive' \in BoundedSeq(Entry, MaxLength)
  /\ UNCHANGED <<downloadVars, compressed, loopVars, treeVars, outcome>>

(* The directory of an archive is its end: an archive that lacks some of   *)
(* its bytes has none, and what was sent need not be an archive at all.    *)
ReadDirectory ==
  /\ opened = "measured" /\ outcome = "none"
  /\ \/ /\ landed = sent /\ opened' = "read"
        /\ archive' \in IF sent = 0 THEN {<<>>} ELSE BoundedSeq(Entry, MaxLength)
        /\ UNCHANGED outcome
     \/ /\ opened' = IF landed = sent THEN "unreadable" ELSE "truncated"
        /\ Refuse("Malformed") /\ UNCHANGED archive
  /\ UNCHANGED <<downloadVars, compressed, loopVars, treeVars>>

(* Two entries of one name would leave the reader with one of them.        *)
RawRefusal(i) ==
  IF archive[i].fault = "kind" THEN "UnsupportedEntry"
  ELSE IF \E j \in 1 .. i - 1 : Name(archive[j]) = Name(archive[i])
  THEN "DuplicatePath"
  ELSE "none"

RawRefusals == {i \in DOMAIN archive : RawRefusal(i) # "none"}

Screen ==
  /\ opened = "read" /\ index = 0 /\ outcome = "none"
  /\ IF Len(archive) > EntryLimit
     THEN Refuse("TooManyEntries") /\ UNCHANGED index
     ELSE IF RawRefusals # {}
     THEN Refuse(RawRefusal(Min(RawRefusals))) /\ UNCHANGED index
     ELSE index' = 1 /\ UNCHANGED outcome
  /\ UNCHANGED <<zipVars, seen, root, total, treeVars>>

-----------------------------------------------------------------------------
(* The loop                                                                *)

InLoop == index \in DOMAIN archive /\ outcome = "none"

entry == archive[index]

(* What is wrong with the entry, in the order the loop looks for it.        *)
Checks ==
  << <<entry.fault = "encrypted", "Encrypted">>,
     <<entry.fault = "path", "UnsafePath">>,
     <<root # <<>> /\ root # <<Head(entry.path)>>, "MultipleRoots">>,
     <<entry.path \in seen, "DuplicatePath">> >>

Objection == SelectInSeq(Checks, LAMBDA c : c[1])

RefuseEntry ==
  /\ InLoop /\ Objection # 0
  /\ Refuse(Checks[Objection][2])
  /\ UNCHANGED <<zipVars, loopVars, treeVars>>

(* An entry that passes is remembered, whatever becomes of it.             *)
Accept ==
  /\ InLoop /\ Objection = 0
  /\ index' = index + 1
  /\ root' = <<Head(entry.path)>>
  /\ seen' = seen \cup {entry.path}
  /\ UNCHANGED zipVars

SkipOversized ==
  /\ Accept
  /\ ~entry.dir /\ entry.size > FileLimit
  /\ skipped' = skipped \cup {[path |-> entry.path, bytes |-> entry.size]}
  /\ UNCHANGED <<total, files, dirs, outcome>>

(* The directories above a path, and itself.                               *)
Up(path) == {SubSeq(path, 1, k) : k \in 1 .. Len(path)}

(* create_dir_all fails where a file is in the way.                        *)
MakeDirectory ==
  /\ Accept
  /\ entry.dir
  /\ IF Up(entry.path) \cap DOMAIN files = {}
     THEN dirs' = dirs \cup Up(entry.path) /\ UNCHANGED outcome
     ELSE Refuse("Io") /\ UNCHANGED dirs
  /\ UNCHANGED <<total, skipped, files>>

TooMuch(bytes) ==
  \/ bytes > ExpandedLimit
  \/ compressed > 0 /\ bytes > compressed * RatioLimit

(* The copy stops one byte past the limit of a file.                       *)
Written == Min({entry.data, FileLimit + 1})

WriteFile ==
  /\ Accept
  /\ ~entry.dir /\ entry.size <= FileLimit
  /\ total' = total + entry.size
  /\ \/ /\ TooMuch(total')
        /\ Refuse("TooLarge") /\ UNCHANGED <<files, dirs>>
     \/ /\ ~TooMuch(total') /\ Up(entry.path) \cap DOMAIN files # {}
        /\ Refuse("Io") /\ UNCHANGED <<files, dirs>>
     \/ /\ ~TooMuch(total') /\ entry.path \in dirs
        /\ Refuse("DuplicatePath") /\ UNCHANGED <<files, dirs>>
     \/ /\ ~TooMuch(total')
        /\ Up(entry.path) \cap DOMAIN files = {} /\ entry.path \notin dirs
        /\ files' = [p \in DOMAIN files \cup {entry.path} |->
                       IF p = entry.path THEN Written ELSE files[p]]
        /\ dirs' = dirs \cup (Up(entry.path) \ {entry.path})
        /\ IF Written > FileLimit THEN Refuse("TooLarge")
                                  ELSE UNCHANGED outcome
  /\ UNCHANGED skipped

(* Any read, write or directory creation may fail.                         *)
DiskFails ==
  /\ transfer = "ok" /\ outcome = "none"
  /\ Refuse("Io")
  /\ UNCHANGED <<zipVars, loopVars, treeVars>>

(* The directory names the entry, but the entry is not there.              *)
EntryMissing ==
  /\ InLoop
  /\ Refuse("Malformed")
  /\ UNCHANGED <<zipVars, loopVars, treeVars>>

FinishExtraction ==
  /\ index = Len(archive) + 1 /\ outcome = "none"
  /\ IF root = <<>> THEN Refuse("Malformed") ELSE outcome' = "ok"
  /\ UNCHANGED <<zipVars, loopVars, treeVars>>

ExtractReturned ==
  /\ transfer \in Outcomes \ {"ok"} \/ outcome # "none"
  /\ UNCHANGED archiveVars

ExtractNext ==
  \/ Acquire \/ Measure \/ ReadDirectory \/ Screen \/ RefuseEntry
  \/ SkipOversized \/ MakeDirectory \/ WriteFile \/ DiskFails \/ EntryMissing
  \/ FinishExtraction \/ ExtractReturned

ExtractSpec == ExtractInit /\ [][ExtractNext]_archiveVars

-----------------------------------------------------------------------------
(* Properties                                                              *)

ExtractTypeOK ==
  /\ DownloadTypeOK
  /\ compressed \in 0 .. landed
  /\ archive \in Seq(Entry)
  /\ index \in 0 .. Len(archive) + 1
  /\ Cardinality(seen) < Max({index, 1})
  /\ total \in 0 .. ExpandedLimit + FileLimit
  /\ outcome \in Errors \cup {"none", "ok"}

FileEntries == {f \in ToSet(archive) : ~f.dir}

Kept == {i \in DOMAIN archive : ~archive[i].dir
                                  /\ archive[i].size <= FileLimit}

(* A successful extraction accounts for every file of the archive exactly  *)
(* once: it is in the tree with all its bytes, or named as skipped and     *)
(* absent from the tree.  Nothing is dropped, replaced or added.           *)
Complete ==
  outcome = "ok" =>
    /\ DOMAIN files = {f.path : f \in {g \in FileEntries :
                                         g.size <= FileLimit}}
    /\ \A f \in FileEntries :
         IF f.size > FileLimit
         THEN /\ [path |-> f.path, bytes |-> f.size] \in skipped
              /\ f.path \notin DOMAIN files
         ELSE files[f.path] = f.data
    /\ Cardinality(DOMAIN files) + Cardinality(skipped)
         = Cardinality({i \in DOMAIN archive : ~archive[i].dir})

(* The bytes of the tree.                                                  *)
Expanded == SumFunction(files)

(* Every file is within its limit, however skips and files alternate, and  *)
(* the sizes declared for the files are within the limits together.  What  *)
(* is written is not added up: it is within these limits if no entry holds *)
(* more than it declares, and otherwise bounded by the number of entries   *)
(* alone.                                                                  *)
Bounded ==
  outcome = "ok" =>
    /\ \A p \in DOMAIN files : files[p] <= FileLimit
    /\ ~TooMuch(MapThenSumSet(LAMBDA i : archive[i].size, Kept))
    /\ (\A i \in Kept : archive[i].data <= archive[i].size) => ~TooMuch(Expanded)
    /\ Expanded <= EntryLimit * FileLimit

(* The limits of the download held for the file that was extracted, and it *)
(* was extracted whole: an archive that was read before all of it was      *)
(* written never passes for a smaller repository.                          *)
WholeOrNothing == outcome = "ok" => transfer = "ok" /\ landed = sent

(* What was downloaded is what is extracted.                               *)
DownloadIsRead == opened # "truncated"

(* Everything lies below the one directory the worker is pointed at.       *)
SingleRoot ==
  outcome = "ok" =>
    \A p \in DOMAIN files \cup dirs \cup {x.path : x \in skipped} :
      <<Head(p)>> = root

(* What an extraction that succeeds leaves is the archive: whole, complete, *)
(* under one root, each file within the limit of a file and all of them as  *)
(* far within the limits as their declared sizes are true (download,        *)
(* extract_zip).                                                           *)
ExtractionSound ==
  ExtractTypeOK /\ WholeOrNothing /\ Complete /\ Bounded /\ SingleRoot

-----------------------------------------------------------------------------
(* What the repository says of the extraction and the code does not keep   *)

(* A tree whose bytes together exceed the limits is an error and not an    *)
(* extraction: "aggregate caps stay hard errors" (the comment on           *)
(* Extraction, archive.rs).                                                *)
AggregateCapsHold == outcome = "ok" => ~TooMuch(Expanded)
=============================================================================
