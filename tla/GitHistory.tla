----------------------------- MODULE GitHistory -----------------------------
(* What is read from git's output: the listing of a tree (parse_ls_tree)    *)
(* and the log of changes (parse_git_log, scan_file_history,                *)
(* src/src/repo.rs), and what git prints.                                   *)
(*                                                                          *)
(* Text is a sequence of bytes.  A word with a fixed spelling - an object   *)
(* type, a mode, an object id - is one byte.                                *)
EXTENDS Integers, Sequences, FiniteSets, SequencesExt

CONSTANTS
  LargestCount   \* the largest count the machine holds, u64::MAX

ASSUME CountAssumption == LargestCount \in Nat

Nul == 0
Tab == 9
Newline == 10
Return == 13
Separator == 30
Space == 32
Quote == 34
Dash == 45
Backslash == 92
BlobType == 98
CommitType == 99
TreeType == 116
RegularMode == 82     \* 100644
ExecutableMode == 88  \* 100755
LinkMode == 76        \* 120000
ModuleMode == 77      \* 160000
Modes == {RegularMode, ExecutableMode, LinkMode, ModuleMode}
Whitespace == {Tab, Newline, 12, Return, Space}
ObjectIds == 65..70

Digits == 48..57
OctalDigits == 48..55
HighBytes == 128..255

-----------------------------------------------------------------------------
(* Splitting.                                                               *)

Split(bytes, by) ==
  LET cuts == <<0>> \o SelectSeq([i \in DOMAIN bytes |-> i], LAMBDA i : bytes[i] = by)
                    \o <<Len(bytes) + 1>>
  IN  [k \in 1..(Len(cuts) - 1) |-> SubSeq(bytes, cuts[k] + 1, cuts[k + 1] - 1)]

(* Everything before and everything after the first occurrence.             *)
SplitOnce(bytes, by) ==
  LET i == SelectInSeq(bytes, LAMBDA b : b = by)
  IN  IF i = 0 THEN <<>> ELSE <<SubSeq(bytes, 1, i - 1), SubSeq(bytes, i + 1, Len(bytes))>>

Blank(bytes) == Range(bytes) \subseteq Whitespace

(* A decimal number the machine can hold, or NaN.                           *)
NaN == -1
Decimal(bytes) ==
  LET value == FoldLeft(LAMBDA n, d : IF n > LargestCount THEN n ELSE 10 * n + (d - 48), 0, bytes)
  IN  IF bytes = <<>> \/ ~(Range(bytes) \subseteq Digits) \/ value > LargestCount
      THEN NaN ELSE value

-----------------------------------------------------------------------------
(* git's quoting of a path, with core.quotePath as it is by default:        *)
(* control bytes, quotes, backslashes and bytes that are not ASCII are      *)
(* escaped, and a path with an escape is quoted.                            *)

Controls == [c \in {97, 98, 116, 110, 118, 102, 114} |->
               CASE c = 97 -> 7 [] c = 98 -> 8 [] c = 116 -> 9 [] c = 110 -> 10
                 [] c = 118 -> 11 [] c = 102 -> 12 [] c = 114 -> 13]

NeedsEscape(b) == b < 32 \/ b > 126 \/ b \in {Quote, Backslash}

Escape(b) ==
  IF b \in {Quote, Backslash} THEN <<Backslash, b>>
  ELSE IF b \in Range(Controls) THEN <<Backslash, CHOOSE c \in DOMAIN Controls : Controls[c] = b>>
  ELSE <<Backslash, 48 + (b \div 64), 48 + ((b \div 8) % 8), 48 + (b % 8)>>

GitQuoted(path) ==
  IF \A i \in DOMAIN path : ~NeedsEscape(path[i]) THEN path
  ELSE <<Quote>>
         \o FlattenSeq([i \in DOMAIN path |->
              IF NeedsEscape(path[i]) THEN Escape(path[i]) ELSE <<path[i]>>])
         \o <<Quote>>

(* Reading an octal escape to the first byte that is not an octal digit,    *)
(* however far, takes digits that belong to the name.                       *)
OctalRun_Greedy(body, i) ==
  LET Run(k) == i + k - 1 <= Len(body) /\ \A j \in i..(i + k - 1) : body[j] \in OctalDigits
  IN  CHOOSE k \in 1..Len(body) : Run(k) /\ ~Run(k + 1)

(* How many octal digits there are at i, at most three.                     *)
OctalRun(body, i) ==
  LET Run(k) == i + k - 1 <= Len(body) /\ \A j \in i..(i + k - 1) : body[j] \in OctalDigits
  IN  CHOOSE k \in 1..3 : Run(k) /\ (k = 3 \/ ~Run(k + 1))

(* The name a quoted path stands for; <<>>, which is no name, if it stands  *)
(* for none.  Bad is what an escape no byte has stands for.                 *)
Bad == 256

DecodeGitQuotedPath(path) ==
  LET body == SubSeq(path, 2, Len(path) - 1)
      Octal(i, k) == FoldLeft(LAMBDA n, d : 8 * n + (d - 48), 0, SubSeq(body, i, i + k - 1))
      Whole(name) == IF \E i \in DOMAIN name : name[i] >= Bad THEN <<>> ELSE name
      From[i \in 1..(Len(body) + 1)] ==
        IF i > Len(body) THEN <<>>
        ELSE IF body[i] # Backslash THEN <<body[i]>> \o From[i + 1]
        ELSE IF i = Len(body) THEN <<Bad>>
        ELSE LET e == body[i + 1]
             IN  CASE e \in {Backslash, Quote} -> <<e>> \o From[i + 2]
                   [] e \in DOMAIN Controls    -> <<Controls[e]>> \o From[i + 2]
                   [] e \in OctalDigits        ->
                        LET k == OctalRun(body, i + 1)
                        IN  <<Octal(i + 1, k)>> \o From[i + 1 + k]
                   [] OTHER                    -> <<Bad>>
  IN  IF path[1] # Quote THEN path
      ELSE IF Len(path) < 2 \/ Last(path) # Quote THEN <<>>
      ELSE Whole(From[1])

-----------------------------------------------------------------------------
(* The tree, as git ls-tree -z prints it: names are never quoted.           *)

Malformed == [malformed |-> TRUE]

TreeRow(record) ==
  LET Fields(text) ==
        SelectSeq(Split([i \in DOMAIN text |-> IF text[i] \in Whitespace THEN Space ELSE text[i]],
                        Space),
                  LAMBDA f : f # <<>>)
      Row(path, fields, size) ==
        IF \/ path = <<>>
           \/ fields[1] \notin {<<m>> : m \in Modes}
           \/ ~(Range(fields[3]) \subseteq ObjectIds)
           \/ fields[2] \notin {<<BlobType>>, <<CommitType>>, <<TreeType>>}
           \/ size = NaN /\ (fields[2] = <<BlobType>> \/ fields[4] # <<Dash>>)
        THEN Malformed
        ELSE [path |-> path, size |-> size, mode |-> fields[1],
              oid |-> fields[3], blob |-> fields[2] = <<BlobType>>]
      Named(path, fields) ==
        IF Len(fields) # 4 THEN Malformed ELSE Row(path, fields, Decimal(fields[4]))
      Halves(halves) == IF halves = <<>> THEN Malformed ELSE Named(halves[2], Fields(halves[1]))
  IN  Halves(SplitOnce(record, Tab))

(* One malformed record refuses the listing; other objects than blobs are   *)
(* left out.                                                                *)
ParseLsTree(bytes) ==
  LET Rows(records) == [i \in DOMAIN records |-> IF records[i] = <<>> THEN [blob |-> FALSE]
                                                 ELSE TreeRow(records[i])]
      Blobs(rows) == IF Malformed \in Range(rows) THEN Malformed
                     ELSE [entries |-> SelectSeq(rows, LAMBDA r : r.blob)]
  IN  Blobs(Rows(Split(bytes, Nul)))

(* Links have blobs of their own and are no files.                          *)
CommittedRegularFiles(entries) ==
  SelectSeq(entries, LAMBDA e : e.mode \in {<<RegularMode>>, <<ExecutableMode>>})

-----------------------------------------------------------------------------
(* The log, as git log --numstat prints it: names are quoted.               *)

(* A row of a commit: the lines added and deleted, both dashes for a file   *)
(* that is not text.                                                        *)
NumstatRow(line) ==
  LET Row(path, binary, counts) ==
        IF path = <<>> THEN Malformed
        ELSE IF binary THEN [path |-> path, mass |-> 0, binary |-> TRUE]
        ELSE IF NaN \in Range(counts) \/ counts[1] + counts[2] > LargestCount THEN Malformed
        ELSE [path |-> path, mass |-> counts[1] + counts[2], binary |-> FALSE]
      Rest(added, rest) ==
        IF rest = <<>> \/ rest[2] = <<>> THEN Malformed
        ELSE Row(DecodeGitQuotedPath(rest[2]), added = <<Dash>> /\ rest[1] = <<Dash>>,
                 <<Decimal(added), Decimal(rest[1])>>)
      Halves(halves) == IF halves = <<>> THEN Malformed
                        ELSE Rest(halves[1], SplitOnce(halves[2], Tab))
  IN  Halves(SplitOnce(line, Tab))

(* Rows of one path - a name quoted in two ways - are one file.             *)
FilesOfRows(rows) ==
  LET Of(p) == {i \in DOMAIN rows : rows[i].path = p}
  IN  [p \in {r.path : r \in Range(rows)} |->
         [line_mass |-> FoldFunctionOnSet(LAMBDA r, n : r.mass + n, 0, rows, Of(p)),
          text |-> \E i \in Of(p) : ~rows[i].binary,
          binary |-> \E i \in Of(p) : rows[i].binary]]

CommitSection(section) ==
  LET Chomp(l) == IF l # <<>> /\ Last(l) = Return THEN Front(l) ELSE l
      Rows(lines) ==
        LET chomped == SelectSeq([i \in DOMAIN lines |-> Chomp(lines[i])], LAMBDA l : l # <<>>)
        IN  [i \in DOMAIN chomped |-> NumstatRow(chomped[i])]
      Commit(time, files) ==
        IF \E p \in DOMAIN files : files[p].line_mass > LargestCount THEN Malformed
        ELSE [committer_unix_seconds |-> time, files |-> files]
      Checked(oid, time, rows) ==
        IF \/ oid = <<>> \/ ~(Range(oid) \subseteq ObjectIds)
           \/ time = NaN \/ Malformed \in Range(rows)
        THEN Malformed ELSE Commit(time, FilesOfRows(rows))
      Body(oid, body) ==
        IF body = <<>> THEN Malformed
        ELSE Checked(oid, Decimal(body[1]), Rows(Split(body[2], Newline)))
      Header(header) == IF header = <<>> THEN Malformed
                        ELSE Body(header[1], SplitOnce(header[2], Nul))
  IN  Header(SplitOnce(section, Nul))

(* An empty log is an error.                                                *)
ParseGitLog(bytes) ==
  LET Commits(commits) == IF Malformed \in Range(commits) THEN Malformed
                          ELSE [commits |-> commits]
      Filled(filled) == IF filled = <<>> THEN Malformed
                        ELSE Commits([i \in DOMAIN filled |-> CommitSection(filled[i])])
      Sections(sections) == IF ~Blank(sections[1]) THEN Malformed
                            ELSE Filled(SelectSeq(Tail(sections), LAMBDA s : ~Blank(s)))
  IN  Sections(Split(bytes, Separator))

(* One more commit is asked for than is wanted, so that a history that goes *)
(* on is told from one that ends.  gitLog[n] is what git prints of n        *)
(* commits.                                                                 *)
Limited(parsed, requested) ==
  IF parsed = Malformed THEN Malformed
  ELSE [commits |-> SubSeq(parsed.commits, 1, IF requested < Len(parsed.commits)
                                              THEN requested ELSE Len(parsed.commits)),
        truncated |-> Len(parsed.commits) > requested]

ScanFileHistory(gitLog, requested) ==
  Limited(ParseGitLog(gitLog[requested + 1]), requested)

-----------------------------------------------------------------------------
(* git's side.  A history is a sequence of commits, newest first, each with *)
(* its time and a sequence of changes.                                      *)

PrintedNumber(n) ==
  LET Text[k \in 0..n] == IF k < 10 THEN <<48 + k>> ELSE Text[k \div 10] \o <<48 + (k % 10)>>
  IN  Text[n]

PrintedChange(c) ==
  (IF c.binary THEN <<Dash, Tab, Dash>>
   ELSE PrintedNumber(c.added) \o <<Tab>> \o PrintedNumber(c.deleted))
    \o <<Tab>> \o GitQuoted(c.path) \o <<Newline>>

PrintedCommit(c) ==
  <<Separator, 65, Nul>> \o PrintedNumber(c.time) \o <<Nul, Newline>>
    \o (IF c.changes = <<>> THEN <<>>
        ELSE <<Newline>> \o FlattenSeq([i \in DOMAIN c.changes |-> PrintedChange(c.changes[i])]))

PrintedLog(history, n) ==
  FlattenSeq([i \in 1..(IF n < Len(history) THEN n ELSE Len(history)) |->
                PrintedCommit(history[i])])

PrintedTree(files) ==
  FlattenSeq([i \in DOMAIN files |->
    <<files[i].mode, Space, files[i].type, Space, 66, Space>>
      \o (IF files[i].type = BlobType THEN PrintedNumber(files[i].size) ELSE <<Dash>>)
      \o <<Tab>> \o files[i].path \o <<Nul>>])

-----------------------------------------------------------------------------
(* What is read is what git meant.  Whatever bytes a name is made of, the   *)
(* log and the tree give it the same name, so that a change finds its file; *)
(* no name is taken for another; a commit is one commit with each of its    *)
(* files; and a window is called truncated exactly when there is more.      *)
ReadAs(history, files, requested, scan, tree) ==
  LET Size(c) == c.added + c.deleted
      wanted == IF requested < Len(history) THEN requested ELSE Len(history)
      expected == [i \in 1..wanted |->
        [committer_unix_seconds |-> history[i].time,
         files |-> [p \in {c.path : c \in Range(history[i].changes)} |->
           LET c == CHOOSE x \in Range(history[i].changes) : x.path = p
           IN  [line_mass |-> IF c.binary THEN 0 ELSE Size(c),
                text |-> ~c.binary, binary |-> c.binary]]]]
      overflows == \E i \in 1..(IF requested + 1 < Len(history) THEN requested + 1
                                ELSE Len(history)) : \E c \in Range(history[i].changes) :
                      ~c.binary /\ Size(c) > LargestCount
  IN  /\ IF history = <<>> \/ overflows THEN scan = Malformed
         ELSE scan = [commits |-> expected, truncated |-> Len(history) > requested]
      /\ [i \in DOMAIN tree.entries |-> tree.entries[i].path]
           = [i \in DOMAIN SelectSeq(files, LAMBDA f : f.type = BlobType) |->
                SelectSeq(files, LAMBDA f : f.type = BlobType)[i].path]
      /\ \A i \in DOMAIN tree.entries : \A h \in DOMAIN history :
           tree.entries[i].path \in {c.path : c \in Range(history[h].changes)}
             /\ h <= wanted /\ scan # Malformed
             => tree.entries[i].path \in DOMAIN scan.commits[h].files

HistoryRead(history, files, requested) ==
  ReadAs(history, files, requested,
         ScanFileHistory([n \in Nat |-> PrintedLog(history, n)], requested),
         ParseLsTree(PrintedTree(files)))
=============================================================================
