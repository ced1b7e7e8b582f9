--------------------------- MODULE CloneDetection ---------------------------
(* Repeated stretches of normalized tokens (src/src/duplicates.rs).         *)
(*                                                                          *)
(* A parsed file is a tree: a node has a kind, its children, and as a leaf  *)
(* the lines it stands on and its text, "" when that is blank.  Files come  *)
(* sorted by path, so that a file is known by its index.  The config says   *)
(* how many tokens and lines a clone has at least and how many groups are   *)
(* shown.                                                                   *)
EXTENDS Integers, Sequences, FiniteSets, FiniteSetsExt, SequencesExt, Functions, Ordering

CONSTANTS
  HashBase,   \* HASH_BASE
  HashRange,  \* the hashes are numbers below it: 2^64 in the code
  TextHash(_) \* stable_hash

ASSUME HashAssumption == HashBase \in Nat /\ HashRange \in Nat \ {0}

CloneConfigError(config) ==
  IF config.minTokens = 0 THEN "InvalidMinTokens"
  ELSE IF config.minLines = 0 THEN "InvalidMinLines"
  ELSE IF config.maxGroups = 0 THEN "InvalidMaxGroups" ELSE "ok"

-----------------------------------------------------------------------------
(* Tokens.                                                                  *)

Comments      == {"comment", "line_comment", "block_comment"}
AtomicStrings == {"string", "string_literal", "raw_string_literal", "interpreted_string_literal"}
AtomicChars   == {"char_literal", "character_literal"}
AtomicRegexes == {"regex", "regex_literal"}
Identifiers   == {"identifier", "type_identifier", "field_identifier", "property_name"}
Strings       == {"string_content", "template_chars"}
Numbers       == {"integer_literal", "float_literal", "number"}
Booleans      == {"true", "false", "boolean"}
Nulls         == {"null", "none", "nil"}
Literals      == {"rune_literal", "null_literal"}  \* what else ends with _literal

(* What stands for the text of a leaf, the kind for a literal of none of    *)
(* the common kinds; keywords and operators keep theirs.                    *)
NormalizeLeaf(node) ==
  CASE node.kind \in Identifiers               -> "<identifier>"
    [] node.kind \in AtomicStrings \cup Strings -> "<string>"
    [] node.kind \in Numbers                   -> "<number>"
    [] node.kind \in AtomicChars               -> "<character>"
    [] node.kind \in Booleans                  -> "<boolean>"
    [] node.kind \in Nulls                     -> "<null>"
    [] node.kind \in AtomicRegexes             -> "<regex>"
    [] node.kind \in Literals                  -> node.kind
    [] OTHER                                   -> node.text

(* Literals are one token whatever is inside; comments and blanks are none. *)
RECURSIVE CollectLeaves(_)
CollectLeaves(node) ==
  LET token == [normalized |-> NormalizeLeaf(node),
                startLine |-> node.startLine, endLine |-> node.endLine]
  IN  IF node.kind \in Comments THEN <<>>
      ELSE IF node.kind \in AtomicStrings \cup AtomicChars \cup AtomicRegexes THEN <<token>>
      ELSE IF node.children # <<>>
        THEN FoldLeft(LAMBDA out, child : out \o CollectLeaves(child), <<>>, node.children)
      ELSE IF node.text = "" THEN <<>> ELSE <<token>>

TokenFileOf(file) ==
  [path |-> file.path, language |-> file.language, tokens |-> CollectLeaves(file.tree)]

-----------------------------------------------------------------------------
(* Candidate pairs.  Positions count from 0, and a span is a triple of a    *)
(* file, a start and an end that is not part of it.                         *)

NormalizedAt(files, f, i) == files[f].tokens[i + 1].normalized

EqualTokens(files, f, i, g, j, n) ==
  \A k \in 0..(n - 1) : NormalizedAt(files, f, i + k) = NormalizedAt(files, g, j + k)

(* The hash of the first window is computed, that of each later one follows *)
(* from the one before.                                                     *)
RollingHashes_StalePower(tokens, width) ==
  LET value == [i \in 1..Len(tokens) |-> TextHash(tokens[i].normalized)]
      power == FoldLeft(LAMBDA p, i : (p * HashBase) % HashRange, 1, [i \in 1..width |-> i])
      first == FoldLeft(LAMBDA h, i : (h * HashBase + value[i]) % HashRange, 0,
                        [i \in 1..width |-> i])
  IN  FoldLeft(LAMBDA out, i :
                 Append(out, ((Last(out) - value[i - width] * power) * HashBase + value[i])
                               % HashRange),
               <<first>>, [i \in 1..(Len(tokens) - width) |-> i + width])

RollingHashes(tokens, width) ==
  LET value == [i \in 1..Len(tokens) |-> TextHash(tokens[i].normalized)]
      power == FoldLeft(LAMBDA p, i : (p * HashBase) % HashRange, 1, [i \in 1..(width - 1) |-> i])
      first == FoldLeft(LAMBDA h, i : (h * HashBase + value[i]) % HashRange, 0,
                        [i \in 1..width |-> i])
  IN  FoldLeft(LAMBDA out, i :
                 Append(out, ((Last(out) - value[i - width] * power) * HashBase + value[i])
                               % HashRange),
               <<first>>, [i \in 1..(Len(tokens) - width) |-> i + width])

SpanLines(files, s) ==
  LET first == files[s[1]].tokens[s[2] + 1].startLine
      last == files[s[1]].tokens[s[3]].endLine
  IN  (IF last > first THEN last - first ELSE 0) + 1

(* Windows of one language with one hash, the earlier of the two first.     *)
WindowPairs(files, config) ==
  LET eligible == {f \in DOMAIN files : Len(files[f].tokens) >= config.minTokens}
      windows == UNION {LET h == RollingHashes(files[f].tokens, config.minTokens)
                        IN  {<<f, i - 1, files[f].language, h[i]>> : i \in DOMAIN h} :
                          f \in eligible}
  IN  {p \in windows \X windows :
         /\ p[1][1] < p[2][1] \/ (p[1][1] = p[2][1] /\ p[1][2] < p[2][2])
         /\ p[1][3] = p[2][3] /\ p[1][4] = p[2][4]}

(* Two equal windows are extended as far as their files agree.  In one file *)
(* the two may not overlap: they are cut to the distance between them, and  *)
(* are no clone when that is less than a window.                            *)
Extended(files, config, f, i, g, j) ==
  LET back == CHOOSE b \in 0..i :
                /\ b <= j /\ EqualTokens(files, f, i - b, g, j - b, b)
                /\ \/ b = i \/ b = j
                   \/ NormalizedAt(files, f, i - b - 1) # NormalizedAt(files, g, j - b - 1)
      room == Min({Len(files[f].tokens) - i, Len(files[g].tokens) - j})
      ahead == CHOOSE a \in config.minTokens..room :
                 /\ EqualTokens(files, f, i, g, j, a)
                 /\ a = room \/ NormalizedAt(files, f, i + a) # NormalizedAt(files, g, j + a)
      long == IF f = g THEN Min({back + ahead, j - i}) ELSE back + ahead
  IN  IF f = g /\ j - i < config.minTokens THEN {}
      ELSE {<< <<f, i - back, i - back + long>>, <<g, j - back, j - back + long>> >>}

Candidates(files, config) ==
  LET equal == {p \in WindowPairs(files, config) :
                  EqualTokens(files, p[1][1], p[1][2], p[2][1], p[2][2], config.minTokens)}
  IN  {c \in UNION {Extended(files, config, p[1][1], p[1][2], p[2][1], p[2][2]) : p \in equal} :
         SpanLines(files, c[1]) >= config.minLines /\ SpanLines(files, c[2]) >= config.minLines}

-----------------------------------------------------------------------------
(* Groups.                                                                  *)

SpanBefore(a, b) ==
  \/ a[1] < b[1]
  \/ a[1] = b[1] /\ a[2] < b[2]
  \/ a[1] = b[1] /\ a[2] = b[2] /\ a[3] < b[3]

RangesOverlap(a, b) == a[2] < b[3] /\ b[2] < a[3]

SuppressOverlapping(spans) ==
  FoldLeft(LAMBDA kept, s :
             IF \E e \in kept : e[1] = s[1] /\ RangesOverlap(e, s) THEN kept ELSE kept \cup {s},
           {}, InOrder(spans, SpanBefore))

Content(files, s) ==
  <<files[s[1]].language, [k \in 1..(s[3] - s[2]) |-> NormalizedAt(files, s[1], s[2] + k - 1)]>>

RawGroups(files, config) ==
  LET found == UNION {{c[1], c[2]} : c \in Candidates(files, config)}
      Group(spans) == [spans |-> spans,
                       tokens |-> (CHOOSE s \in spans : TRUE)[3] - (CHOOSE s \in spans : TRUE)[2],
                       lines |-> Max({SpanLines(files, s) : s \in spans})]
      contents == {Content(files, s) : s \in found}
      apart == {SuppressOverlapping({s \in found : Content(files, s) = c}) : c \in contents}
  IN  {Group(spans) : spans \in {k \in apart : Cardinality(k) >= 2}}

(* The digest decides between groups that are otherwise equal: any order    *)
(* will do, here the one of their first spans.                              *)
FirstSpan(g) == CHOOSE s \in g.spans : \A t \in g.spans : s = t \/ SpanBefore(s, t)

Subsumes(outer, g) ==
  \A s \in g.spans : \E o \in outer.spans : o[1] = s[1] /\ o[2] <= s[2] /\ o[3] >= s[3]

SuppressSubsumed(groups) ==
  FoldLeft(LAMBDA kept, g : IF \E e \in kept : Subsumes(e, g) THEN kept ELSE kept \cup {g},
           {}, InOrder(groups, LAMBDA a, b : \/ a.tokens > b.tokens
                                             \/ a.tokens = b.tokens
                                                  /\ SpanBefore(FirstSpan(a), FirstSpan(b))))

FindGroups(files, config) == SuppressSubsumed(RawGroups(files, config))

Mass(g) == g.tokens * Cardinality(g.spans)

(* Most duplicated tokens first.                                            *)
SeverityBefore(a, b) ==
  \/ Mass(a) > Mass(b)
  \/ Mass(a) = Mass(b) /\ SpanBefore(FirstSpan(a), FirstSpan(b))

-----------------------------------------------------------------------------
(* Totals and pairs of files, of the groups shown.                          *)

(* Ranges that touch are one; pairs of a start and an end, in order.        *)
UnionMass(ranges) ==
  LET sorted == InOrder(ranges, LAMBDA a, b : a[1] < b[1] \/ (a[1] = b[1] /\ a[2] < b[2]))
      Merge(open, r) ==
        IF r[1] <= open.close THEN [open EXCEPT !.close = Max({@, r[2]})]
        ELSE [open |-> r[1], close |-> r[2], total |-> open.total + open.close - open.open]
      end == FoldLeft(Merge, [open |-> sorted[1][1], close |-> sorted[1][2], total |-> 0],
                      Tail(sorted))
  IN  end.total + end.close - end.open

Totals(files, groups) ==
  LET spans == UNION {g.spans : g \in groups}
      in == {s[1] : s \in spans}
      MassOf(Range2(_)) ==
        MapThenSumSet(LAMBDA f : UnionMass({Range2(s) : s \in {x \in spans : x[1] = f}}), in)
  IN  [cloneGroups |-> Cardinality(groups),
       cloneOccurrences |-> MapThenSumSet(LAMBDA g : Cardinality(g.spans), groups),
       duplicatedTokens |-> MassOf(LAMBDA s : <<s[2], s[3]>>),
       duplicatedLines |-> MassOf(LAMBDA s : <<files[s[1]].tokens[s[2] + 1].startLine,
                                               files[s[1]].tokens[s[3]].endLine + 1>>)]

(* A file is paired with itself when a group has it twice.                  *)
PairsOf(g) ==
  LET in == {s[1] : s \in g.spans}
  IN  {p \in in \X in :
         \/ p[1] < p[2]
         \/ p[1] = p[2] /\ Cardinality({s \in g.spans : s[1] = p[1]}) >= 2}

FilePairs(groups) ==
  {LET shared == {g \in groups : p \in PairsOf(g)}
   IN  [left |-> p[1], right |-> p[2], sharedGroups |-> Cardinality(shared),
        sharedTokens |-> MapThenSumSet(LAMBDA g : g.tokens, shared)] :
     p \in UNION {PairsOf(g) : g \in groups}}

AnalyzeDuplicates(trees, config) ==
  IF CloneConfigError(config) # "ok" THEN [error |-> CloneConfigError(config)]
  ELSE LET Report(files, found, shown) ==
             [error |-> "ok", files |-> files, groups |-> shown,
              groupsFound |-> Cardinality(found),
              groupsCensored |-> Cardinality(found) > config.maxGroups,
              consideredTokens |-> FoldLeft(LAMBDA n, f : n + Len(f.tokens), 0, files),
              totals |-> Totals(files, shown), filePairs |-> FilePairs(shown)]
           Shown(files, found) ==
             Report(files, found,
                    {g \in found : Cardinality({h \in found : SeverityBefore(h, g)})
                                     < config.maxGroups})
           Found(files) == Shown(files, FindGroups(files, config))
       IN  Found([f \in DOMAIN trees |-> TokenFileOf(trees[f])])

-----------------------------------------------------------------------------
(* Every group shown repeats one text without overlap, on as many tokens    *)
(* and lines as was asked for, and no group says what a longer one says     *)
(* already; what the totals count is each token and line once, so that the  *)
(* share of duplicated tokens is one at most; and as long as no group is    *)
(* left out, two files that share a window of one language are shown as a   *)
(* pair, and a file that repeats one is shown (find_groups, totals).        *)
ReportSound(trees, config, r) ==
  LET Covered(f) == UNION {s[2]..(s[3] - 1) : s \in {x \in UNION {g.spans : g \in r.groups} :
                                                       x[1] = f}}
      LinesOf(f) == UNION {r.files[f].tokens[s[2] + 1].startLine..r.files[f].tokens[s[3]].endLine :
                             s \in {x \in UNION {g.spans : g \in r.groups} : x[1] = f}}
      Window(f, i) == i >= 0 /\ i + config.minTokens <= Len(r.files[f].tokens)
  IN  r.error = "ok" =>
      /\ \A g \in r.groups :
           /\ Cardinality(g.spans) >= 2 /\ g.tokens >= config.minTokens
           /\ Cardinality({Content(r.files, s) : s \in g.spans}) = 1
           /\ \A s, t \in g.spans :
                SpanLines(r.files, s) >= config.minLines
                  /\ (s # t /\ s[1] = t[1] => ~RangesOverlap(s, t))
           /\ \A h \in r.groups \ {g} : ~Subsumes(h, g)
      /\ r.totals.duplicatedTokens
           = MapThenSumSet(LAMBDA f : Cardinality(Covered(f)), DOMAIN trees)
      /\ r.totals.duplicatedLines
           = MapThenSumSet(LAMBDA f : Cardinality(LinesOf(f)), DOMAIN trees)
      /\ r.totals.duplicatedTokens <= r.consideredTokens
      /\ config.minLines = 1 /\ ~r.groupsCensored =>
           \A f, g \in DOMAIN trees :
             \A i \in 0..Len(r.files[f].tokens), j \in 0..Len(r.files[g].tokens) :
               /\ f < g \/ (f = g /\ i + config.minTokens <= j)
               /\ r.files[f].language = r.files[g].language
               /\ Window(f, i) /\ Window(g, j)
               /\ EqualTokens(r.files, f, i, g, j, config.minTokens)
               => \E p \in r.filePairs :
                    IF f < g THEN p.left = f /\ p.right = g ELSE f \in {p.left, p.right}

ClonesSound(trees, config) == ReportSound(trees, config, AnalyzeDuplicates(trees, config))
=============================================================================
