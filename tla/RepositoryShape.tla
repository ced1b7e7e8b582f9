--------------------------- MODULE RepositoryShape ---------------------------
(* The shape of a committed tree and of its changes (build_static_shape,    *)
(* build_change_shape, src/src/repo.rs), and the kinds of paths they are    *)
(* told by (classify_path).                                                 *)
(*                                                                          *)
(* A path has the names of its directories and a file name: words, what     *)
(* joins them ("Camel" when nothing does and each begins with a capital),   *)
(* and the parts after dots.                                                *)
EXTENDS Integers, Sequences, FiniteSets, SequencesExt, Ordering

-----------------------------------------------------------------------------
(* Kinds of paths.  Names count without regard to case, but for the         *)
(* capitals that begin a word.                                              *)

GeneratedSegments ==
  {"vendor", "vendors", "third_party", "third-party", "node_modules", "generated",
   "gen", "build", "dist", "target", "out", ".next"}
TestSegments == {"test", "tests", "testing", "spec", "specs", "__tests__"}
DocumentationSegments == {"doc", "docs", "documentation"}
DocumentationStems == {"readme", "changelog", "contributing", "license", "licence"}
DocumentationNames == DocumentationStems \cup {"changes", "authors"}
DocumentationExtensions == {"md", "markdown", "rst", "adoc", "asciidoc"}
ConfigurationExtensions ==
  {"json", "yaml", "yml", "toml", "xml", "ini", "cfg", "conf", "properties", "lock", "gradle"}
ConfigurationNames ==
  {"makefile", "gnumakefile", "dockerfile", "go.mod", "go.sum", ".gitignore",
   ".gitattributes", ".editorconfig", ".npmrc", ".prettierrc", ".eslintrc"}
SourceExtensions ==
  {"rs", "go", "py", "pyw", "js", "jsx", "mjs", "cjs", "ts", "tsx", "java", "c", "h", "cc",
   "cpp", "cxx", "hh", "hpp", "hxx", "cs", "rb", "swift", "kt", "kts", "sh", "bash", "zsh",
   "fish"}

(* A name of one word without dots, as a segment; a name that has a         *)
(* spelling of its own in the lists carries it.                             *)
Spelled(name) == name.whole

(* What follows the last dot, unless it is the first character.             *)
ExtensionOf(name) ==
  IF name.exts = <<>> \/ (Len(name.exts) = 1 /\ name.words = <<>>) THEN "" ELSE Last(name.exts)

(* What a dot precedes and follows.                                         *)
Inner(name) == {name.exts[i] : i \in 1..(Len(name.exts) - 1)}

IsGeneratedFilename(name) ==
  \/ Len(name.exts) >= 2 /\ name.exts[Len(name.exts) - 1] = "min"
       /\ Last(name.exts) \in {"js", "css"}
  \/ Inner(name) \cap {"generated", "g", "pb"} # {}
  \/ name.exts # <<>> /\ name.join = "_" /\ Len(name.words) > 1 /\ Last(name.words) = "generated"

IsTestFilename(name) ==
  LET plain == Len(name.exts) <= 1 /\ name.words # <<>>
      last == Last(name.words)
  IN  \/ name.join = "_" /\ Len(name.words) > 1 /\ Head(name.words) = "test"
      \/ plain /\ Len(name.words) = 1 /\ last \in {"test", "tests", "spec", "specs"}
      \/ plain /\ Len(name.words) > 1 /\ name.join = "_" /\ last \in {"test", "tests", "spec"}
      \/ plain /\ Len(name.words) > 1 /\ name.join = "-" /\ last \in {"test", "spec"}
      \/ plain /\ name.join = "Camel" /\ last \in {"test", "tests", "spec"}
      \/ Len(name.exts) >= 2 /\ name.exts[Len(name.exts) - 1] \in {"test", "spec"}

IsDocumentationFilename(name) ==
  \/ ExtensionOf(name) \in DocumentationExtensions
  \/ Spelled(name) \in DocumentationNames
  \/ name.exts # <<>> /\ Len(name.words) = 1 /\ Head(name.words) \in DocumentationStems

IsConfigurationFilename(name) ==
  ExtensionOf(name) \in ConfigurationExtensions \/ Spelled(name) \in ConfigurationNames

Segments(path) == Range(path.dirs) \cup {Spelled(path.name)}

(* The first kind that fits.                                                *)
ClassifyPath(path) ==
  CASE Segments(path) \cap GeneratedSegments # {} \/ IsGeneratedFilename(path.name) -> "generated"
    [] OTHER ->
  CASE Segments(path) \cap TestSegments # {} \/ IsTestFilename(path.name) -> "test"
    [] OTHER ->
  CASE Segments(path) \cap DocumentationSegments # {}
         \/ IsDocumentationFilename(path.name) -> "documentation"
    [] OTHER ->
  CASE IsConfigurationFilename(path.name) -> "configuration"
    [] OTHER ->
  IF ExtensionOf(path.name) \in SourceExtensions THEN "source" ELSE "other"

Categories == {"source", "test", "documentation", "configuration", "generated", "other"}

TopLevelComponent(path) == IF path.dirs = <<>> THEN "." ELSE Head(path.dirs)

PathDepth(path) == Len(path.dirs) + 1

-----------------------------------------------------------------------------
(* Statistics of weights, given in ascending order.                         *)

RankOf(sorted, numerator, denominator) ==
  IF sorted = <<>> THEN {}
  ELSE {sorted[(Len(sorted) * numerator + denominator - 1) \div denominator]}

SumSeq(weights) == FoldSeq(+, 0, weights)

(* The heaviest tenth, at least one, of all.                                *)
TopDecileShare(sorted) ==
  LET n == Len(sorted)
      count == (n + 9) \div 10
      total == SumSeq(sorted)
  IN  IF total = 0 THEN {} ELSE {<<SumSeq(SubSeq(sorted, n - count + 1, n)), total>>}

(* Entropy and the number of equal weights that would have it: undefined    *)
(* without mass, even for one weight, and else between one weight and all   *)
(* the positive ones.                                                       *)
DistributionMetrics(weights) ==
  IF weights = <<>> THEN "Undefined"
  ELSE IF Len(weights) = 1 THEN "One"
  ELSE IF SumSeq(weights) = 0 THEN "Undefined" ELSE "Measured"

(* The values of f in ascending order, each as often as it occurs.          *)
Weights(f) ==
  LET keys == DOMAIN f
      value == [i \in 1..Cardinality(keys) |->
                  CHOOSE v \in {f[x] : x \in keys} :
                    /\ Cardinality({y \in keys : f[y] < v}) < i
                    /\ i <= Cardinality({y \in keys : f[y] <= v})]
  IN  value

-----------------------------------------------------------------------------
(* The tree: a size for each path.                                          *)

BuildStaticShape(size) ==
  LET Of(c) == {p \in DOMAIN size : ClassifyPath(p) = c}
      Bytes(S) == MapThenSumSet(LAMBDA p : size[p], S)
      source == Of("source")
      sizes == Weights([p \in source |-> size[p]])
      components == {TopLevelComponent(p) : p \in source}
      byComponent == [c \in components |-> Bytes({p \in source : TopLevelComponent(p) = c})]
  IN  [files |-> Cardinality(DOMAIN size), bytes |-> Bytes(DOMAIN size),
       category_files |-> [c \in Categories |-> Cardinality(Of(c))],
       category_bytes |-> [c \in Categories |-> Bytes(Of(c))],
       median |-> RankOf(sizes, 1, 2), p90 |-> RankOf(sizes, 9, 10),
       largest |-> IF source = {} THEN 0 ELSE Last(sizes),
       share |-> TopDecileShare(sizes),
       entropy |-> DistributionMetrics(sizes),
       components |-> DistributionMetrics(Weights(byComponent)),
       depth |-> IF size = <<>> THEN 0
                 ELSE CHOOSE d \in {PathDepth(p) : p \in DOMAIN size} :
                        \A p \in DOMAIN size : PathDepth(p) <= d]

-----------------------------------------------------------------------------
(* The changes: a sequence of commits, each with a mass for each of its     *)
(* files, and the set of those that changed as binary files.                *)

ChooseTwo(n) == (n * (n - 1)) \div 2

(* All pairs but those within a component.                                  *)
CrossPairs(files) ==
  ChooseTwo(Cardinality(files))
    - MapThenSumSet(LAMBDA c : ChooseTwo(Cardinality({p \in files : TopLevelComponent(p) = c})),
                    {TopLevelComponent(p) : p \in files})

BuildChangeShape(commits) ==
  LET Touched(i) == DOMAIN commits[i].mass
      Has(i, c) == \E p \in Touched(i) : ClassifyPath(p) = c
      Count(P(_)) == Cardinality({i \in DOMAIN commits : P(i)})
      changed == UNION {Touched(i) : i \in DOMAIN commits}
      mass == [p \in changed |->
                 MapThenSumSet(LAMBDA i : commits[i].mass[p],
                               {i \in DOMAIN commits : p \in Touched(i)})]
      hot == {p \in changed : mass[p] > 0}
      masses == Weights([p \in hot |-> mass[p]])
      counts == Weights([i \in DOMAIN commits |-> Cardinality(Touched(i))])
  IN  [binary |-> Count(LAMBDA i : commits[i].binary # {}),
       changed |-> Cardinality(changed),
       mass |-> SumSeq(masses),
       mean |-> <<SumSeq(counts), Len(commits)>>,
       median |-> RankOf(counts, 1, 2), p90 |-> RankOf(counts, 9, 10), max |-> Last(counts),
       entropy |-> DistributionMetrics(masses),
       share |-> TopDecileShare(masses),
       hotspot |-> IF hot = {} THEN 0 ELSE Last(masses),
       pairs |-> MapThenSumSet(LAMBDA i : ChooseTwo(Cardinality(Touched(i))), DOMAIN commits),
       cross |-> MapThenSumSet(LAMBDA i : CrossPairs(Touched(i)), DOMAIN commits),
       broad |-> Count(LAMBDA i : Cardinality({TopLevelComponent(p) : p \in Touched(i)}) >= 3),
       source |-> Count(LAMBDA i : Has(i, "source")),
       source_test |-> Count(LAMBDA i : Has(i, "source") /\ Has(i, "test")),
       source_documentation |-> Count(LAMBDA i : Has(i, "source") /\ Has(i, "documentation"))]

-----------------------------------------------------------------------------
(* The shapes say what they are named for: the categories divide the tree,  *)
(* a percentile has that share of the files at or below it, the pairs that  *)
(* cross are the pairs that cross, and no rate is above one.                *)
ShapesTrue(size, commits) ==
  LET Quantile(ranks, n, d, S, F(_)) ==
        \A v \in ranks :
          /\ d * Cardinality({x \in S : F(x) <= v}) >= n * Cardinality(S)
          /\ d * Cardinality({x \in S : F(x) < v}) < n * Cardinality(S)
      Shares(share) == \A r \in share : 0 < r[1] /\ r[1] <= r[2]
      Crossing(i) == {pair \in SUBSET DOMAIN commits[i].mass :
                        \E p, q \in pair : pair = {p, q}
                          /\ TopLevelComponent(p) # TopLevelComponent(q)}
      Breadth(i) == Cardinality(DOMAIN commits[i].mass)
      TreeTrue(static, source) ==
        /\ MapThenSumSet(LAMBDA c : static.category_files[c], Categories) = static.files
        /\ MapThenSumSet(LAMBDA c : static.category_bytes[c], Categories) = static.bytes
        /\ Quantile(static.median, 1, 2, source, LAMBDA p : size[p])
        /\ Quantile(static.p90, 9, 10, source, LAMBDA p : size[p])
        /\ Shares(static.share)
      ChangeTrue(change) ==
        /\ Shares(change.share)
        /\ Quantile(change.median, 1, 2, DOMAIN commits, Breadth)
        /\ Quantile(change.p90, 9, 10, DOMAIN commits, Breadth)
        /\ change.cross = MapThenSumSet(LAMBDA i : Cardinality(Crossing(i)), DOMAIN commits)
        /\ change.cross <= change.pairs
        /\ change.source_test <= change.source
        /\ change.source_documentation <= change.source
        /\ change.broad > 0 => change.cross > 0
        /\ (change.entropy = "Undefined") = (change.mass = 0)
  IN  /\ TreeTrue(BuildStaticShape(size), {p \in DOMAIN size : ClassifyPath(p) = "source"})
      /\ ChangeTrue(BuildChangeShape(commits))
=============================================================================
