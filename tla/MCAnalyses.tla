----------------------------- MODULE MCAnalyses -----------------------------
(* The analyses, each over a small set of its inputs: trees of files whose  *)
(* communities are searched step by step, and, computed at once, graphs of  *)
(* files, token files, manifests, pairs of runs, archived evaluations, and  *)
(* histories of a repository.                                               *)
EXTENDS DependencyGraph, Louvain, GraphCertificates, StructuralTwins, CloneDetection,
        ManifestUsage, RunComparison, BundleAudit, GitHistory, RepositoryShape,
        CochangeProfiles

(* Small trees of source files, analyzed as analyze_dependencies does: the  *)
(* edges, their statistics, the detection of communities step by step, and  *)
(* the layout that compares them to directories.                            *)
VARIABLES
  tree,    \* the files analyzed
  imports  \* the edges of the tree

treeVars == <<tree, imports, louvainVars>>

(* Six Rust files in three directories; the ones of "a" and "b" see files   *)
(* above them as well.                                                      *)
SourcePaths == << Dir(<<"src", "a">>) \o << <<"m", "rs">> >>,
            Dir(<<"src", "a">>) \o << <<"p", "rs">> >>,
            Dir(<<"src", "b">>) \o << <<"q", "rs">> >>,
            Dir(<<"src", "b">>) \o << <<"r", "rs">> >>,
            Dir(<<"src">>) \o << <<"s", "rs">> >>,
            << <<"t", "rs">> >> >>

Crates == <<<<"crate", "a", "m">>, <<"crate", "a", "p">>, <<"crate", "b", "q">>,
            <<"crate", "b", "r">>, <<"crate", "s">>, <<"super", "t">>>>

Use(line, segments, leaves, glob) ==
  [line |-> line, kind |-> "rust-use", hint |-> "RustUse", specifier |-> segments,
   segments |-> segments, leaves |-> leaves, glob |-> glob, object |-> FALSE]

(* The file f declares the files it uses, one of them by two names and one  *)
(* by a glob; every file declares itself and something from outside.        *)
FileUsing(n, f, used) ==
  [path |-> SourcePaths[f], language |-> "Rust",
   decls |-> [g \in 1..n |-> IF g \in used THEN Use(g, Crates[g], g % 4, g = 4)
                             ELSE Use(g, <<"std", "io">>, 1, FALSE)]
             \o <<Use(9, <<"self", "helper">>, 1, FALSE)>>]

TreeOf(n, pairs) == [f \in 1..n |-> FileUsing(n, f, Successors(pairs, f))]

(* All directed graphs on three files and all undirected ones on five, with *)
(* some of their edges in both directions, and two on six.                  *)
Digraphs(n) == SUBSET {p \in (1..n) \X (1..n) : p[1] # p[2]}

Oriented(n) ==
  {{p \in e \cup {<<q[2], q[1]>> : q \in e} :
      p[1] < p[2] \/ (p[1] + p[2]) % 3 = 0} :
     e \in SUBSET {p \in (1..n) \X (1..n) : p[1] < p[2]}}

SixFiles ==
  {{<<1, 2>>, <<2, 3>>, <<3, 1>>, <<3, 4>>, <<4, 5>>, <<5, 6>>, <<6, 4>>},
   {<<1, 2>>, <<2, 3>>, <<3, 4>>, <<4, 5>>, <<5, 6>>, <<6, 1>>},
   {<<1, 2>>, <<3, 4>>, <<5, 6>>, <<2, 3>>, <<4, 5>>}}

Trees == {TreeOf(3, g) : g \in Digraphs(3)} \cup {TreeOf(5, g) : g \in Oriented(5)}
           \cup {TreeOf(6, g) : g \in SixFiles}

AnalysisInit(trees) ==
  /\ tree \in trees
  /\ imports = Edges(tree)
  /\ LouvainInit(Files(tree), Undirected(imports))

AnalysisNext == LouvainNext /\ UNCHANGED <<tree, imports>>

-----------------------------------------------------------------------------
NarrowEnough == <<1, 16>>

VARIABLE case

(* A hash so coarse that different windows collide.                         *)
CoarseHash(t) == CASE t = "<identifier>" -> 3 [] t = "<string>" -> 5 [] OTHER -> 6

Limits(near, minShared, maxPairs, minClass) ==
  [near |-> near, minShared |-> minShared, maxPairs |-> maxPairs, minClass |-> minClass]

Thresholds ==
  {Limits(50, 1, 9, 2), Limits(100, 1, 1, 2), Limits(50, 2, 9, 1), Limits(50, 2, 1, 0)}

Leaf(kind, text, line) ==
  [kind |-> kind, text |-> text, startLine |-> line, endLine |-> line, children |-> <<>>]

(* A root with a leaf for each letter, on lines of their own or two to one. *)
TokenTree(letters, perLine) ==
  [kind |-> "root", text |-> "", startLine |-> 1, endLine |-> 1 + Len(letters),
   children |-> [i \in DOMAIN letters |->
                   [letters[i] EXCEPT !.startLine = 1 + (i \div perLine),
                                      !.endLine = 1 + (i \div perLine)]]]

Ident == Leaf("identifier", "x", 0)
Type == Leaf("type_identifier", "y", 0)
Op == Leaf("operator", "+", 0)
Comment == Leaf("comment", "//", 0)
NumberLeaf == Leaf("number", "7", 0)
Rune == Leaf("rune_literal", "z", 0)
BlankLeaf == Leaf("operator", "", 0)
Str == [Leaf("string", "", 0) EXCEPT !.children = <<Leaf("identifier", "x", 1)>>]

FileOf(path, language, word, perLine) ==
  [path |-> path, language |-> language, tree |-> TokenTree(word, perLine)]

(* One file of seven tokens, two of four or five, and three of more     *)
(* kinds.                                                                   *)
TokenCases ==
  {<<FileOf("a", "Rust", w, 1)>> : w \in [1..7 -> {Ident, Op}]}
    \cup {<<FileOf("a", "Rust", v, 1), FileOf("b", "Rust", w, 2)>> :
            v \in [1..4 -> {Ident, Op}], w \in [1..4 -> {Type, Op}] \cup [1..5 -> {Ident, Op}]}
    \cup {<<FileOf("a", "Rust", <<Ident, Op, Str, NumberLeaf, Op>>, 1),
            FileOf("b", l, <<Ident, Comment, Op>> \o w, 2),
            FileOf("c", "Rust", <<BlankLeaf, Op, Str, Ident, Op>>, 1)>> :
            l \in {"Rust", "Python"}, w \in [1..3 -> {Type, Op, Str, Comment}]}
    \cup {<<FileOf("a", "Go", <<Rune, Op, w>>, 1),
            FileOf("b", "Go", <<Op, [Rune EXCEPT !.text = "w"], Op>>, 2)>> : w \in {Op, Rune}}

Configs == {[minTokens |-> t, minLines |-> l, maxGroups |-> g] :
              t \in {0, 2, 3}, l \in {1, 2}, g \in {1, 9}}
             \cup {[minTokens |-> 2, minLines |-> 0, maxGroups |-> 1],
                   [minTokens |-> 2, minLines |-> 1, maxGroups |-> 0]}

-----------------------------------------------------------------------------
(* Manifests: one of each ecosystem, its package spelled as imports and as  *)
(* texts may, and a workspace.                                              *)

Entry(table, name, version, keys) ==
  [table |-> table, name |-> name, version |-> version, keys |-> keys]

ManifestOf(path, format, parses, entries) ==
  [path |-> path, format |-> format, readable |-> TRUE, parses |-> parses,
   entries |-> entries]

Two == <<"a", "b">>
One == <<"a">>

ManifestLists ==
  {<<ManifestOf("m", "Cargo.toml", p, {Entry(t, n, "1", {}), Entry("dependencies", One, "", {k})}),
     ManifestOf("w", "Cargo.toml", TRUE, {Entry("workspace", Two, "", {"path"})})>> :
      p \in BOOLEAN, t \in {"dependencies", "dev-dependencies"}, n \in {One, Two},
      k \in {"path", "git", "features"}}
    \cup {<<ManifestOf("m", "package.json", TRUE, {Entry(t, Two, v, {})}),
            [ManifestOf("n", "go.mod", TRUE, {Entry("require", Two, "1", {})})
               EXCEPT !.readable = r]>> :
            t \in {"dependencies", "devDependencies"}, v \in {"*", "file:", "1"},
            r \in BOOLEAN}
    \cup {<<ManifestOf("m", "pyproject.toml", TRUE,
              {Entry(t, Two, "1", {}), Entry("poetry", <<"python">>, v, k),
               Entry("dependencies", <<"python">>, "1", {})})>> :
            t \in {"dependencies", "optional-dependencies"},
            v \in {"", "1"}, k \in {{}, {"version"}}}

DeclarationOf(hint, relative, root) == [hint |-> hint, relative |-> relative, root |-> root]

ImportSets ==
  {S \in SUBSET {DeclarationOf("RustUse", FALSE, Spelling("_", Two)),
                 DeclarationOf("RustUse", FALSE, Spelling("", One)),
                 DeclarationOf("Package", FALSE, Spelling("/", Two)),
                 DeclarationOf("Package", TRUE, Spelling("/", Two)),
                 DeclarationOf("Package", FALSE, Spelling("_", Two)),
                 DeclarationOf("GoPackage", FALSE, Spelling("/", <<"a", "b", "c">>))} :
     Cardinality(S) <= 2}

TextFile(declares, large, binary, words) ==
  [declares |-> declares, large |-> large, binary |-> binary, words |-> words]

TextSets ==
  LET spellings == {Spelling(j, Two) : j \in {"-", "_", "/"}} \cup
                   {Spelling("", <<"b">>), Spelling("/", <<"c", "a", "b">>)}
  IN  {{TextFile(FALSE, FALSE, FALSE, {w}), TextFile(TRUE, FALSE, FALSE, spellings)} :
          w \in spellings}
        \cup {{TextFile(FALSE, l, ~l, spellings), TextFile(TRUE, FALSE, FALSE, spellings)} :
                l \in BOOLEAN}
        \cup {{}}

UsageCases ==
  {[manifests |-> m, imports |-> i, files |-> f] :
     m \in ManifestLists, i \in ImportSets, f \in TextSets}

-----------------------------------------------------------------------------
(* Runs: numbers under keys that look like paths, and like escaped ones.    *)

NumberOf(v) == [type |-> "number", value |-> v, float |-> FALSE]
Object(members) == [type |-> "object", members |-> members]

Keys == << <<"a">>, <<"/">>, <<"~">>, <<"~", "1">>, <<"~", "0">>, <<"a", "/", "1">> >>

Observations ==
  {Object(<< <<Keys[i], NumberOf(v)>>, <<Keys[j], NumberOf(2)>> >>) :
     i \in 1..6, j \in 2..6, v \in {0, 8, 9}}
    \cup {Object(<< <<Keys[1], x>>, <<Keys[6], NumberOf(3)>> >>) :
            x \in {Object(<< <<Keys[i], NumberOf(v)>> >>) : i \in 1..3, v \in {-17, 1}}
                    \cup {[type |-> "array", items |-> <<NumberOf(1), [type |-> "other"]>>],
                          [type |-> "none"]}}

Program == [id |-> "p", version |-> 1, criterion |-> "c", epistemicClass |-> "Proxy",
            deterministic |-> TRUE]

RunOf(artifact, observation, status, version) ==
  [stoppedReason |-> "Complete", artifact |-> artifact,
   steps |-> <<[program |-> [Program EXCEPT !.version = version], status |-> status,
                observation |-> observation]>>]

(* One step of each sort, and runs that cannot be compared at all.          *)
RunPairs ==
  {<<RunOf("l", x, "Completed", 1), RunOf("r", y, s, v)>> :
     x \in {o \in Observations : o.members[1][1] # o.members[2][1]},
     y \in {o \in Observations : o.members[1][1] \in {Keys[1], Keys[2]}
                                   /\ o.members[2][1] \in {Keys[4], Keys[6]}},
     s \in {"Completed"}, v \in {1}}
    \cup {<<RunOf("l", x, "Completed", 1), RunOf(a, x, s, v)>> :
            x \in {o \in Observations : o.members[1][1] # o.members[2][1]},
            a \in {"l", "r"}, s \in {"Completed", "Failed"}, v \in {1, 2}}

-----------------------------------------------------------------------------
(* Archived evaluations, in a directory or behind a link to one, with files *)
(* of every sort and links that stay inside and that leave.                 *)

Directory == [kind |-> "dir"]
FileWith(content) == [kind |-> "file", content |-> content]
LinkTo(path) == [kind |-> "link", to |-> path]

Timestamp == [null |-> FALSE, layout |-> TRUE, month |-> 2, day |-> 31, hour |-> 23,
              minute |-> 59, second |-> 60, fraction |-> "none", zone |-> "Z",
              zoneHour |-> 0, zoneMinute |-> 0]

RecordOf(id, instrument, procedure, evidence) ==
  [id |-> id, artifact |-> "set", axis |-> "set", instrument |-> instrument,
   procedure |-> procedure, evidence |-> evidence, verdict |-> "set", integrity |-> "set",
   agent |-> TRUE, ts |-> Timestamp,
   identities |-> <<[name |-> "plain", hex |-> TRUE, digits |-> 7]>>]

Line(json, object) == [json |-> json, object |-> object]

RecordLines ==
  {<<Line("object", RecordOf("1", i, "P", e))>> :
     i \in {"judged", "empirical"}, e \in {"P", "Q", "Up", "Over", "missing"}}
    \cup {<<Line("object", RecordOf("1", "mechanical", "P", "Q")), Line(j, RecordOf(id, "x", "Q", "Q"))>> :
            j \in {"object", "blank", "text"}, id \in {"1", "2", "missing"}}

TreeWith(home, p, q) ==
  LET In(names) == home \o names
  IN  (<<>> :> Directory) @@ (<<"o">> :> Directory) @@ (<<"o", "p">> :> FileWith("prompt"))
        @@ (home :> Directory)
        @@ (IF home = <<"e">> THEN <<>> ELSE (<<"e">> :> LinkTo(home)))
        @@ (In(<<"report.md">>) :> FileWith("text")) @@ (In(<<"records.jsonl">>) :> FileWith("text"))
        @@ (IF p = Missing THEN <<>> ELSE (In(<<"p">>) :> p))
        @@ (IF q = Missing THEN <<>> ELSE (In(<<"q">>) :> q))

(* "Q" is a way to a directory only where a path goes on after it.          *)
Lawful(p, q, r) ==
  /\ ~(p.kind = "link" /\ q.kind = "link" /\ q.to = <<"e", "p">>)
  /\ (\E i \in DOMAIN r : r[i].object.evidence = "Over")
       => q \in {Missing, Directory, LinkTo(<<"o">>)}

BundleOf(home, p, q, r, x) ==
  [tree |-> TreeWith(home, p, q), dir |-> <<"e">>, records |-> r, utf8 |-> TRUE,
   report |-> << <<[id |-> "1"]>>, <<>>, <<[id |-> x]>> >>,
   references |-> [k \in {"P", "Q", "Up", "Over"} |->
     [form |-> IF k = "Up" THEN "parent" ELSE "plain",
      path |-> CASE k = "P" -> <<"p">> [] k = "Q" -> <<"q">>
                 [] k = "Up" -> <<"..", "o", "p">> [] k = "Over" -> <<"q", "p">>]]]

Bundles ==
  UNION {{BundleOf(home, p, q, r, x) : x \in {"1", "2"}, home \in {<<"e">>, <<"d">>},
                                       r \in {s \in RecordLines : Lawful(p, q, s)}} :
           p \in {Missing, FileWith("empty"), FileWith("prompt"), LinkTo(<<"o", "p">>),
                  LinkTo(<<"e", "q">>)},
           q \in {Missing, FileWith("text"), Directory, LinkTo(<<"o">>), LinkTo(<<"e", "p">>)}}

-----------------------------------------------------------------------------
(* Histories: one name of every sort of bytes, changed and still there; and *)
(* commits and requests of every number, with counts at the limit.          *)

Change(path, added, deleted, binary) ==
  [path |-> path, added |-> added, deleted |-> deleted, binary |-> binary]

NameBytes == {97, 49, Quote, Backslash, Tab, Newline, Separator, 195}
AllNames == UNION {[1..n -> NameBytes] : n \in 1..3}

ListingOf(path, size) ==
  << [path |-> path, size |-> size, mode |-> RegularMode, type |-> BlobType],
     [path |-> <<99>>, size |-> 0, mode |-> ModuleMode, type |-> CommitType] >>

CommitsOf(time) ==
  {[time |-> time, changes |-> c] :
     c \in {<<>>, <<Change(<<97>>, 0, 0, TRUE)>>,
            <<Change(<<97>>, 12, 0, FALSE), Change(<<98>>, 1, 0, FALSE)>>,
            <<Change(<<97>>, 12, 12, FALSE)>>}}

HistoryCases ==
  {[history |-> << [time |-> 10, changes |-> <<Change(p, 3, 4, FALSE),
                                               Change(<<98>>, 1, 1, FALSE)>>] >>,
    files |-> ListingOf(p, 7), requested |-> 1] : p \in AllNames}
    \cup {[history |-> h, files |-> ListingOf(<<97>>, 15), requested |-> r] :
            h \in UNION {{<<>>}, {<<a>> : a \in CommitsOf(9)},
                         {<<a, b>> : a \in CommitsOf(9), b \in CommitsOf(8)},
                         {<<a, b, c>> : a \in CommitsOf(9), b \in CommitsOf(8),
                                        c \in CommitsOf(0)}},
            r \in 1..3}

-----------------------------------------------------------------------------
(* Trees and changes for the shapes: a path of every kind.                  *)

NameOf(words, join, exts, whole) ==
  [words |-> words, join |-> join, exts |-> exts, whole |-> whole]

PathOf(dirs, name) == [dirs |-> dirs, name |-> name]

ShapePaths == <<
  PathOf(<<"src">>, NameOf(<<"lib">>, "_", <<"rs">>, "")),
  PathOf(<<"src">>, NameOf(<<"lib", "test">>, "Camel", <<"java">>, "")),
  PathOf(<<>>, NameOf(<<"readme">>, "_", <<"md">>, "")),
  PathOf(<<"src", "a">>, NameOf(<<"api">>, "_", <<"pb", "go">>, "")),
  PathOf(<<"etc">>, NameOf(<<"make">>, "_", <<>>, "makefile")),
  PathOf(<<"etc", "b">>, NameOf(<<"main">>, "_", <<"py">>, "")),
  PathOf(<<>>, NameOf(<<"main">>, "_", <<"c">>, "")) >>

Sizes ==
  {[p \in {ShapePaths[i] : i \in S} |-> IF p = ShapePaths[1] THEN n ELSE Len(p.dirs)] :
     S \in SUBSET (1..7), n \in 0..2}

ChangesOf(S, n, b) ==
  [mass |-> [p \in {ShapePaths[i] : i \in S} |-> IF p = ShapePaths[1] THEN n ELSE Len(p.dirs)],
   binary |-> {p \in {ShapePaths[i] : i \in S} : b}]

ShapeCases ==
  {[size |-> s, commits |-> <<ChangesOf({1, 6}, 2, FALSE)>>] : s \in Sizes}
    \cup {[size |-> <<>>, commits |-> <<ChangesOf(S, n, FALSE), ChangesOf(T, 1, TRUE)>>] :
            S \in SUBSET (1..7), T \in {{}, {1}, {1, 2, 6}, {3, 5, 7}}, n \in {0, 3}}

-----------------------------------------------------------------------------
(* Files that change together, on either side of a directory, as text and   *)
(* as binaries.                                                             *)

Touching(time, S, b) ==
  [time |-> time, files |-> [f \in S |-> [mass |-> f, text |-> ~(f \in b), binary |-> f \in b]]]

CochangeCases ==
  {<<Touching(7, S, {1}), Touching(5, T, {}), Touching(4, R, {1, 4})>> :
     S \in SUBSET (1..4), T \in SUBSET (1..4), R \in {{}, {1, 2}, {2, 3, 4}}}

LinesOf == [f \in 1..4 |-> f - 1]

CommunityOf == [f \in 1..4 |-> f % 2]

Asked(analysis, commits, universe) ==
  [analysis |-> analysis, commits |-> commits, universe |-> universe,
   community |-> [f \in universe |-> CommunityOf[f]]]

(* Of the files the history knows, and of those the graph knows as well.    *)
Universes == {1..4, {1, 2, 3}, {1, 2}}

MassCases ==
  {Asked(a, c, u) : a \in {"layout", "support"}, c \in CochangeCases, u \in Universes}

-----------------------------------------------------------------------------
Seed(kind) == [kind |-> kind]

(* Of the graphs on four nodes those with few edges, or with most of theirs *)
(* in one direction.                                                        *)
Graphs(n) == IF n < 4 THEN Digraphs(n) ELSE kSubset(4, UNION Digraphs(4)) \cup Oriented(4)

(* One analysis at a time has an input; the others stay at nothing.         *)
Init ==
  /\ case \in {Seed(k) : k \in {"graphs", "twins", "clones", "runs", "bundles", "histories",
                                "shapes", "cochanges", "tree", "mass", "usage"}}
  /\ AnalysisInit(IF case = Seed("tree") THEN Trees ELSE {<<>>})
  /\ MassInit(IF case = Seed("mass") THEN MassInputs ELSE {Asked("layout", <<>>, {})})
  /\ UsageInit(IF case = Seed("usage") THEN UsageInputs
               ELSE {[manifests |-> <<>>, imports |-> {}, files |-> {}]})

ChooseGraph ==
  /\ case = Seed("graphs")
  /\ \E n \in 2..4 : \E g \in Graphs(n) :
       case' = [kind |-> "graph", files |-> 1..n, edges |-> g]

ChooseTwins ==
  /\ case = Seed("twins")
  /\ \E n \in 2..4 :
       \E g \in Digraphs(n), own \in IF n < 4 THEN {{}, {<<1, 1>>}} ELSE {{}}, c \in Thresholds :
         case' = [kind |-> "twin", files |-> 1..n, edges |-> g \cup own, config |-> c]

ChooseClones ==
  /\ case = Seed("clones")
  /\ \E t \in TokenCases, c \in Configs : case' = [kind |-> "clone", trees |-> t, config |-> c]

ChooseRuns ==
  /\ case = Seed("runs")
  /\ \E p \in RunPairs : case' = [kind |-> "run", left |-> p[1], right |-> p[2]]

ChooseBundle ==
  /\ case = Seed("bundles")
  /\ \E b \in Bundles : case' = [kind |-> "bundle", bundle |-> b]

ChooseHistory ==
  /\ case = Seed("histories")
  /\ \E h \in HistoryCases : case' = [kind |-> "history", of |-> h]

ChooseShape ==
  /\ case = Seed("shapes")
  /\ \E s \in ShapeCases : case' = [kind |-> "shape", of |-> s]

ChooseCochange ==
  /\ case = Seed("cochanges")
  /\ \E c \in CochangeCases : case' = [kind |-> "cochange", commits |-> c]

Choose ==
  \/ ChooseGraph \/ ChooseTwins \/ ChooseClones
  \/ ChooseRuns \/ ChooseBundle
  \/ ChooseHistory \/ ChooseShape \/ ChooseCochange

Analyze ==
  case = Seed("tree") /\ AnalysisNext /\ UNCHANGED <<case, massVars, usageVars>>

Spread == case = Seed("mass") /\ MassNext /\ UNCHANGED <<case, treeVars, usageVars>>

Survey == case = Seed("usage") /\ UsageNext /\ UNCHANGED <<case, treeVars, massVars>>

Next == Analyze \/ Spread \/ Survey \/ (Choose /\ UNCHANGED <<treeVars, massVars, usageVars>>)

allVars == <<case, treeVars, massVars, usageVars>>

(* The search runs by itself: nothing it waits for.                         *)
Spec == Init /\ [][Next]_allVars /\ WF_allVars(Analyze)

-----------------------------------------------------------------------------
Analyzed == phase = "done"

(* Components, reachability and propagation agree (tarjan,                  *)
(* transitive_internal_degrees, dependency_propagation).                    *)
CountsAgree ==
  Analyzed => GraphCountsAgree(Files(tree), Internal(imports))

(* Fan-in, fan-out, evidence and grades add up, and the percentiles of the  *)
(* grades are what their name says (import_grading, nearest_rank_u64).      *)
GradesRight == Analyzed => GradesAgree(tree, imports)

(* The depth is the longest path's (condensation_depth_profile).            *)
DepthRight == Analyzed => DepthIsLongestPath(Files(tree), Internal(imports))

TopLevel == [f \in Files(tree) |-> TopLevelCommunity(tree[f].path)]

ParentDirectory == [f \in Files(tree) |-> ParentDirectoryCommunity(tree[f].path)]

Layout(community) ==
  LayoutPartition(Files(tree), edges, Internal(imports), community, TopLevel)

(* The layout of each partition balances, and the one the search ended with *)
(* is worth what its steps climbed to (layout_partition).                   *)
LayoutsBalance ==
  LET Balances(community) ==
        LayoutBalances(Files(tree), edges, community, Layout(community))
  IN  Analyzed => /\ Balances(TopLevel) /\ Balances(ParentDirectory)
                  /\ Balances(Detected)
                  /\ Layout(Detected).modularity
                       = Search!Modularity(edges, Communities)

(* What is reported of a tree's dependencies is so: the counts, the grades, *)
(* the depth and the layouts, each held against a definition of its own     *)
(* (analyze_dependencies).                                                  *)
StatisticsRight == CountsAgree /\ GradesRight /\ DepthRight /\ LayoutsBalance

Mutual(files, pairs) ==
  LET After(S) == S \cup {e[2] : e \in {x \in pairs : x[1] \in S}}
      Reach[k \in Nat, f \in files] == IF k = 0 THEN {f} ELSE After(Reach[k - 1, f])
      n == Cardinality(files)
  IN  {{g \in files : g \in Reach[n, f] /\ f \in Reach[n, g]} : f \in files}

(* Every bound that is given with its certificate is one: the cut, the      *)
(* levels, the growth rates (conductance.rs, trophic.rs, spectral.rs); and  *)
(* the twins that are reported are the ones a comparison of all pairs finds *)
(* (twins.rs).                                                              *)
CertificatesRight ==
  /\ case.kind = "graph" =>
       LET both == {{e[1], e[2]} : e \in case.edges}
       IN  /\ \A c \in ConnectedComponents(case.files, both) :
                /\ ConductanceSound(c, both)
                /\ TrophicSound(c, {e \in case.edges : e[1] \in c})
           /\ \A c \in Mutual(case.files, case.edges) : SpectralSound(c, case.edges)
  /\ case.kind = "twin" => TwinsSound(case.files, case.edges, case.config)

(* Clone groups are all of the repeats there are, whatever windows collide  *)
(* under the rolling hash, and no group hides inside another (find_groups,  *)
(* suppress_subsumed_groups, duplicates.rs).                                *)
ClonesRight == case.kind = "clone" => ClonesSound(case.trees, case.config)

(* Runs are compared on what they share, every number of both under a       *)
(* pointer of its own, however its keys are spelled; and an archive is      *)
(* passed only when its records, report and evidence hold together and      *)
(* nothing it cites lies outside of it, links followed                      *)
(* (compare_evaluation_runs, audit_evaluation_dir).                         *)
ArchivesRight ==
  /\ case.kind = "run" => ComparisonSound(case.left, case.right)
  /\ case.kind = "bundle" => AuditSound(case.bundle)

(* The joins of history with the tree lose and double nothing: shapes,      *)
(* profiles and the support of pairs by the graph all add up (repo.rs,      *)
(* cochange_support.rs, change_profile.rs).                                 *)
ChangesAddUp ==
  /\ case.kind = "shape" => ShapesTrue(case.of.size, case.of.commits)
  /\ case.kind = "cochange" => ProfileJoinCloses(case.commits, 1..3, LinesOf)
  /\ stage = "supported" =>
       \A analyzed \in {a \in Universes : a \cap (1..3) = asked.universe} :
         \A known \in {{}, {<<1, 2>>, <<2, 4>>}, {<<4, 3>>, <<1, 3>>}} :
           SupportRanked(1..3, analyzed, known, CommunityOf)

(* What git printed is what the history says, whatever bytes names have and *)
(* however they were quoted (scan_file_history, parse_git_log), and what is *)
(* computed from a history adds up to it.                                   *)
HistoryRight ==
  /\ case.kind = "history" => HistoryRead(case.of.history, case.of.files, case.of.requested)
  /\ ChangesAddUp

(* The search for communities comes to an end (louvain_local_moves).        *)
DetectionEnds == case = Seed("tree") => <>(phase = "done")
=============================================================================
