--------------------------- MODULE DependencyGraph ---------------------------
(* The file dependency graph: how imports become its edges, its structural  *)
(* statistics, and how partitions of the files cut it                       *)
(* (analyze_dependencies, src/src/deps.rs).                                 *)
(*                                                                          *)
(* A tree is a sequence of analyzed files, each with its path, its language *)
(* and its declarations; the place of a file in the sequence is its place   *)
(* in the order of paths.  A target of an edge is a file's number or the    *)
(* specifier that no file answers to.                                       *)
EXTENDS Integers, Sequences, FiniteSets, SequencesExt, Ordering

CONSTANTS
  ReachabilityNodeLimit,  \* REACHABILITY_NODE_LIMIT
  ReachabilityWorkLimit   \* REACHABILITY_WORK_LIMIT

ASSUME ReachabilityAssumption ==
  ReachabilityNodeLimit \in Nat /\ ReachabilityWorkLimit \in Nat

-----------------------------------------------------------------------------
(* How an import declaration finds the file it names (resolve and           *)
(* is_external, src/src/deps.rs).  Nothing is interpreted but the names of  *)
(* the analyzed files: every kind of declaration has a list of candidate    *)
(* paths, and the first that is a file is the answer.                       *)
(*                                                                          *)
(* A path is a sequence of components <<stem, extension>>, the extension of *)
(* a directory or of a bare name being "".  A specifier is the sequence of  *)
(* its segments; "dots" counts the dots a Python or JavaScript specifier    *)
(* begins with.                                                             *)

Dir(names) == [i \in DOMAIN names |-> <<names[i], "">>]

Up == <<"..", "">>
Here == <<".", "">>

(* PathBuf::pop leaves an empty path alone.                                 *)
Pop(path) == IF path = <<>> THEN path ELSE Front(path)

Parent(path) == Pop(path)

(* with_extension changes nothing where there is no file name.              *)
WithExtension(path, extension) ==
  IF path = <<>> \/ Last(path) = Up THEN path
  ELSE [path EXCEPT ![Len(path)][2] = extension]

(* The path without ".." and ".", or nothing when it leaves the root.       *)
Normalized(path) ==
  LET Step(found, c) ==
        IF found = {} \/ c = Here THEN found
        ELSE LET p == CHOOSE x \in found : TRUE
             IN  IF c # Up THEN {Append(p, c)}
                 ELSE IF p = <<>> THEN {} ELSE {Front(p)}
  IN  FoldLeft(Step, {<<>>}, path)

(* The first candidate that is a file, as a set of at most one path.        *)
FirstKnown(candidates, known) ==
  LET hits == {i \in DOMAIN candidates : Normalized(candidates[i]) \cap known # {}}
  IN  IF hits = {} THEN {}
      ELSE Normalized(candidates[CHOOSE i \in hits : \A j \in hits : i <= j])

ResolveRustMod(file, name, known) ==
  FirstKnown(<<Parent(file) \o << <<name, "rs">> >>,
               Parent(file) \o << <<name, "">>, <<"mod", "rs">> >> >>, known)

(* A module path is tried as a file, then as a directory, then without its  *)
(* last segment, and so on up to the root of the tree.                      *)
ModuleFiles(base) ==
  <<WithExtension(base, "rs"), Append(base, <<"mod", "rs">>)>>

ResolveRustUse(file, segments, known) ==
  LET pieces == SelectSeq(segments, LAMBDA s : s # "self")
      from == CASE Head(pieces) = "crate" -> Dir(<<"src">>)
                [] Head(pieces) = "super" -> Parent(Parent(file))
                [] OTHER -> Append(Parent(file), <<Head(pieces), "">>)
      base == from \o Dir(Tail(pieces))
      Above(n) == SubSeq(base, 1, Len(base) - n)
  IN  IF pieces = <<>> THEN {}
      ELSE FirstKnown(FlattenSeq([n \in 1..(Len(base) + 1) |->
                                    ModuleFiles(Above(n - 1))]), known)

ResolvePython(file, dots, names, known) ==
  LET from == IF dots = 0 THEN <<>>
              ELSE LET here == Parent(file)
                   IN  SubSeq(here, 1, IF Len(here) < dots - 1 THEN 0
                                       ELSE Len(here) - (dots - 1))
      base == from \o Dir(names)
  IN  FirstKnown(<<WithExtension(base, "py"), Append(base, <<"__init__", "py">>)>>,
                 known)

JsSuffixes == <<"ts", "tsx", "js", "jsx", "mjs", "cjs">>

ResolveJs(file, components, known) ==
  LET base == SelectSeq(Parent(file) \o components, LAMBDA c : c # Here)
      bare == base = <<>> \/ Last(base)[2] = ""
      suffixed == [i \in DOMAIN JsSuffixes |-> WithExtension(base, JsSuffixes[i])]
      indexes == [i \in DOMAIN JsSuffixes |->
                    Append(base, <<"index", JsSuffixes[i]>>)]
  IN  FirstKnown(<<base>> \o (IF bare THEN suffixed ELSE <<>>) \o indexes, known)

(* Only a Rust path that begins with one of these is inside the crate.      *)
RustRoots == {"crate", "self", "super"}

IsExternal(d) ==
  CASE d.hint = "GoPackage"           -> TRUE
    [] d.hint \in {"Path", "Package"} -> d.dots = 0
    [] d.hint = "RustUse"             -> Head(d.segments) \notin RustRoots
    [] d.hint = "RustModule"          -> FALSE

Resolve(file, language, d, known) ==
  CASE d.hint = "RustModule" -> ResolveRustMod(file, d.segments[1], known)
    [] d.hint = "RustUse" -> ResolveRustUse(file, d.segments, known)
    [] d.hint = "Path" /\ d.dots > 0 -> ResolveJs(file, d.components, known)
    [] d.hint = "Package" /\ language = "Python" ->
         ResolvePython(file, d.dots, d.segments, known)
    [] OTHER -> {}

-----------------------------------------------------------------------------
(* The tree.                                                                *)

Files(tree) == DOMAIN tree

Declarations(tree) ==
  UNION {{[d |-> tree[f].decls[k], file |-> f, nth |-> k] :
            k \in DOMAIN tree[f].decls} : f \in Files(tree)}

-----------------------------------------------------------------------------
(* Edges.  A declaration never makes its own file a target.                 *)

TargetOf(tree, x) ==
  LET known == {tree[f].path : f \in Files(tree)}
      found == Resolve(tree[x.file].path, tree[x.file].language, x.d, known)
      other == found \ {tree[x.file].path}
  IN  IF other # {}
      THEN [class |-> "internal",
            id |-> [file |-> CHOOSE f \in Files(tree) : tree[f].path \in other]]
      ELSE [class |-> IF IsExternal(x.d) THEN "external" ELSE "unresolved",
            id |-> [specifier |-> x.d.specifier]]

(* Equal evidence of one edge counts once, however often it is declared.    *)
EvidenceOf(d) ==
  [line |-> d.line, specifier |-> d.specifier, kind |-> d.kind,
   leaves |-> d.leaves, glob |-> d.glob, object |-> d.object]

Edges(tree) ==
  LET resolved == {[f |-> x.file, t |-> TargetOf(tree, x), e |-> EvidenceOf(x.d)] :
                     x \in Declarations(tree)}
      Edge(f, t) ==
        LET evidence == {r.e : r \in {q \in resolved : q.f = f /\ q.t = t}}
        IN  [source |-> f, target |-> t, evidence |-> evidence,
             grade |-> MapThenSumSet(LAMBDA e : e.leaves, evidence),
             glob |-> \E e \in evidence : e.glob]
  IN  {Edge(r.f, r.t) : r \in resolved}

OfClass(edges, class) == {e \in edges : e.target.class = class}

Internal(edges) == {<<e.source, e.target.id.file>> : e \in OfClass(edges, "internal")}

Undirected(edges) == {{p[1], p[2]} : p \in {q \in Internal(edges) : q[1] # q[2]}}

(* Fan-in and fan-out count every edge of a node, files and specifiers.     *)
Nodes(tree, edges) ==
  LET ids == {[class |-> "internal", id |-> [file |-> f]] : f \in Files(tree)}
               \cup {e.target : e \in edges}
  IN  [n \in ids |->
         [fan_in |-> Cardinality({e.source : e \in {x \in edges : x.target = n}}),
          fan_out |-> IF n.class # "internal" THEN 0
                      ELSE Cardinality({e.target : e \in {x \in edges : x.source = n.id.file}})]]

-----------------------------------------------------------------------------
(* The width of imports.                                                    *)

UseKinds == {"rust-use", "rust-extern-crate", "python-import", "python-from",
             "js-import", "js-export-from", "go-import"}

(* A percentile of an ascending sequence: the value at the rounded-up rank. *)
NearestRank(sorted, percentile) ==
  IF sorted = <<>> THEN {}
  ELSE LET rank == (Len(sorted) * percentile + 99) \div 100
       IN  {sorted[IF rank = 0 THEN 1 ELSE rank]}

(* The values of f on its domain in ascending order, each as often as it    *)
(* occurs.                                                                  *)
SortedValues(f) ==
  FlattenSeq([i \in 1..Cardinality({f[x] : x \in DOMAIN f}) |->
    LET v == Ascending({f[x] : x \in DOMAIN f})[i]
    IN  [k \in 1..Cardinality({x \in DOMAIN f : f[x] = v}) |-> v]])

ImportGrading(tree, edges) ==
  LET uses == {x \in Declarations(tree) : x.d.kind \in UseKinds}
      internal == OfClass(edges, "internal")
      plain == {e \in internal : ~e.glob}
      grades == SortedValues([e \in plain |-> e.grade])
  IN  [languages |->
         [l \in {tree[f].language : f \in Files(tree)} |->
            LET here == {x \in uses : tree[x.file].language = l}
            IN  [uses |-> Cardinality(here),
                 globs |-> Cardinality({x \in here : x.d.glob}),
                 objects |-> Cardinality({x \in here : x.d.object})]],
       internal |-> Cardinality(internal),
       globBearing |-> Cardinality(internal \ plain),
       p50 |-> NearestRank(grades, 50), p90 |-> NearestRank(grades, 90),
       plugs |-> Cardinality({e \in plain : e.grade <= 2})]

-----------------------------------------------------------------------------
(* Reachability, with its bound on work.  The traversal starts with its     *)
(* source visited, so that no file counts as reaching itself.               *)

Successors(pairs, v) == {p[2] : p \in {q \in pairs : q[1] = v}}

ReachabilityBudget(files, pairs) ==
  IF files = {} THEN "NotApplicable"
  ELSE IF Cardinality(files) > ReachabilityNodeLimit THEN "SizeLimit"
  ELSE IF Cardinality(files) * (Cardinality(pairs) + 1) > ReachabilityWorkLimit
       THEN "WorkLimit"
  ELSE "Computed"

RECURSIVE Visit(_, _, _)
Visit(pairs, visited, stack) ==
  IF stack = <<>> THEN visited
  ELSE LET v == Last(stack)
       IN  IF v \in visited THEN Visit(pairs, visited, Front(stack))
           ELSE Visit(pairs, visited \cup {v},
                      Front(stack) \o Ascending(Successors(pairs, v)))

Reached(pairs, source) ==
  Visit(pairs, {source}, Ascending(Successors(pairs, source))) \ {source}

TransitiveInternalDegrees(files, pairs) ==
  LET reached == [f \in files |-> Reached(pairs, f)]
  IN  [outgoing |-> [f \in files |-> Cardinality(reached[f])],
       incoming |-> [f \in files |-> Cardinality({g \in files : f \in reached[g]})]]

(* The pairs asked about that are joined by a walk, read from either end.   *)
QueriedUndirectedReachability(adjacency, queries) ==
  {q \in queries : \E a, b \in q : a # b /\ b \in Reached(adjacency, a)}

-----------------------------------------------------------------------------
(* Strongly connected components by Tarjan's algorithm, in the order of the *)
(* code: nodes and successors ascending, components sorted at the end.      *)

(* Off the stack or on it, a visited successor lowers the link.             *)
LowLink_IgnoresStack(s, w) == s.index[w]

(* A visited successor counts only while its component is open.             *)
LowLink(s, w) == IF w \in Range(s.stack) THEN s.index[w] ELSE s.next

RECURSIVE TarjanVisit(_, _, _), TarjanSuccessors(_, _, _, _)
TarjanVisit(pairs, v, s) ==
  LET entered == [s EXCEPT !.next = @ + 1, !.stack = Append(@, v),
                           !.index = @ @@ (v :> s.next),
                           !.low = @ @@ (v :> s.next)]
      t == TarjanSuccessors(pairs, v, Ascending(Successors(pairs, v)), entered)
      at == CHOOSE i \in DOMAIN t.stack : t.stack[i] = v
  IN  IF t.low[v] # t.index[v] THEN t
      ELSE [t EXCEPT !.stack = SubSeq(@, 1, at - 1),
                     !.result = @ \cup {Range(SubSeq(t.stack, at, Len(t.stack)))}]

TarjanSuccessors(pairs, v, rest, s) ==
  IF rest = <<>> THEN s
  ELSE LET w == Head(rest)
           Lower(t, bound) == [t EXCEPT !.low[v] = IF bound < @ THEN bound ELSE @]
           after == IF w \notin DOMAIN s.index
                    THEN LET t == TarjanVisit(pairs, w, s) IN Lower(t, t.low[w])
                    ELSE Lower(s, LowLink(s, w))
       IN  TarjanSuccessors(pairs, v, Tail(rest), after)

Tarjan(files, pairs) ==
  LET Step(s, v) == IF v \in DOMAIN s.index THEN s ELSE TarjanVisit(pairs, v, s)
      start == [next |-> 0, index |-> <<>>, low |-> <<>>, stack |-> <<>>,
                result |-> {}]
  IN  FoldLeft(Step, start, Ascending(files)).result

(* Components are listed by their members in order, so by their least.      *)
Listed(components) ==
  InOrder(components, LAMBDA a, b : Min(a) < Min(b))

Cycles(files, pairs) ==
  {c \in Tarjan(files, pairs) :
     Cardinality(c) > 1 \/ \E v \in c : <<v, v>> \in pairs}

Symmetric(pairs) == pairs \cup {<<p[2], p[1]>> : p \in pairs}

WeakComponents(files, pairs) ==
  {{v} \cup Reached(Symmetric(pairs), v) : v \in files}

-----------------------------------------------------------------------------
(* How much of the graph is mutually reachable.                             *)

OrderedPairs(n) == n * (n - 1)

(* The weak component whose files are most mutually reachable, by cross     *)
(* multiplication; ties go to the larger one, then to the first.            *)
WorstWeakComponent(weak, cycles) ==
  LET Mutual(w) == MapThenSumSet(LAMBDA c : OrderedPairs(Cardinality(c)),
                                 {c \in cycles : Min(c) \in w})
      Better(w, best) ==
        LET lhs == Mutual(w) * OrderedPairs(best.files)
            rhs == best.pairs * OrderedPairs(Cardinality(w))
        IN  lhs > rhs \/ (lhs = rhs /\ Cardinality(w) > best.files)
      Take(best, w) ==
        IF Cardinality(w) >= 2 /\ (best.files = 0 \/ Better(w, best))
        THEN [pairs |-> Mutual(w), files |-> Cardinality(w)] ELSE best
  IN  FoldLeft(Take, [pairs |-> 0, files |-> 0], Listed(weak))

DependencyPropagation(files, pairs) ==
  LET status == ReachabilityBudget(files, pairs)
      cycles == Cycles(files, pairs)
      weak == WeakComponents(files, pairs)
      degrees == TransitiveInternalDegrees(files, pairs)
  IN  [status |-> status,
       reachable |-> IF status # "Computed" THEN {}
                     ELSE {MapThenSumSet(LAMBDA f : degrees.outgoing[f], files)},
       possible |-> OrderedPairs(Cardinality(files)),
       mutual |-> MapThenSumSet(LAMBDA c : OrderedPairs(Cardinality(c)), cycles),
       cyclicFiles |-> MapThenSumSet(Cardinality, cycles),
       worst |-> WorstWeakComponent(weak, cycles)]

-----------------------------------------------------------------------------
(* Depth of the condensation: how long a path of components leads to a      *)
(* component and how long a one leads away, with one longest path.          *)

(* A component is known by its place in the list of components.             *)
Condensation(components, pairs) ==
  LET Owner(f) == CHOOSE i \in DOMAIN components : f \in components[i]
  IN  {<<Owner(p[1]), Owner(p[2])>> : p \in pairs} \ {<<i, i>> : i \in DOMAIN components}

(* Kahn's order: a component enters when its last predecessor has left the  *)
(* queue, the successors of one component in ascending order.               *)
RECURSIVE Kahn(_, _, _)
Kahn(dag, queue, order) ==
  IF queue = <<>> THEN order
  ELSE LET done == Append(order, Head(queue))
           ready == {w \in Successors(dag, Head(queue)) :
                       Successors({<<p[2], p[1]>> : p \in dag}, w) \subseteq Range(done)}
       IN  Kahn(dag, Tail(queue) \o Ascending(ready), done)

DepthAlong(dag, order) ==
  LET Relax(depth, v) ==
        [w \in DOMAIN depth |->
           IF <<v, w>> \in dag /\ depth[v] + 1 > depth[w] THEN depth[v] + 1 ELSE depth[w]]
  IN  FoldLeft(Relax, [v \in Range(order) |-> 0], order)

(* Any neighbor less deep, as though edges never skipped a level.           *)

(* From a component down to depth 0, always by the first neighbor that is   *)
(* one less deep.                                                           *)
RECURSIVE Descend(_, _, _)
Descend(dag, depth, v) ==
  IF depth[v] = 0 THEN <<v>>
  ELSE <<v>> \o Descend(dag, depth,
                        Min({w \in Successors(dag, v) : depth[w] + 1 = depth[v]}))

CondensationDepthProfile(components, pairs) ==
  LET dag == Condensation(components, pairs)
      reverse == {<<p[2], p[1]>> : p \in dag}
      sources == {i \in DOMAIN components : Successors(reverse, i) = {}}
      order == Kahn(dag, Ascending(sources), <<>>)
      depthIn == DepthAlong(dag, order)
      depthOut == DepthAlong(reverse, Reverse(order))
      through == {depthIn[i] + depthOut[i] : i \in DOMAIN components}
      start == Min({i \in DOMAIN components : depthIn[i] + depthOut[i] = Max(through)})
      PerFile(depth) ==
        SortedValues([f \in UNION Range(components) |->
                        depth[CHOOSE i \in DOMAIN components : f \in components[i]]])
  IN  [edges |-> Cardinality(dag),
       inP50 |-> NearestRank(PerFile(depthIn), 50),
       inP90 |-> NearestRank(PerFile(depthIn), 90),
       inMax |-> Max(Range(depthIn)), outMax |-> Max(Range(depthOut)),
       outP50 |-> NearestRank(PerFile(depthOut), 50),
       outP90 |-> NearestRank(PerFile(depthOut), 90),
       path |-> Reverse(Descend(reverse, depthIn, start))
                  \o Tail(Descend(dag, depthOut, start))]

-----------------------------------------------------------------------------
(* What the statistics promise of each other.                               *)

(* A component is a class of files that reach one another, and the counts   *)
(* that four separate traversals arrive at agree: what is reached going out *)
(* is reached coming in, the mutual pairs are among the reachable ones, and *)
(* no repository is more cyclic than its worst weak component.              *)
GraphCountsAgree(files, pairs) ==
  LET mutual == {<<a, b>> \in files \X files :
                   a = b \/ (b \in Reached(pairs, a) /\ a \in Reached(pairs, b))}
      degrees == TransitiveInternalDegrees(files, pairs)
      p == DependencyPropagation(files, pairs)
      Total(f) == MapThenSumSet(LAMBDA v : f[v], files)
  IN  /\ Tarjan(files, pairs) = {Successors(mutual, v) : v \in files}
      /\ Total(degrees.outgoing) = Total(degrees.incoming)
      /\ p.mutual <= Total(degrees.outgoing)
      /\ p.mutual * OrderedPairs(p.worst.files) <= p.worst.pairs * p.possible

(* The depth is that of a longest path, and the witness is one.             *)
DepthIsLongestPath(files, pairs) ==
  LET components == Listed(Tarjan(files, pairs))
      dag == Condensation(components, pairs)
      d == CondensationDepthProfile(components, pairs)
      Path(s) == \A i \in 1..(Len(s) - 1) : <<s[i], s[i + 1]>> \in dag
      longer == {s \in [1..(d.inMax + 2) -> DOMAIN components] : Path(s)}
  IN  /\ Path(d.path)
      /\ Len(d.path) = d.inMax + 1
      /\ d.outMax = d.inMax
      /\ longer = {}

(* The percentile of the grades is the least grade that enough of them      *)
(* reach, and the ledgers of declarations, evidence and edges close.        *)
GradesAgree(tree, edges) ==
  LET g == ImportGrading(tree, edges)
      plain == {e \in OfClass(edges, "internal") : ~e.glob}
      UpTo(v) == Cardinality({e \in plain : e.grade <= v})
      Ranked(p, percent) ==
        \A v \in p : /\ UpTo(v) * 100 >= percent * Cardinality(plain)
                     /\ UpTo(v - 1) * 100 < percent * Cardinality(plain)
      nodes == Nodes(tree, edges)
      Fan(F(_)) == MapThenSumSet(LAMBDA n : F(nodes[n]), DOMAIN nodes)
      uses == {x \in Declarations(tree) : x.d.kind \in UseKinds}
  IN  /\ Ranked(g.p50, 50) /\ Ranked(g.p90, 90)
      /\ Fan(LAMBDA n : n.fan_in) = Cardinality(edges)
      /\ Fan(LAMBDA n : n.fan_out) = Cardinality(edges)
      /\ MapThenSumSet(LAMBDA l : g.languages[l].uses, DOMAIN g.languages)
           = Cardinality(uses)
      /\ MapThenSumSet(LAMBDA e : Cardinality(e.evidence), edges)
           <= Cardinality(Declarations(tree))

-----------------------------------------------------------------------------
(* How partitions of the files - by directory and as detected - cut the     *)
(* dependency graph (dependency_layout, src/src/deps.rs).  A partition      *)
(* gives each file its community; communities that are directories are      *)
(* paths, detected ones are numbers.                                        *)

(* A file at the root belongs to ".", here the empty directory.             *)
TopLevelCommunity(path) == IF Len(path) = 1 THEN <<>> ELSE <<path[1]>>

ParentDirectoryCommunity(path) == Parent(path)

(* The files that edges cross the community's border at, most crossed       *)
(* first, as far as it takes to account for nine tenths of the crossings.   *)
BoundaryCover(counts, total) ==
  LET ranked == InOrder(DOMAIN counts, LAMBDA f, g :
                  counts[f] > counts[g] \/ (counts[f] = counts[g] /\ f < g))
      target == total - total \div 10
      Covered(k) == MapThenSumSet(LAMBDA i : counts[ranked[i]], 1..k)
  IN  SelectSeq(ranked, LAMBDA f :
        \E k \in DOMAIN ranked : ranked[k] = f /\ Covered(k - 1) < target)

LayoutCommunity(files, undirected, internal, community, c, directory) ==
  LET inside == {f \in files : community[f] = c}
      out == {p \in internal : p[1] \in inside /\ p[2] \notin inside}
      in == {p \in internal : p[1] \notin inside /\ p[2] \in inside}
      ends == {p[1] : p \in out} \cup {p[2] : p \in in}
      counts == [f \in ends |-> Cardinality({p \in out : p[1] = f})
                                  + Cardinality({p \in in : p[2] = f})]
      membership == [d \in {directory[f] : f \in inside} |->
                       Cardinality({f \in inside : directory[f] = d})]
  IN  [files |-> Cardinality(inside),
       intra |-> Cardinality({e \in undirected : e \subseteq inside}),
       degree |-> MapThenSumSet(LAMBDA e : Cardinality(e \cap inside), undirected),
       out |-> Cardinality(out), in |-> Cardinality(in),
       counts |-> counts,
       cover |-> BoundaryCover(counts, Cardinality(out) + Cardinality(in)),
       purity |-> Max(Range(membership))]

(* Edges between two communities in both directions are shown with up to    *)
(* five witnesses: the first of each direction, then the first of all.      *)
EdgeBefore(p, q) == p[1] < q[1] \/ (p[1] = q[1] /\ p[2] < q[2])

FirstEdges(pairs, n) ==
  LET listed == InOrder(pairs, EdgeBefore)
  IN  {listed[i] : i \in 1..(IF n < Len(listed) THEN n ELSE Len(listed))}

DirectionPair(internal, community, pair) ==
  LET Between(a, b) == {p \in internal : community[p[1]] = a /\ community[p[2]] = b}
      there == Between(pair[1], pair[2])
      back == Between(pair[2], pair[1])
      firsts == FirstEdges(there, 1) \cup FirstEdges(back, 1)
      room == CHOOSE n \in 0..5 :
                /\ Cardinality(firsts \cup FirstEdges(there \cup back, n)) <= 5
                /\ n = 5 \/ Cardinality(firsts \cup FirstEdges(there \cup back, n + 1)) > 5
  IN  [there |-> Cardinality(there), back |-> Cardinality(back),
       witnesses |-> IF there = {} \/ back = {} THEN {}
                     ELSE firsts \cup FirstEdges(there \cup back, room)]

LayoutPartition(files, undirected, internal, community, directory) ==
  LET m == Cardinality(undirected)
      rows == [c \in Range(community) |->
                 LayoutCommunity(files, undirected, internal, community, c, directory)]
      crossed == {{community[p[1]], community[p[2]]} :
                    p \in {q \in internal : community[q[1]] # community[q[2]]}}
      listed == [both \in crossed |->
                   DirectionPair(internal, community,
                                 CHOOSE s \in both \X both : s[1] # s[2])]
      Fewer(d) == IF d.there < d.back THEN d.there ELSE d.back
  IN  [rows |-> rows,
       cross |-> m - MapThenSumSet(LAMBDA c : rows[c].intra, DOMAIN rows),
       modularity |-> MapThenSumSet(LAMBDA c :
          4 * m * rows[c].intra - rows[c].degree * rows[c].degree, DOMAIN rows),
       pairs |-> listed,
       twoWay |-> MapThenSumSet(LAMBDA b : Fewer(listed[b]), crossed),
       crossing |-> MapThenSumSet(LAMBDA b : listed[b].there + listed[b].back, crossed)]

(* How far the detected partition is ahead of the directories.              *)
Headroom(detected, directories) == detected.modularity - directories.modularity

-----------------------------------------------------------------------------
(* The books of a partition balance: edge ends, borders and directions are  *)
(* counted apart and agree, and a boundary cover is the smallest that does. *)
LayoutBalances(files, undirected, community, layout) ==
  LET rows == layout.rows
      Sum(F(_)) == MapThenSumSet(LAMBDA c : F(rows[c]), DOMAIN rows)
      Of(row, covered) == MapThenSumSet(LAMBDA f : row.counts[f], covered)
      Enough(row, covered) == 10 * Of(row, covered) >= 9 * (row.out + row.in)
  IN  /\ Sum(LAMBDA r : r.degree) = 2 * Cardinality(undirected)
      /\ Sum(LAMBDA r : r.files) = Cardinality(files)
      /\ Sum(LAMBDA r : r.out) = layout.crossing
      /\ Sum(LAMBDA r : r.in) = layout.crossing
      /\ 2 * layout.twoWay <= layout.crossing
      /\ \A c \in DOMAIN rows :
           /\ Enough(rows[c], Range(rows[c].cover))
           /\ \A some \in SUBSET DOMAIN rows[c].counts :
                Enough(rows[c], some) => Cardinality(some) >= Len(rows[c].cover)
      /\ \A b \in DOMAIN layout.pairs :
           LET d == layout.pairs[b]
           IN  (d.there > 0 /\ d.back > 0) =>
                 /\ Cardinality(d.witnesses) \in 2..5
                 /\ \A c \in b : \E p \in d.witnesses : community[p[1]] = c
=============================================================================
