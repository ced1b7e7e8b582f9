--------------------------- MODULE StructuralTwins ---------------------------
(* Files with the same neighbors in the file graph (src/src/twins.rs).      *)
(* Open twins have the same neighbors, closed twins have the same ones once *)
(* each counts as a neighbor of itself, near twins have nearly the same.    *)
(* The config gives the threshold of near twins as a percentage, how many   *)
(* neighbors a class must share to be shown, how many a pair must have, and *)
(* how many pairs are shown.                                                *)
EXTENDS Integers, Sequences, FiniteSets, FiniteSetsExt, Ordering

CONSTANT NearPairNodeLimit  \* TWINS_NEAR_PAIR_NODE_LIMIT

ASSUME TwinsAssumption == NearPairNodeLimit \in Nat

TwinsConfigError(config) ==
  IF config.near \notin 1..100 THEN "InvalidNearPercent"
  ELSE IF config.minShared = 0 THEN "InvalidMinShared"
  ELSE IF config.maxPairs = 0 THEN "InvalidMaxPairs" ELSE "ok"

(* Edges of a file to itself are left out.                                  *)
InSet(edges, f)  == {e[1] : e \in {x \in edges : x[2] = f /\ x[1] # f}}
OutSet(edges, f) == {e[2] : e \in {x \in edges : x[1] = f /\ x[2] # f}}

NonIsolated(files, edges) ==
  {f \in files : InSet(edges, f) # {} \/ OutSet(edges, f) # {}}

(* Groups of two files or more that have the same key.                      *)
Grouped(key) ==
  {g \in {{f \in DOMAIN key : key[f] = key[h]} : h \in DOMAIN key} : Cardinality(g) >= 2}

OpenGroups(files, edges) ==
  Grouped([f \in NonIsolated(files, edges) |-> <<InSet(edges, f), OutSet(edges, f)>>])

(* A group that is open already is not counted again.                       *)
ClosedGroups(files, edges) ==
  Grouped([f \in NonIsolated(files, edges) |->
             <<InSet(edges, f) \cup {f}, OutSet(edges, f) \cup {f}>>])
    \ OpenGroups(files, edges)

(* A neighbor linked in both directions counts once.                        *)
SharedDistinct(edges, members) ==
  LET f == CHOOSE m \in members : TRUE
  IN  Cardinality((InSet(edges, f) \cup OutSet(edges, f)) \ members)

(* Neighbors by direction, without the other file of the pair.              *)
Tagged(edges, f, other) ==
  {<<"in", g>> : g \in InSet(edges, f) \ {other}}
    \cup {<<"out", g>> : g \in OutSet(edges, f) \ {other}}

Overlap(edges, f, g) ==
  [left |-> f, right |-> g,
   intersection |-> Cardinality(Tagged(edges, f, g) \cap Tagged(edges, g, f)),
   union |-> Cardinality(Tagged(edges, f, g) \cup Tagged(edges, g, f))]

Qualifies(config, p) ==
  /\ p.union >= config.minShared /\ p.intersection > 0
  /\ p.intersection * 100 >= config.near * p.union

(* The most similar pairs first, then the larger ones.                      *)
PairBefore(a, b) ==
  LET x == a.intersection * b.union
      y == b.intersection * a.union
  IN  \/ x > y
      \/ x = y /\ a.union > b.union
      \/ x = y /\ a.union = b.union /\ a.left < b.left
      \/ x = y /\ a.union = b.union /\ a.left = b.left /\ a.right < b.right

(* Two files of a class that is shown are not listed as near twins too.     *)
Partners(shown, all) == UNION {{{f, g} : f, g \in c} : c \in shown}

AnalyzeTwins(files, edges, config) ==
  LET open == OpenGroups(files, edges)
      closed == ClosedGroups(files, edges)
      shown == {c \in open \cup closed : SharedDistinct(edges, c) >= config.minClass}
      suppressed == (open \cup closed) \ shown
      scanned == NonIsolated(files, edges)
      pairs == {Overlap(edges, p[1], p[2]) :
                  p \in {q \in scanned \X scanned :
                           /\ q[1] < q[2]
                           /\ {q[1], q[2]} \notin Partners(shown, open \cup closed)}}
      qualifying == InOrder({p \in pairs : Qualifies(config, p)}, PairBefore)
      skipped == Cardinality(scanned) > NearPairNodeLimit
  IN  [open |-> open \cap shown, closed |-> closed \cap shown,
       isolated |-> Cardinality(files \ scanned),
       suppressed |-> Cardinality(suppressed),
       suppressedMembers |-> (UNION suppressed) \ (UNION shown),
       members |-> UNION shown,
       scan |-> IF skipped THEN "SkippedNodeLimit" ELSE "Complete",
       pairs |-> IF skipped THEN <<>>
                 ELSE SubSeq(qualifying, 1, IF Len(qualifying) < config.maxPairs
                                            THEN Len(qualifying) ELSE config.maxPairs),
       censored |-> ~skipped /\ Len(qualifying) > config.maxPairs]

-----------------------------------------------------------------------------
(* Two files are twins exactly when exchanging them leaves the graph as it  *)
(* was, they are closed ones exactly when they import each other, and every *)
(* such pair is accounted for: in a class that is shown, among the near     *)
(* twins, or by a ledger that says what was left out.                       *)
Exchanged(edges, f, g) ==
  LET S(x) == IF x = f THEN g ELSE IF x = g THEN f ELSE x
  IN  {<<S(e[1]), S(e[2])>> : e \in edges}

TwinsSound(files, edges, config) ==
  LET r == AnalyzeTwins(files, edges, config)
      scanned == NonIsolated(files, edges)
      Together(classes, f, g) == \E c \in classes : {f, g} \subseteq c
      full == AnalyzeTwins(files, edges, [config EXCEPT !.minClass = 0])
      proper == {e \in edges : e[1] # e[2]}
      Twins(f, g) == Exchanged(proper, f, g) = proper
      Linked(f, g) == <<f, g>> \in edges /\ <<g, f>> \in edges
  IN  /\ \A f, g \in scanned : f # g =>
           /\ Together(full.open \cup full.closed, f, g) <=> Twins(f, g)
           /\ Together(full.closed, f, g) => Linked(f, g)
           /\ Together(full.open, f, g) => ~Linked(f, g)
           /\ (Twins(f, g) /\ Overlap(edges, f, g).union >= config.minShared
                 /\ r.scan = "Complete" /\ ~r.censored) =>
                \/ Together(r.open \cup r.closed, f, g)
                \/ \E i \in DOMAIN r.pairs : {r.pairs[i].left, r.pairs[i].right} = {f, g}
      /\ Cardinality(full.open) + Cardinality(full.closed)
           = Cardinality(r.open) + Cardinality(r.closed) + r.suppressed
      /\ r.members \cup r.suppressedMembers = full.members
      /\ r.members \cap r.suppressedMembers = {}
=============================================================================
