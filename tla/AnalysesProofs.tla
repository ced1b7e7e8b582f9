---------------------------- MODULE AnalysesProofs ---------------------------
(* Four analyses, for all of their inputs.  Detection of communities climbs *)
(* in modularity: the gain of a move is computed from counts that           *)
(* aggregation carries over levels and from degree sums that visits keep up *)
(* to date, and the proof is that each of them still counts edges of the    *)
(* file graph.  Co-change mass is kept: sums made a commit at a time are    *)
(* those of the whole history.  Statuses of declared dependencies are what  *)
(* imports and words say, whatever the order of manifests.  Structural      *)
(* twins are what can be exchanged in the graph.  Sums are those of module  *)
(* Folding, whose parameters play no part here.                             *)
EXTENDS Louvain, CochangeMass, ManifestUsage, StructuralTwins, FiniteSetTheorems, TLAPS

INSTANCE Folding
  WITH Op <- LAMBDA v, t : v + t, Base <- 0, Value <- LAMBDA x : x, Choice <- LAMBDA s : s

-----------------------------------------------------------------------------
(* Counting edges                                                          *)

(* The undirected edges, sets of two files.                                *)
Graph ==
  /\ IsFiniteSet(edges)
  /\ \A e \in edges : \E f, g \in Nat : f # g /\ e = {f, g}

Within(b) == {e \in edges : e \subseteq b}

Meets(b, c) == {e \in edges : e \cap b # {} /\ e \cap c # {}}

Leaving(b) == {e \in edges : e \cap b # {} /\ ~ e \subseteq b}

Ends(b) == Sum([e \in edges |-> Cardinality(e \cap b)], edges)

(* What an edge has in a set of files.                                     *)
LEMMA EdgeEnds ==
  ASSUME Graph, NEW e \in edges, NEW b
  PROVE  /\ IsFiniteSet(e \cap b)
         /\ Cardinality(e \cap b) = IF e \subseteq b THEN 2
                                    ELSE IF e \cap b = {} THEN 0 ELSE 1
<1>1. PICK f \in Nat, g \in Nat : f # g /\ e = {f, g}
  BY DEF Graph
<1>2. /\ IsFiniteSet({f}) /\ IsFiniteSet({g}) /\ IsFiniteSet({f, g})
      /\ Cardinality({f}) = 1 /\ Cardinality({g}) = 1 /\ Cardinality({f, g}) = 2
  <2>1. /\ IsFiniteSet({f}) /\ IsFiniteSet({g})
        /\ Cardinality({f}) = 1 /\ Cardinality({g}) = 1
    BY FS_Singleton
  <2>2. {f} \cup {g} = {f, g} /\ g \notin {f}
    BY <1>1
  <2>3. IsFiniteSet({f} \cup {g}) /\ Cardinality({f} \cup {g}) = 2
    BY <2>1, <2>2, FS_AddElement
  <2> QED BY <2>1, <2>2, <2>3
<1>3. CASE f \in b /\ g \in b
  <2>1. e \subseteq b /\ e \cap b = {f, g}
    BY <1>1, <1>3
  <2> QED BY <1>2, <2>1
<1>4. CASE f \in b /\ g \notin b
  <2>1. ~ e \subseteq b /\ e \cap b = {f}
    BY <1>1, <1>4
  <2> QED BY <1>2, <2>1
<1>5. CASE f \notin b /\ g \in b
  <2>1. ~ e \subseteq b /\ e \cap b = {g}
    BY <1>1, <1>5
  <2> QED BY <1>2, <2>1
<1>6. CASE f \notin b /\ g \notin b
  <2>1. ~ e \subseteq b /\ e \cap b = {}
    BY <1>1, <1>6
  <2> QED BY <2>1, FS_EmptySet
<1> QED BY <1>3, <1>4, <1>5, <1>6

(* Sets of edges are finite.                                               *)
LEMMA EdgeSets ==
  ASSUME Graph, NEW E \in SUBSET edges
  PROVE  IsFiniteSet(E) /\ Cardinality(E) \in Nat
  BY FS_Subset, FS_CardinalityType DEF Graph

(* Ends are counted, edge by edge.                                         *)
LEMMA EndsNat ==
  ASSUME Graph, NEW b
  PROVE  Ends(b) \in Nat
<1> DEFINE f == [e \in edges |-> Cardinality(e \cap b)]
<1>1. \A e \in edges : f[e] \in Nat
  BY EdgeEnds
<1> HIDE DEF f
<1>2. Sum(f, edges) \in Nat
  BY <1>1, SumNat DEF Graph
<1> QED BY <1>2 DEF Ends, f

(* The ends in two sets of files are those in either.                      *)
LEMMA EndsAdd ==
  ASSUME Graph, NEW b, NEW c, b \cap c = {}
  PROVE  Ends(b \cup c) = Ends(b) + Ends(c)
<1> DEFINE f == [e \in edges |-> Cardinality(e \cap b)]
           g == [e \in edges |-> Cardinality(e \cap c)]
           h == [e \in edges |-> Cardinality(e \cap (b \cup c))]
<1>1. \A e \in edges : f[e] \in Int /\ g[e] \in Int /\ h[e] = f[e] + g[e]
  <2> SUFFICES ASSUME NEW e \in edges
               PROVE  f[e] \in Int /\ g[e] \in Int /\ h[e] = f[e] + g[e]
    OBVIOUS
  <2>1. /\ IsFiniteSet(e \cap b) /\ IsFiniteSet(e \cap c)
        /\ Cardinality(e \cap b) \in Nat /\ Cardinality(e \cap c) \in Nat
    BY SMTT(30), EdgeEnds
  <2>2. (e \cap b) \cap (e \cap c) = {} /\ e \cap (b \cup c) = (e \cap b) \cup (e \cap c)
    OBVIOUS
  <2>3. Cardinality((e \cap b) \cup (e \cap c)) = Cardinality(e \cap b) + Cardinality(e \cap c)
    <3>1. Cardinality((e \cap b) \cap (e \cap c)) = 0
      BY <2>2, FS_EmptySet
    <3>2. Cardinality((e \cap b) \cup (e \cap c))
            = Cardinality(e \cap b) + Cardinality(e \cap c)
                - Cardinality((e \cap b) \cap (e \cap c))
      BY <2>1, FS_Union
    <3> QED BY <2>1, <3>1, <3>2
  <2>4. /\ f[e] = Cardinality(e \cap b) /\ g[e] = Cardinality(e \cap c)
        /\ h[e] = Cardinality((e \cap b) \cup (e \cap c))
    BY <2>2
  <2> HIDE DEF f, g, h
  <2> QED BY <2>1, <2>3, <2>4
<1> HIDE DEF f, g, h
<1>2. Sum(h, edges) = Sum(f, edges) + Sum(g, edges)
  BY <1>1, SumPlus DEF Graph
<1> QED BY <1>2 DEF Ends, f, g, h

(* The edges in two sets of files: those in one and those between both.    *)
LEMMA WithinAdd ==
  ASSUME Graph, NEW b, NEW c, b \cap c = {}
  PROVE  Cardinality(Within(b \cup c))
           = Cardinality(Within(b)) + Cardinality(Within(c)) + Cardinality(Meets(b, c))
<1>1. /\ IsFiniteSet(Within(b)) /\ Cardinality(Within(b)) \in Nat
      /\ IsFiniteSet(Within(c)) /\ Cardinality(Within(c)) \in Nat
      /\ IsFiniteSet(Meets(b, c)) /\ Cardinality(Meets(b, c)) \in Nat
  BY EdgeSets DEF Within, Meets
<1>2. Meets(b, c) \cap Within(b) = {} /\ Within(c) \cap (Within(b) \cup Meets(b, c)) = {}
  <2>1. \A e \in edges : e # {}
    BY DEF Graph
  <2> QED BY <2>1 DEF Within, Meets
<1>3. Within(b \cup c) = Within(c) \cup (Within(b) \cup Meets(b, c))
  <2> SUFFICES ASSUME NEW e \in edges
               PROVE  e \subseteq b \cup c <=>
                        \/ e \subseteq c \/ e \subseteq b
                        \/ e \cap b # {} /\ e \cap c # {}
                           /\ e \subseteq b \cup c
    <3>1. \A e \in Meets(b, c) : e \subseteq b \cup c
      BY DEF Graph, Meets
    <3> QED BY <3>1 DEF Within, Meets
  <2> QED BY DEF Graph
<1>4. /\ IsFiniteSet(Within(b) \cup Meets(b, c))
      /\ Cardinality(Within(b) \cup Meets(b, c))
           = Cardinality(Within(b)) + Cardinality(Meets(b, c))
  BY <1>1, <1>2, SizeOfBoth
<1>5. Cardinality(Within(b \cup c))
        = Cardinality(Within(c)) + Cardinality(Within(b) \cup Meets(b, c))
  BY <1>1, <1>2, <1>3, <1>4, SizeOfBoth
<1> QED BY <1>1, <1>4, <1>5

(* Every edge within a set has two ends there, and one that leaves it one. *)
LEMMA EndsCounted ==
  ASSUME Graph, NEW b
  PROVE  Ends(b) = 2 * Cardinality(Within(b)) + Cardinality(Leaving(b))
<1> DEFINE f == [e \in edges |-> Cardinality(e \cap b)]
           out == {e \in edges : e \cap b = {}}
<1>1. /\ \A e \in Within(b) : f[e] = 2
      /\ \A e \in Leaving(b) : f[e] = 1
      /\ \A e \in out : f[e] = 0
      /\ \A e \in edges : f[e] \in Int
  <2>1. \A e \in edges : e # {}
    BY DEF Graph
  <2>2. \A e \in edges : f[e] = IF e \subseteq b THEN 2
                                ELSE IF e \cap b = {} THEN 0 ELSE 1
    BY EdgeEnds
  <2> HIDE DEF f
  <2> QED BY <2>1, <2>2 DEF Within, Leaving
<1>2. /\ Within(b) \cap Leaving(b) = {} /\ (Within(b) \cup Leaving(b)) \cap out = {}
      /\ edges = (Within(b) \cup Leaving(b)) \cup out
  <2>1. \A e \in edges : e # {}
    BY DEF Graph
  <2> QED BY <2>1 DEF Within, Leaving
<1>3. /\ Within(b) \in SUBSET edges /\ Leaving(b) \in SUBSET edges /\ out \in SUBSET edges
      /\ Within(b) \cup Leaving(b) \in SUBSET edges
  BY DEF Within, Leaving
<1> HIDE DEF f, out
<1>4. /\ IsFiniteSet(Within(b)) /\ IsFiniteSet(Leaving(b)) /\ IsFiniteSet(out)
      /\ IsFiniteSet(Within(b) \cup Leaving(b))
      /\ Cardinality(Within(b)) \in Nat /\ Cardinality(Leaving(b)) \in Nat
      /\ Cardinality(out) \in Nat
  BY <1>3, EdgeSets
<1>5. /\ Sum(f, Within(b)) = 2 * Cardinality(Within(b))
      /\ Sum(f, Leaving(b)) = 1 * Cardinality(Leaving(b))
      /\ Sum(f, out) = 0 * Cardinality(out)
  BY <1>1, <1>4, SumConstant
<1>6. /\ \A e \in Within(b) \cup Leaving(b) : f[e] \in Int
      /\ \A e \in (Within(b) \cup Leaving(b)) \cup out : f[e] \in Int
  BY <1>1, <1>3
<1>7. /\ Sum(f, Within(b) \cup Leaving(b)) = Sum(f, Within(b)) + Sum(f, Leaving(b))
      /\ Sum(f, (Within(b) \cup Leaving(b)) \cup out)
           = Sum(f, Within(b) \cup Leaving(b)) + Sum(f, out)
  BY <1>2, <1>4, <1>6, SumUnion
<1>8. Sum(f, edges) = 2 * Cardinality(Within(b)) + Cardinality(Leaving(b))
  BY <1>2, <1>4, <1>5, <1>7
<1> QED BY <1>8 DEF Ends, f

(* What one community adds to the numerator of modularity.                 *)
Worth(b) == 4 * M * Cardinality(Within(b)) - Ends(b) * Ends(b)

-----------------------------------------------------------------------------
(* The sums of the model, said with a function                             *)

LEMMA DegreeIsEnds ==
  ASSUME Graph, NEW b
  PROVE  MapThenSumSet(LAMBDA e : Cardinality(e \cap b), edges) = Ends(b)
<1> DEFINE f == [e \in edges |-> Cardinality(e \cap b)]
           Next(g, s) ==
             IF s = {} THEN 0
             ELSE Cardinality((CHOOSE x \in s : TRUE) \cap b)
                    + g[s \ {CHOOSE x \in s : TRUE}]
           g == CHOOSE g : g = [s \in SUBSET edges |-> Next(g, s)]
<1>1. \A k : \A s \in SUBSET edges : Next(k, s) = Step(f, k, s)
  BY DEF Step, OneOf
<1>2. Totals(f, edges) = Stepped(f, Totals(f, edges), edges)
  BY TotalsExist DEF Graph
<1>3. \E k : k = [s \in SUBSET edges |-> Next(k, s)]
  <2> HIDE DEF Next, f
  <2> QED BY <1>1, <1>2 DEF Stepped
<1>4. g = [s \in SUBSET edges |-> Next(g, s)]
  BY <1>3
<1> HIDE DEF g
<1>5. g = Stepped(f, g, edges)
  <2> HIDE DEF Next, f
  <2> QED BY <1>1, <1>4 DEF Stepped
<1>6. g[edges] = Sum(f, edges)
  <2> HIDE DEF f
  <2> QED BY <1>5, SumIsUnique DEF Graph
<1>7. MapThenSumSet(LAMBDA e : Cardinality(e \cap b), edges) = g[edges]
  BY DEF MapThenSumSet, MapThenFoldSet, g
<1> QED BY <1>6, <1>7 DEF Ends

LEMMA LinksAreSummed ==
  ASSUME NEW id, NEW c
  PROVE  Links(id, c) = Sum(nodes[id].neighbors,
                            {n \in DOMAIN nodes[id].neighbors : assigned[n] = c})
  BY DEF Links, MapThenSumSet, MapThenFoldSet, Sum, Totals, Stepped, Step, OneOf

LEMMA ModularityIsWorth ==
  ASSUME Graph, NEW B, IsFiniteSet(B)
  PROVE  Search!Modularity(edges, B) = Sum([b \in B |-> Worth(b)], B)
<1> DEFINE f == [b \in B |-> Worth(b)]
           Degree(b) == Search!MapThenSumSet(LAMBDA e : Search!Cardinality(e \cap b), edges)
           Value(b) == 4 * Search!Cardinality(edges)
                         * Search!Cardinality({e \in edges : e \subseteq b})
                         - Degree(b) * Degree(b)
           Next(g, s) ==
             IF s = {} THEN 0
             ELSE Value(CHOOSE x \in s : TRUE) + g[s \ {CHOOSE x \in s : TRUE}]
           g == CHOOSE g : g = [s \in SUBSET B |-> Next(g, s)]
<1>0. \A b : Value(b) = Worth(b)
  <2>1. \A S : Search!Cardinality(S) = Cardinality(S)
    BY DEF Search!Cardinality, Cardinality
  <2>2. ASSUME NEW b
        PROVE  Degree(b) = Ends(b)
    <3>1. Degree(b) = MapThenSumSet(LAMBDA e : Cardinality(e \cap b), edges)
      BY DEF Search!MapThenSumSet, Search!MapThenFoldSet, MapThenSumSet, MapThenFoldSet,
             Search!Cardinality, Cardinality
    <3> QED BY <3>1, DegreeIsEnds
  <2> HIDE DEF Degree
  <2> QED BY <2>1, <2>2 DEF Worth, M, Within
<1>1. \A k : \A s \in SUBSET B : Next(k, s) = Step(f, k, s)
  <2> HIDE DEF Value
  <2> QED BY <1>0 DEF Step, OneOf
<1>2. Totals(f, B) = Stepped(f, Totals(f, B), B)
  BY TotalsExist
<1>3. \E k : k = [s \in SUBSET B |-> Next(k, s)]
  <2> HIDE DEF Next, f
  <2> QED BY <1>1, <1>2 DEF Stepped
<1>4. g = [s \in SUBSET B |-> Next(g, s)]
  <2> HIDE DEF Next
  <2> QED BY <1>3
<1>5. g = Stepped(f, g, B)
  <2> HIDE DEF Next, f, g
  <2> QED BY <1>1, <1>4 DEF Stepped
<1>6. g[B] = Sum(f, B)
  <2> HIDE DEF f, g
  <2> QED BY <1>5, SumIsUnique
<1>7. Search!Modularity(edges, B) = g[B]
  BY DEF Search!Modularity, Search!MapThenSumSet, Search!MapThenFoldSet, Search!Cardinality
<1> QED BY <1>6, <1>7

-----------------------------------------------------------------------------
(* One group changes its community                                         *)

(* What two communities are worth before and after one gives the other a   *)
(* group.                                                                  *)
LEMMA WorthMoves ==
  ASSUME Graph, NEW m, NEW home, NEW host, m \subseteq home, home \cap host = {}
  PROVE  /\ Worth(home) \in Int /\ Worth(host) \in Int
         /\ Worth(home \ m) \in Int /\ Worth(host \cup m) \in Int
         /\ Worth(home \ m) + Worth(host \cup m)
              = Worth(home) + Worth(host)
                  + (4 * M * (Cardinality(Meets(m, host)) - Cardinality(Meets(m, home \ m)))
                       + 2 * Ends(m) * (Ends(home) - Ends(host)) - 2 * Ends(m) * Ends(m))
<1> DEFINE rest == home \ m
           d == Ends(m)  x == Ends(rest)  y == Ends(host)
           i == Cardinality(Within(m))  j == Cardinality(Within(rest))
           k == Cardinality(Within(host))
           p == Cardinality(Meets(m, rest))  q == Cardinality(Meets(m, host))
<1>1. /\ d \in Nat /\ x \in Nat /\ y \in Nat
      /\ i \in Nat /\ j \in Nat /\ k \in Nat /\ p \in Nat /\ q \in Nat /\ M \in Nat
  <2>1. d \in Nat /\ x \in Nat /\ y \in Nat
    BY EndsNat
  <2>2. i \in Nat /\ j \in Nat /\ k \in Nat /\ p \in Nat /\ q \in Nat
    BY EdgeSets DEF Within, Meets
  <2> QED BY <2>1, <2>2, EdgeSets DEF M
<1>2. m \cup rest = home /\ m \cap rest = {} /\ m \cap host = {} /\ m \cup host = host \cup m
  OBVIOUS
<1>3. Ends(home) = d + x /\ Ends(host \cup m) = d + y
  BY <1>2, EndsAdd
<1>4. /\ Cardinality(Within(home)) = i + j + p
      /\ Cardinality(Within(host \cup m)) = i + k + q
  BY <1>2, WithinAdd
<1>5. /\ Worth(home) = 4 * M * (i + j + p) - (d + x) * (d + x)
      /\ Worth(host) = 4 * M * k - y * y
      /\ Worth(rest) = 4 * M * j - x * x
      /\ Worth(host \cup m) = 4 * M * (i + k + q) - (d + y) * (d + y)
  BY <1>3, <1>4 DEF Worth
<1> HIDE DEF rest, d, x, y, i, j, k, p, q
<1>6. (4 * M * j - x * x) + (4 * M * (i + k + q) - (d + y) * (d + y))
        = (4 * M * (i + j + p) - (d + x) * (d + x)) + (4 * M * k - y * y)
            + (4 * M * (q - p) + 2 * d * ((d + x) - y) - 2 * d * d)
  BY <1>1
<1> QED BY <1>1, <1>3, <1>5, <1>6 DEF rest, d, y, p, q

(* Modularity changes by the gain when a group moves from one community of *)
(* a partition to another, an emptied community being dropped.             *)
LEMMA ModularityMoves ==
  ASSUME Graph, NEW P, IsFiniteSet(P), {} \notin P,
         \A b, c \in P : b # c => b \cap c = {},
         NEW home \in P, NEW host \in P, home # host,
         NEW m, m # {}, m \subseteq home
  PROVE  Search!Modularity(edges, ((P \ {home, host})
                                     \cup {home \ m, host \cup m}) \ {{}})
           = Search!Modularity(edges, P)
               + (4 * M * (Cardinality(Meets(m, host)) - Cardinality(Meets(m, home \ m)))
                    + 2 * Ends(m) * (Ends(home) - Ends(host)) - 2 * Ends(m) * Ends(m))
<1> DEFINE delta == 4 * M * (Cardinality(Meets(m, host)) - Cardinality(Meets(m, home \ m)))
                      + 2 * Ends(m) * (Ends(home) - Ends(host)) - 2 * Ends(m) * Ends(m)
           R == P \ {home, host}
           Q == (R \cup {home \ m, host \cup m}) \ {{}}
           X == P \cup {home \ m, host \cup m}
           w == [b \in X |-> Worth(b)]
<1>1. \A b : Worth(b) \in Int
  <2>1. Graph /\ \A b : {} \subseteq b /\ b \cap {} = {}
    OBVIOUS
  <2> QED BY <2>1, WorthMoves
<1>2. /\ IsFiniteSet(R) /\ IsFiniteSet(Q)
      /\ \A b \in X : w[b] = Worth(b) /\ w[b] \in Int
  <2>1. IsFiniteSet(R) /\ IsFiniteSet({home \ m, host \cup m})
    <3>1. R \in SUBSET P
      OBVIOUS
    <3>2. IsFiniteSet({home \ m} \cup {host \cup m})
      <4>1. IsFiniteSet({home \ m}) /\ IsFiniteSet({host \cup m})
        BY FS_Singleton
      <4> QED BY <4>1, FS_Union
    <3>3. {home \ m} \cup {host \cup m} = {home \ m, host \cup m}
      OBVIOUS
    <3>4. IsFiniteSet(R)
      BY <3>1, FS_Subset
    <3> QED BY <3>2, <3>3, <3>4
  <2>2. IsFiniteSet(R \cup {home \ m, host \cup m})
    BY <2>1, FS_Union
  <2>3. IsFiniteSet(Q)
    BY <2>2, FS_Subset
  <2> QED BY <1>1, <2>1, <2>3
<1>3. /\ Search!Modularity(edges, P) = Sum(w, P)
      /\ Search!Modularity(edges, Q) = Sum(w, Q)
  <2>1. /\ Search!Modularity(edges, P) = Sum([b \in P |-> Worth(b)], P)
        /\ Search!Modularity(edges, Q) = Sum([b \in Q |-> Worth(b)], Q)
    BY <1>2, ModularityIsWorth
  <2> DEFINE v == [b \in P |-> Worth(b)]
             u == [b \in Q |-> Worth(b)]
  <2>2. /\ \A b \in P : v[b] \in Int /\ v[b] = w[b]
        /\ \A b \in Q : u[b] \in Int /\ u[b] = w[b]
    BY <1>1
  <2> HIDE DEF v, u, w
  <2>3. Sum(v, P) = Sum(w, P) /\ Sum(u, Q) = Sum(w, Q)
    BY <1>2, <2>2, SumSame
  <2> QED BY <2>1, <2>3 DEF u, v
<1>4. /\ home \cap host = {} /\ host # {}
      /\ home \notin R \cup {host} /\ host \notin R /\ P = (R \cup {host}) \cup {home}
      /\ host \cup m \notin R
      /\ home \ m # {} => home \ m \notin R \cup {host \cup m}
  <2>1. home \cap host = {} /\ host # {}
    OBVIOUS
  <2>2. \A b \in R : b \cap home = {} /\ b \cap host = {} /\ b # {}
    OBVIOUS
  <2>3. home \notin R \cup {host} /\ host \notin R /\ P = (R \cup {host}) \cup {home}
    OBVIOUS
  <2> QED BY <2>1, <2>2, <2>3
<1>5. /\ \A b \in R \cup {host} : w[b] \in Int
      /\ w[home] \in Int /\ w[host \cup m] \in Int /\ w[home \ m] \in Int
      /\ \A b \in R \cup {host \cup m} : w[b] \in Int
  BY <1>2
<1> HIDE DEF w, R, Q, X
<1>6. /\ Sum(w, R) \in Int
      /\ Sum(w, P) = w[home] + (w[host] + Sum(w, R))
      /\ IsFiniteSet(R \cup {host \cup m})
      /\ Sum(w, R \cup {host \cup m}) = w[host \cup m] + Sum(w, R)
  <2>1. /\ Sum(w, R) \in Int /\ IsFiniteSet(R \cup {host})
        /\ Sum(w, R \cup {host}) = w[host] + Sum(w, R)
    BY <1>2, <1>4, <1>5, SumAdd
  <2>2. Sum(w, (R \cup {host}) \cup {home}) = w[home] + Sum(w, R \cup {host})
    <3>1. \A b \in (R \cup {host}) \cup {home} : w[b] \in Int
      BY <1>5
    <3> QED BY <1>4, <2>1, <3>1, SumAdd
  <2>3. /\ IsFiniteSet(R \cup {host \cup m})
        /\ Sum(w, R \cup {host \cup m}) = w[host \cup m] + Sum(w, R)
    BY <1>2, <1>4, <1>5, SumAdd
  <2> QED BY <1>4, <2>1, <2>2, <2>3
<1>7. Sum(w, Q) = w[home \ m] + (w[host \cup m] + Sum(w, R))
  <2>1. CASE home \ m # {}
    <3>1. Q = (R \cup {host \cup m}) \cup {home \ m}
      <4>1. {} \notin R /\ host \cup m # {}
        BY DEF R
      <4> QED BY <2>1, <4>1 DEF Q
    <3>2. \A b \in (R \cup {host \cup m}) \cup {home \ m} : w[b] \in Int
      BY <1>5
    <3>3. home \ m \notin R \cup {host \cup m}
      BY <1>4, <2>1
    <3>4. Sum(w, (R \cup {host \cup m}) \cup {home \ m})
            = w[home \ m] + Sum(w, R \cup {host \cup m})
      <4> DEFINE T == R \cup {host \cup m}
                 x == home \ m
      <4>1. IsFiniteSet(T) /\ x \notin T /\ \A b \in T \cup {x} : w[b] \in Int
        BY <1>6, <3>2, <3>3
      <4> HIDE DEF T, x
      <4>2. Sum(w, T \cup {x}) = w[x] + Sum(w, T)
        BY <4>1, SumAdd
      <4> QED BY <4>2 DEF T, x
    <3> QED BY <1>6, <3>1, <3>4
  <2>2. CASE home \ m = {}
    <3>1. Q = R \cup {host \cup m}
      <4>1. {} \notin R /\ host \cup m # {}
        BY DEF R
      <4> QED BY <2>2, <4>1 DEF Q
    <3>2. Worth({}) = 0
      <4>1. Within({}) = {} /\ Cardinality(Within({})) = 0
        <5>1. Within({}) = {}
          BY DEF Within, Graph
        <5> QED BY <5>1, FS_EmptySet
      <4>2. Ends({}) = 0
        <5>1. Ends({} \cup {}) = Ends({}) + Ends({}) /\ {} \cup {} = {}
          BY EndsAdd, {} \cap {} = {}, {} \cup {} = {}
        <5> QED BY <5>1, EndsNat
      <4>3. M \in Nat
        BY EdgeSets DEF M
      <4> QED BY <4>1, <4>2, <4>3 DEF Worth
    <3>3. w[home \ m] = 0
      BY <1>2, <2>2, <3>2 DEF X
    <3>4. w[host \cup m] + Sum(w, R) \in Int
      BY <1>5, <1>6
    <3> QED BY <1>6, <3>1, <3>3, <3>4
  <2> QED BY <2>1, <2>2
<1>8. /\ w[home] = Worth(home) /\ w[host] = Worth(host)
      /\ w[home \ m] = Worth(home \ m) /\ w[host \cup m] = Worth(host \cup m)
  BY <1>2 DEF X
<1>9. /\ Worth(home \ m) + Worth(host \cup m) = Worth(home) + Worth(host) + delta
      /\ delta \in Int
  <2>1. /\ Worth(home \ m) + Worth(host \cup m) = Worth(home) + Worth(host) + delta
    BY <1>4, WorthMoves
  <2>2. /\ Ends(m) \in Nat /\ Ends(home) \in Nat /\ Ends(host) \in Nat /\ M \in Nat
        /\ Cardinality(Meets(m, host)) \in Nat /\ Cardinality(Meets(m, home \ m)) \in Nat
    BY EndsNat, EdgeSets DEF Meets, M
  <2> QED BY <2>1, <2>2
<1> HIDE DEF delta
<1>10. Sum(w, Q) = Sum(w, P) + delta
  BY <1>1, <1>6, <1>7, <1>8, <1>9
<1> QED BY <1>3, <1>10 DEF Q, R, delta

-----------------------------------------------------------------------------
(* Least and greatest elements                                             *)

LEMMA LeastExists ==
  ASSUME NEW S \in SUBSET Nat, S # {}
  PROVE  Min(S) \in S /\ \A x \in S : Min(S) <= x
  BY LeastNat DEF Min

LEMMA GreatestExists ==
  ASSUME NEW S, IsFiniteSet(S), S # {}, S \subseteq Int
  PROVE  Max(S) \in S /\ \A x \in S : Max(S) >= x
  BY GreatestInt DEF Max

-----------------------------------------------------------------------------
(* Nodes that part the files and count their edges right                   *)

Blocks(n) ==
  /\ IsFiniteSet(DOMAIN n) /\ DOMAIN n \subseteq Nat
  /\ \A i \in DOMAIN n : n[i].members # {} /\ n[i].members \subseteq Nat
  /\ \A i, j \in DOMAIN n : i # j => n[i].members \cap n[j].members = {}
  /\ \A e \in edges : \A f \in e : \E i \in DOMAIN n : f \in n[i].members

Counts(n) ==
  \A i \in DOMAIN n :
    /\ n[i].self = Cardinality(Within(n[i].members))
    /\ n[i].degree = Ends(n[i].members)
    /\ DOMAIN n[i].neighbors
         = {j \in DOMAIN n \ {i} : Meets(n[i].members, n[j].members) # {}}
    /\ \A j \in DOMAIN n[i].neighbors :
         n[i].neighbors[j] = Cardinality(Meets(n[i].members, n[j].members))

(* The files that an assignment gives a community.                         *)
Held(n, a, c) == UNION {n[i].members : i \in {j \in DOMAIN n : a[j] = c}}

(* An edge has only two ends.                                              *)
LEMMA TwoEnds ==
  ASSUME Graph, NEW e \in edges, NEW b, NEW c, NEW d,
         b \cap c = {}, b \cap d = {}, c \cap d = {}
  PROVE  e \cap b = {} \/ e \cap c = {} \/ e \cap d = {}
  BY DEF Graph

(* The links of a node to some of the others, however they are chosen.     *)
LEMMA WeightsAdd ==
  ASSUME Graph, NEW n, Blocks(n), Counts(n), NEW i \in DOMAIN n,
         NEW J \in SUBSET (DOMAIN n \ {i})
  PROVE  Sum(n[i].neighbors, J \cap DOMAIN n[i].neighbors)
           = Cardinality(Meets(n[i].members, UNION {n[j].members : j \in J}))
<1> DEFINE m == n[i].members
           N == J \cap DOMAIN n[i].neighbors
           F == [j \in N |-> Meets(m, n[j].members)]
           sizes == [j \in N |-> Cardinality(F[j])]
<1>1. IsFiniteSet(N)
  <2>1. N \in SUBSET DOMAIN n
    OBVIOUS
  <2> QED BY <2>1, FS_Subset DEF Blocks
<1>2. \A j \in N : IsFiniteSet(F[j]) /\ Cardinality(F[j]) \in Nat
  BY EdgeSets DEF Meets
<1>3. ASSUME NEW j \in N, NEW k \in N, j # k
      PROVE  F[j] \cap F[k] = {}
  <2>1. /\ m \cap n[j].members = {} /\ m \cap n[k].members = {}
        /\ n[j].members \cap n[k].members = {}
    BY <1>3 DEF Blocks
  <2>2. ASSUME NEW e \in edges
        PROVE  e \cap m = {} \/ e \cap n[j].members = {} \/ e \cap n[k].members = {}
    <3> DEFINE x == n[j].members
               y == n[k].members
    <3>1. m \cap x = {} /\ m \cap y = {} /\ x \cap y = {}
      BY <2>1
    <3> HIDE DEF m, x, y
    <3>2. e \cap m = {} \/ e \cap x = {} \/ e \cap y = {}
      BY <3>1, TwoEnds
    <3> QED BY <3>2 DEF x, y
  <2> QED BY <2>2 DEF Meets
<1>4. UNION {F[j] : j \in N} = Meets(m, UNION {n[j].members : j \in J})
  <2>1. ASSUME NEW e \in edges, e \in UNION {F[j] : j \in N}
        PROVE  e \in Meets(m, UNION {n[j].members : j \in J})
    <3>1. PICK j \in N : e \in Meets(m, n[j].members)
      BY <2>1
    <3>2. n[j].members \subseteq UNION {n[k].members : k \in J}
      OBVIOUS
    <3> QED BY <3>1, <3>2 DEF Meets
  <2>2. ASSUME NEW e \in Meets(m, UNION {n[j].members : j \in J})
        PROVE  e \in UNION {F[j] : j \in N}
    <3>1. PICK j \in J : e \cap n[j].members # {}
      BY DEF Meets
    <3>2. e \in Meets(m, n[j].members)
      BY <3>1 DEF Meets
    <3>3. j \in N
      BY <3>2 DEF Counts
    <3> QED BY <3>2, <3>3
  <2>3. UNION {F[j] : j \in N} \subseteq edges
    BY DEF Meets
  <2> HIDE DEF F, N, m
  <2> QED BY <2>1, <2>2, <2>3
<1>5. \A j \in N : n[i].neighbors[j] = sizes[j] /\ sizes[j] \in Int
  <2>1. \A j \in N : n[i].neighbors[j] = Cardinality(F[j])
    BY DEF Counts
  <2> HIDE DEF F, N
  <2> QED BY <1>2, <2>1
<1> HIDE DEF F, N, m
<1>6. Sum(sizes, N) = Cardinality(UNION {F[j] : j \in N})
  BY <1>1, <1>2, <1>3, SumOfSizes
<1> HIDE DEF sizes
<1>7. Sum(n[i].neighbors, N) = Sum(sizes, N)
  BY <1>1, <1>5, SumSame
<1> QED BY <1>4, <1>6, <1>7 DEF N, m

-----------------------------------------------------------------------------
(* The communities an assignment stands for                                *)

Assignment(n, a) == a \in [DOMAIN n -> DOMAIN n]

(* The communities: the sets of files, none empty.                         *)
Parts(n, a) == {Held(n, a, c) : c \in DOMAIN n} \ {{}}

(* Communities are apart, and those that nodes are assigned to are all.    *)
LEMMA HeldApart ==
  ASSUME NEW n, Blocks(n), NEW a, NEW c, NEW d, c # d
  PROVE  Held(n, a, c) \cap Held(n, a, d) = {}
  BY DEF Blocks, Held

LEMMA HeldByRange ==
  ASSUME NEW n, Blocks(n), NEW a, Assignment(n, a)
  PROVE  {Held(n, a, c) : c \in Range(a)} = Parts(n, a)
<1>1. Range(a) \subseteq DOMAIN n
  BY DEF Assignment, Range
<1>2. \A c \in Range(a) : Held(n, a, c) # {}
  <2> SUFFICES ASSUME NEW i \in DOMAIN n
               PROVE  Held(n, a, a[i]) # {}
    BY DEF Assignment, Range
  <2>1. PICK f : f \in n[i].members
    BY DEF Blocks
  <2> QED BY <2>1 DEF Held
<1>3. \A c \in DOMAIN n \ Range(a) : Held(n, a, c) = {}
  BY DEF Assignment, Range, Held
<1> QED BY <1>1, <1>2, <1>3 DEF Parts

LEMMA PartsFinite ==
  ASSUME NEW n, Blocks(n), NEW a
  PROVE  IsFiniteSet(Parts(n, a))
<1> DEFINE f == [c \in DOMAIN n |-> Held(n, a, c)]
<1>1. IsFiniteSet({f[c] : c \in DOMAIN n})
  <2> HIDE DEF f
  <2> QED BY FiniteImage DEF Blocks
<1>2. Parts(n, a) \in SUBSET {f[c] : c \in DOMAIN n}
  BY DEF Parts
<1> HIDE DEF f
<1> QED BY <1>1, <1>2, FS_Subset

(* Every file is in a community.                                           *)
LEMMA PartsCover ==
  ASSUME NEW n, NEW a, Assignment(n, a)
  PROVE  UNION Parts(n, a) = UNION {n[i].members : i \in DOMAIN n}
<1>1. \A i \in DOMAIN n : n[i].members \subseteq Held(n, a, a[i]) /\ a[i] \in DOMAIN n
  BY DEF Held, Assignment
<1>2. UNION {n[i].members : i \in DOMAIN n} \subseteq UNION Parts(n, a)
  <2> SUFFICES ASSUME NEW i \in DOMAIN n, NEW f \in n[i].members
               PROVE  f \in UNION Parts(n, a)
    OBVIOUS
  <2>1. f \in Held(n, a, a[i]) /\ a[i] \in DOMAIN n
    BY <1>1
  <2> QED BY <2>1 DEF Parts
<1>3. UNION Parts(n, a) \subseteq UNION {n[i].members : i \in DOMAIN n}
  BY DEF Parts, Held
<1> QED BY <1>2, <1>3

(* What a change of one node's community does to the partition.            *)
LEMMA PartsMove ==
  ASSUME NEW n, Blocks(n), NEW a, Assignment(n, a),
         NEW id \in DOMAIN n, NEW to \in DOMAIN n, to # a[id], Held(n, a, to) # {},
         NEW b, Assignment(n, b), b[id] = to, \A i \in DOMAIN n \ {id} : b[i] = a[i]
  PROVE  /\ Held(n, b, a[id]) = Held(n, a, a[id]) \ n[id].members
         /\ Held(n, b, to) = Held(n, a, to) \cup n[id].members
         /\ \A c : c \notin {a[id], to} => Held(n, b, c) = Held(n, a, c)
         /\ Parts(n, b)
              = ((Parts(n, a) \ {Held(n, a, a[id]), Held(n, a, to)})
                   \cup {Held(n, a, a[id]) \ n[id].members,
                         Held(n, a, to) \cup n[id].members}) \ {{}}
<1>1. b[id] = to /\ \A i \in DOMAIN n \ {id} : b[i] = a[i]
  OBVIOUS
<1>2. Held(n, b, a[id]) = Held(n, a, a[id]) \ n[id].members
  <2>1. \A i \in DOMAIN n \ {id} : n[i].members \cap n[id].members = {}
    BY DEF Blocks
  <2>2. {j \in DOMAIN n : b[j] = a[id]} = {j \in DOMAIN n : a[j] = a[id]} \ {id}
    BY <1>1
  <2> QED BY <2>1, <2>2 DEF Held
<1>3. Held(n, b, to) = Held(n, a, to) \cup n[id].members
  <2>1. {j \in DOMAIN n : b[j] = to} = {j \in DOMAIN n : a[j] = to} \cup {id}
    BY <1>1
  <2> QED BY <2>1 DEF Held
<1>4. \A c : c \notin {a[id], to} => Held(n, b, c) = Held(n, a, c)
  <2> SUFFICES ASSUME NEW c, c \notin {a[id], to}
               PROVE  Held(n, b, c) = Held(n, a, c)
    OBVIOUS
  <2>1. {j \in DOMAIN n : b[j] = c} = {j \in DOMAIN n : a[j] = c}
    BY <1>1
  <2> QED BY <2>1 DEF Held
<1> DEFINE home == Held(n, a, a[id])
           host == Held(n, a, to)
           m == n[id].members
<1>5. /\ a[id] \in DOMAIN n /\ home # {} /\ host # {} /\ m # {} /\ m \subseteq home
      /\ \A c \in DOMAIN n : c \notin {a[id], to} =>
           Held(n, a, c) \cap home = {} /\ Held(n, a, c) \cap host = {}
  <2>1. a[id] \in DOMAIN n
    BY DEF Assignment
  <2>2. m # {} /\ m \subseteq home
    BY DEF Blocks, Held
  <2> QED BY <2>1, <2>2, HeldApart
<1>6. ASSUME NEW s \in Parts(n, b)
      PROVE  s \in ((Parts(n, a) \ {home, host}) \cup {home \ m, host \cup m}) \ {{}}
  <2>1. PICK c \in DOMAIN n : s = Held(n, b, c) /\ s # {}
    BY DEF Parts
  <2>2. CASE c \in {a[id], to}
    BY <1>2, <1>3, <2>1, <2>2
  <2>3. CASE c \notin {a[id], to}
    <3>1. s = Held(n, a, c)
      BY <1>4, <2>1, <2>3
    <3>2. s # home /\ s # host
      BY <1>5, <2>1, <2>3, <3>1
    <3> QED BY <2>1, <3>1, <3>2 DEF Parts
  <2> QED BY <2>2, <2>3
<1>7. ASSUME NEW s \in ((Parts(n, a) \ {home, host}) \cup {home \ m, host \cup m}) \ {{}}
      PROVE  s \in Parts(n, b)
  <2>1. CASE s = home \ m
    BY <1>2, <1>5, <2>1 DEF Parts
  <2>2. CASE s = host \cup m
    BY <1>3, <2>2 DEF Parts
  <2>3. CASE s \in Parts(n, a) \ {home, host}
    <3>1. PICK c \in DOMAIN n : s = Held(n, a, c)
      BY <2>3 DEF Parts
    <3>2. c \notin {a[id], to}
      BY <2>3, <3>1
    <3> QED BY <1>4, <3>1, <3>2 DEF Parts
  <2> QED BY <2>1, <2>2, <2>3
<1>8. Parts(n, b) = ((Parts(n, a) \ {home, host}) \cup {home \ m, host \cup m}) \ {{}}
  BY <1>6, <1>7
<1> QED BY <1>1, <1>2, <1>3, <1>4, <1>8

-----------------------------------------------------------------------------
(* One visit                                                               *)

(* The inductive invariant: every count is of edges of the file graph.     *)
LouvainInv ==
  /\ Graph /\ Blocks(nodes) /\ Counts(nodes)
  /\ Assignment(nodes, assigned)
  /\ degrees = [c \in DOMAIN nodes |-> Ends(Held(nodes, assigned, c))]
  /\ pending \subseteq DOMAIN nodes

(* The links to a community count the edges to the rest of it.             *)
LEMMA LinksCounted ==
  ASSUME LouvainInv, NEW id \in DOMAIN nodes, NEW c
  PROVE  Links(id, c)
           = Cardinality(Meets(nodes[id].members,
                               Held(nodes, assigned, c) \ nodes[id].members))
<1> DEFINE J == {j \in DOMAIN nodes \ {id} : assigned[j] = c}
<1>1. J \cap DOMAIN nodes[id].neighbors
        = {j \in DOMAIN nodes[id].neighbors : assigned[j] = c}
  <2>1. DOMAIN nodes[id].neighbors \subseteq DOMAIN nodes \ {id}
    BY DEF LouvainInv, Counts
  <2> QED BY <2>1
<1>2. UNION {nodes[j].members : j \in J}
        = Held(nodes, assigned, c) \ nodes[id].members
  <2>1. \A j \in J : nodes[j].members \cap nodes[id].members = {}
    BY DEF LouvainInv, Blocks
  <2> QED BY <2>1 DEF Held
<1>3. J \in SUBSET (DOMAIN nodes \ {id})
  OBVIOUS
<1> HIDE DEF J
<1>4. Sum(nodes[id].neighbors, J \cap DOMAIN nodes[id].neighbors)
        = Cardinality(Meets(nodes[id].members, UNION {nodes[j].members : j \in J}))
  BY <1>3, WeightsAdd DEF LouvainInv
<1> QED BY <1>1, <1>2, <1>4, LinksAreSummed

(* What modularity gains when files move from one community to another.    *)
Gain(m, home, host) ==
  4 * M * (Cardinality(Meets(m, host)) - Cardinality(Meets(m, home \ m)))
    + 2 * Ends(m) * (Ends(home) - Ends(host)) - 2 * Ends(m) * Ends(m)

LEMMA GainInt ==
  ASSUME Graph, NEW m, NEW home, NEW host
  PROVE  Gain(m, home, host) \in Int
<1>1. /\ Ends(m) \in Nat /\ Ends(home) \in Nat /\ Ends(host) \in Nat /\ M \in Nat
      /\ Cardinality(Meets(m, host)) \in Nat /\ Cardinality(Meets(m, home \ m)) \in Nat
  BY EndsNat, EdgeSets DEF Meets, M
<1> QED BY <1>1 DEF Gain

(* The gain that is computed is the gain in modularity.                    *)
LEMMA DeltaIsGain ==
  ASSUME LouvainInv, NEW id \in DOMAIN nodes, NEW c \in DOMAIN nodes, c # assigned[id]
  PROVE  /\ MoveDelta(id, c) = Gain(nodes[id].members,
                                    Held(nodes, assigned, assigned[id]),
                                    Held(nodes, assigned, c))
         /\ MoveDelta(id, c) \in Int
<1>1. /\ assigned[id] \in DOMAIN nodes
      /\ nodes[id].degree = Ends(nodes[id].members)
      /\ degrees[assigned[id]] = Ends(Held(nodes, assigned, assigned[id]))
      /\ degrees[c] = Ends(Held(nodes, assigned, c))
  BY DEF LouvainInv, Counts, Assignment
<1>2. Held(nodes, assigned, c) \ nodes[id].members = Held(nodes, assigned, c)
  <2>1. nodes[id].members \subseteq Held(nodes, assigned, assigned[id])
    BY DEF Held
  <2>2. Held(nodes, assigned, assigned[id]) \cap Held(nodes, assigned, c) = {}
    BY HeldApart DEF LouvainInv
  <2> QED BY <2>1, <2>2
<1>3. MoveDelta(id, c) = Gain(nodes[id].members, Held(nodes, assigned, assigned[id]),
                              Held(nodes, assigned, c))
  BY <1>1, <1>2, LinksCounted DEF MoveDelta, Gain
<1> QED BY <1>3, GainInt DEF LouvainInv

(* A node moves only to a community that is there, and only to gain.       *)
LEMMA BestGains ==
  ASSUME LouvainInv, NEW id \in DOMAIN nodes, BestCommunity(id) # assigned[id]
  PROVE  /\ BestCommunity(id) \in DOMAIN nodes
         /\ Held(nodes, assigned, BestCommunity(id)) # {}
         /\ MoveDelta(id, BestCommunity(id)) > 0
<1> DEFINE around == {assigned[n] : n \in DOMAIN nodes[id].neighbors} \ {assigned[id]}
           deltas == [c \in around |-> MoveDelta(id, c)]
           gains == {0} \cup {MoveDelta(id, c) : c \in around}
           best == Max(gains)
           winners == {c \in around : MoveDelta(id, c) = best}
<1>1. \A c \in around : /\ c \in DOMAIN nodes /\ c # assigned[id]
                        /\ Held(nodes, assigned, c) # {}
  <2> SUFFICES ASSUME NEW n \in DOMAIN nodes[id].neighbors
               PROVE  assigned[n] \in DOMAIN nodes /\ Held(nodes, assigned, assigned[n]) # {}
    OBVIOUS
  <2>1. n \in DOMAIN nodes /\ assigned[n] \in DOMAIN nodes /\ nodes[n].members # {}
    BY DEF LouvainInv, Counts, Assignment, Blocks
  <2>2. nodes[n].members \subseteq Held(nodes, assigned, assigned[n])
    BY <2>1 DEF Held
  <2> QED BY <2>1, <2>2
<1>2. IsFiniteSet(around)
  <2>1. around \in SUBSET DOMAIN nodes
    BY <1>1
  <2> QED BY <2>1, FS_Subset DEF LouvainInv, Blocks
<1>3. \A c \in around : MoveDelta(id, c) \in Int
  BY <1>1, DeltaIsGain
<1>4. IsFiniteSet(gains) /\ gains # {} /\ gains \subseteq Int
  <2>1. {deltas[c] : c \in around} = {MoveDelta(id, c) : c \in around}
    OBVIOUS
  <2>2. IsFiniteSet({deltas[c] : c \in around})
    <3> HIDE DEF deltas, around
    <3> QED BY <1>2, FiniteImage
  <2>3. IsFiniteSet({0})
    BY FS_Singleton
  <2>4. IsFiniteSet(gains)
    <3>1. IsFiniteSet({MoveDelta(id, c) : c \in around})
      BY <2>1, <2>2
    <3> HIDE DEF around
    <3> QED BY <2>3, <3>1, FS_Union
  <2> HIDE DEF around
  <2> QED BY <1>3, <2>4
<1>5. best \in gains /\ best >= 0 /\ best \in Int
  <2>1. 0 \in gains
    OBVIOUS
  <2> HIDE DEF gains
  <2> QED BY <1>4, <2>1, GreatestExists
<1>6. BestCommunity(id) = IF best = 0 THEN assigned[id] ELSE Min(winners)
  BY DEF BestCommunity
<1> HIDE DEF around
<1>7. best # 0 /\ BestCommunity(id) = Min(winners)
  <2> HIDE DEF best, winners
  <2> QED BY <1>6
<1>8. winners # {} /\ winners \in SUBSET Nat
  <2>1. PICK c \in around : MoveDelta(id, c) = best
    BY <1>5, <1>7
  <2>2. winners \subseteq DOMAIN nodes
    BY <1>1
  <2> QED BY <2>1, <2>2 DEF LouvainInv, Blocks
<1>9. Min(winners) \in winners
  <2> HIDE DEF winners
  <2> QED BY <1>8, LeastExists
<1>10. MoveDelta(id, BestCommunity(id)) = best /\ BestCommunity(id) \in around
  <2> HIDE DEF best
  <2> QED BY <1>7, <1>9
<1> HIDE DEF best, winners, gains
<1>11. best > 0
  BY <1>5, <1>7
<1> DEFINE to == BestCommunity(id)
<1>12. to \in DOMAIN nodes /\ Held(nodes, assigned, to) # {}
  <2>1. to \in around
    BY <1>10
  <2> HIDE DEF to
  <2> QED BY <1>1, <2>1
<1> QED BY <1>10, <1>11, <1>12

-----------------------------------------------------------------------------
(* Aggregation                                                             *)

(* The definitions inside of AggregateNodes, by their names there.         *)
NewId(old, home, i) == Min(Held(old, home, home[i]))

NewIds(old, home) == {NewId(old, home, i) : i \in DOMAIN old}

Olds(old, home, n) == {i \in DOMAIN old : NewId(old, home, i) = n}

Linked(old, home, n, k) ==
  {p \in Olds(old, home, n) \X Olds(old, home, k) :
     p[2] \in DOMAIN old[p[1]].neighbors /\ (n = k => p[1] < p[2])}

Weight(old, home, n, k) ==
  MapThenSumSet(LAMBDA p : old[p[1]].neighbors[p[2]], Linked(old, home, n, k))

Self(old, home, n) ==
  MapThenSumSet(LAMBDA i : old[i].self, Olds(old, home, n)) + Weight(old, home, n, n)

Around(old, home, n) ==
  {k \in NewIds(old, home) \ {n} : Weight(old, home, n, k) > 0}

LEMMA AggregatedAs ==
  ASSUME NEW old, NEW home
  PROVE  AggregateNodes(old, home)
           = [n \in NewIds(old, home) |->
                [members |-> UNION {old[i].members : i \in Olds(old, home, n)},
                 self |-> Self(old, home, n),
                 degree |-> 2 * Self(old, home, n)
                   + MapThenSumSet(LAMBDA k : Weight(old, home, n, k),
                                   Around(old, home, n)),
                 neighbors |-> [k \in Around(old, home, n) |-> Weight(old, home, n, k)]]]
  BY DEF AggregateNodes, Self, Around, Weight, Linked, Olds, NewIds, NewId, Held,
         MapThenSumSet, MapThenFoldSet

(* Its sums, said with a function.                                         *)
LEMMA WeightIsSum ==
  ASSUME NEW old, NEW home, NEW n, NEW k, IsFiniteSet(Linked(old, home, n, k))
  PROVE  Weight(old, home, n, k)
           = Sum([p \in Linked(old, home, n, k) |-> old[p[1]].neighbors[p[2]]],
                 Linked(old, home, n, k))
<1> DEFINE S == Linked(old, home, n, k)
           f == [p \in S |-> old[p[1]].neighbors[p[2]]]
           Value(p) == old[p[1]].neighbors[p[2]]
           Next(g, s) ==
             IF s = {} THEN 0
             ELSE Value(CHOOSE x \in s : TRUE) + g[s \ {CHOOSE x \in s : TRUE}]
           g == CHOOSE g : g = [s \in SUBSET S |-> Next(g, s)]
<1>0. IsFiniteSet(S)
  OBVIOUS
<1>1. \A h : \A s \in SUBSET S : Next(h, s) = Step(f, h, s)
  <2>1. \A x \in S : f[x] = Value(x)
    OBVIOUS
  <2> HIDE DEF f, Value, S
  <2> QED BY <2>1 DEF Step, OneOf
<1> HIDE DEF f, Next
<1>2. Totals(f, S) = Stepped(f, Totals(f, S), S)
  BY <1>0, TotalsExist
<1>3. \E h : h = [s \in SUBSET S |-> Next(h, s)]
  BY <1>1, <1>2 DEF Stepped
<1>4. g = [s \in SUBSET S |-> Next(g, s)]
  BY <1>3
<1> HIDE DEF g
<1>5. g = Stepped(f, g, S)
  BY <1>1, <1>4 DEF Stepped
<1>6. g[S] = Sum(f, S)
  <2> HIDE DEF S
  <2> QED BY ZenonT(60), <1>0, <1>5, SumIsUnique
<1>7. Weight(old, home, n, k) = g[S]
  BY DEF Weight, MapThenSumSet, MapThenFoldSet, g, Next
<1> QED BY <1>6, <1>7 DEF f

LEMMA SelfIsSum ==
  ASSUME NEW old, NEW home, NEW n, IsFiniteSet(Olds(old, home, n))
  PROVE  Self(old, home, n)
           = Sum([i \in Olds(old, home, n) |-> old[i].self], Olds(old, home, n))
               + Weight(old, home, n, n)
<1> DEFINE S == Olds(old, home, n)
           f == [i \in S |-> old[i].self]
           Value(i) == old[i].self
           Next(g, s) ==
             IF s = {} THEN 0
             ELSE Value(CHOOSE x \in s : TRUE) + g[s \ {CHOOSE x \in s : TRUE}]
           g == CHOOSE g : g = [s \in SUBSET S |-> Next(g, s)]
<1>0. IsFiniteSet(S)
  OBVIOUS
<1>1. \A h : \A s \in SUBSET S : Next(h, s) = Step(f, h, s)
  <2>1. \A x \in S : f[x] = Value(x)
    OBVIOUS
  <2> HIDE DEF f, Value, S
  <2> QED BY <2>1 DEF Step, OneOf
<1> HIDE DEF f, Next
<1>2. Totals(f, S) = Stepped(f, Totals(f, S), S)
  BY <1>0, TotalsExist
<1>3. \E h : h = [s \in SUBSET S |-> Next(h, s)]
  BY <1>1, <1>2 DEF Stepped
<1>4. g = [s \in SUBSET S |-> Next(g, s)]
  BY <1>3
<1> HIDE DEF g
<1>5. g = Stepped(f, g, S)
  BY <1>1, <1>4 DEF Stepped
<1>6. g[S] = Sum(f, S)
  <2> HIDE DEF S
  <2> QED BY <1>0, <1>5, SumIsUnique
<1>7. MapThenSumSet(LAMBDA i : old[i].self, S) = g[S]
  BY DEF MapThenSumSet, MapThenFoldSet, g, Next
<1>8. Self(old, home, n)
        = MapThenSumSet(LAMBDA i : old[i].self, S) + Weight(old, home, n, n)
  BY DEF Self, MapThenSumSet, MapThenFoldSet
<1> QED BY <1>6, <1>7, <1>8 DEF f

LEMMA AroundIsSum ==
  ASSUME NEW old, NEW home, NEW n, IsFiniteSet(Around(old, home, n))
  PROVE  MapThenSumSet(LAMBDA k : Weight(old, home, n, k), Around(old, home, n))
           = Sum([k \in Around(old, home, n) |-> Weight(old, home, n, k)],
                 Around(old, home, n))
<1> DEFINE S == Around(old, home, n)
           f == [k \in S |-> Weight(old, home, n, k)]
           Next(g, s) ==
             IF s = {} THEN 0
             ELSE Weight(old, home, n, CHOOSE x \in s : TRUE)
                    + g[s \ {CHOOSE x \in s : TRUE}]
           g == CHOOSE g : g = [s \in SUBSET S |-> Next(g, s)]
<1>0. IsFiniteSet(S)
  OBVIOUS
<1>1. \A h : \A s \in SUBSET S : Next(h, s) = Step(f, h, s)
  <2>1. \A x \in S : f[x] = Weight(old, home, n, x)
    OBVIOUS
  <2> HIDE DEF f, S
  <2> QED BY <2>1 DEF Step, OneOf
<1> HIDE DEF f, Next
<1>2. Totals(f, S) = Stepped(f, Totals(f, S), S)
  BY <1>0, TotalsExist
<1>3. \E h : h = [s \in SUBSET S |-> Next(h, s)]
  BY <1>1, <1>2 DEF Stepped
<1>4. g = [s \in SUBSET S |-> Next(g, s)]
  BY <1>3
<1> HIDE DEF g
<1>5. g = Stepped(f, g, S)
  BY <1>1, <1>4 DEF Stepped
<1>6. g[S] = Sum(f, S)
  <2> HIDE DEF S
  <2> QED BY <1>0, <1>5, SumIsUnique
<1>7. MapThenSumSet(LAMBDA k : Weight(old, home, n, k), S) = g[S]
  BY DEF MapThenSumSet, MapThenFoldSet, g, Next
<1> QED BY <1>6, <1>7 DEF f

(* The files of a new node, and whose name it bears.                       *)
Block(old, home, n) == UNION {old[i].members : i \in Olds(old, home, n)}

LEMMA NewIdNames ==
  ASSUME NEW old, Blocks(old), NEW home, Assignment(old, home), NEW i \in DOMAIN old
  PROVE  /\ NewId(old, home, i) \in Nat
         /\ NewId(old, home, i) \in Held(old, home, home[i])
         /\ \A j \in DOMAIN old :
              NewId(old, home, i) = NewId(old, home, j) <=> home[i] = home[j]
         /\ Block(old, home, NewId(old, home, i)) = Held(old, home, home[i])
<1>1. \A j \in DOMAIN old : /\ Held(old, home, home[j]) \in SUBSET Nat
                            /\ Held(old, home, home[j]) # {}
  <2> SUFFICES ASSUME NEW j \in DOMAIN old
               PROVE  /\ Held(old, home, home[j]) \in SUBSET Nat
                      /\ Held(old, home, home[j]) # {}
    OBVIOUS
  <2>1. old[j].members \subseteq Held(old, home, home[j]) /\ old[j].members # {}
    BY DEF Held, Blocks
  <2>2. Held(old, home, home[j]) \subseteq Nat
    BY DEF Held, Blocks
  <2> QED BY <2>1, <2>2
<1>2. \A j \in DOMAIN old : NewId(old, home, j) \in Held(old, home, home[j])
  BY <1>1, LeastExists DEF NewId
<1>3. \A j \in DOMAIN old :
        NewId(old, home, i) = NewId(old, home, j) <=> home[i] = home[j]
  <2> SUFFICES ASSUME NEW j \in DOMAIN old
               PROVE  NewId(old, home, i) = NewId(old, home, j) <=> home[i] = home[j]
    OBVIOUS
  <2>1. home[i] = home[j] => NewId(old, home, i) = NewId(old, home, j)
    BY DEF NewId
  <2>2. ASSUME home[i] # home[j]
        PROVE  NewId(old, home, i) # NewId(old, home, j)
    <3>1. Held(old, home, home[i]) \cap Held(old, home, home[j]) = {}
      BY <2>2, HeldApart
    <3> QED BY <1>2, <3>1
  <2> QED BY <2>1, <2>2
<1>4. Block(old, home, NewId(old, home, i)) = Held(old, home, home[i])
  <2>1. Olds(old, home, NewId(old, home, i)) = {j \in DOMAIN old : home[j] = home[i]}
    BY <1>3 DEF Olds
  <2> QED BY <2>1 DEF Block, Held
<1> QED BY <1>1, <1>2, <1>3, <1>4

(* Pairs of linked nodes, no pair both ways round.                         *)
Pairs(n, D) ==
  /\ D \subseteq (DOMAIN n) \X (DOMAIN n)
  /\ \A p \in D : p[2] \in DOMAIN n[p[1]].neighbors
  /\ \A p, q \in D : ~(p[1] = q[2] /\ p[2] = q[1])

Between(n, p) == Meets(n[p[1]].members, n[p[2]].members)

(* No edge is between two of the pairs, so their weights add up.           *)
LEMMA BetweenApart ==
  ASSUME Graph, NEW n, Blocks(n), Counts(n), NEW D, Pairs(n, D),
         NEW p \in D, NEW q \in D, p # q
  PROVE  Between(n, p) \cap Between(n, q) = {}
<1> SUFFICES ASSUME NEW e \in edges, e \in Between(n, p), e \in Between(n, q)
             PROVE  FALSE
  BY DEF Between, Meets
<1> DEFINE m(i) == n[i].members
<1>1. /\ p[1] \in DOMAIN n /\ p[2] \in DOMAIN n /\ q[1] \in DOMAIN n /\ q[2] \in DOMAIN n
      /\ p = <<p[1], p[2]>> /\ q = <<q[1], q[2]>>
      /\ p[1] # p[2] /\ q[1] # q[2]
      /\ ~(p[1] = q[2] /\ p[2] = q[1])
  BY DEF Pairs, Counts
<1>2. \A i, j \in DOMAIN n : i # j => m(i) \cap m(j) = {}
  BY DEF Blocks
<1>3. /\ e \cap m(p[1]) # {} /\ e \cap m(p[2]) # {}
      /\ e \cap m(q[1]) # {} /\ e \cap m(q[2]) # {}
  BY DEF Between, Meets
<1> HIDE DEF m
<1>4. \A i, j, k \in DOMAIN n :
        i # j /\ i # k /\ j # k =>
          e \cap m(i) = {} \/ e \cap m(j) = {} \/ e \cap m(k) = {}
  <2> SUFFICES ASSUME NEW i \in DOMAIN n, NEW j \in DOMAIN n, NEW k \in DOMAIN n,
                      i # j /\ i # k /\ j # k
               PROVE  e \cap m(i) = {} \/ e \cap m(j) = {} \/ e \cap m(k) = {}
    OBVIOUS
  <2>1. m(i) \cap m(j) = {} /\ m(i) \cap m(k) = {} /\ m(j) \cap m(k) = {}
    BY <1>2
  <2> QED BY <2>1, TwoEnds
<1>5. q[1] \in {p[1], p[2]} /\ q[2] \in {p[1], p[2]}
  BY <1>1, <1>3, <1>4
<1> QED BY <1>1, <1>5

LEMMA PairsAdd ==
  ASSUME Graph, NEW n, Blocks(n), Counts(n), NEW D, Pairs(n, D)
  PROVE  /\ IsFiniteSet(D) /\ IsFiniteSet(UNION {Between(n, p) : p \in D})
         /\ Sum([p \in D |-> n[p[1]].neighbors[p[2]]], D)
              = Cardinality(UNION {Between(n, p) : p \in D})
<1> DEFINE f == [p \in D |-> n[p[1]].neighbors[p[2]]]
           F == [p \in D |-> Between(n, p)]
           sizes == [p \in D |-> Cardinality(F[p])]
<1>1. IsFiniteSet(D)
  <2>1. IsFiniteSet((DOMAIN n) \X (DOMAIN n))
    BY FS_Product DEF Blocks
  <2> QED BY <2>1, FS_Subset DEF Pairs
<1>2. \A p \in D : IsFiniteSet(Between(n, p)) /\ Cardinality(Between(n, p)) \in Nat
  BY EdgeSets DEF Between, Meets
<1>3. \A p \in D : f[p] = Cardinality(Between(n, p))
  BY DEF Pairs, Counts, Between
<1>4. \A p \in D : F[p] = Between(n, p)
  OBVIOUS
<1>5. \A p, q \in D : p # q => F[p] \cap F[q] = {}
  BY <1>4, BetweenApart
<1>6. UNION {F[p] : p \in D} = UNION {Between(n, p) : p \in D}
  OBVIOUS
<1> HIDE DEF F, f
<1>7. \A p \in D : f[p] \in Int /\ f[p] = sizes[p]
  BY <1>2, <1>3, <1>4
<1>8. /\ IsFiniteSet(UNION {F[p] : p \in D})
      /\ Cardinality(UNION {F[p] : p \in D}) = Sum(sizes, D)
  <2>1. \A p \in D : IsFiniteSet(F[p])
    BY <1>2, <1>4
  <2> QED BY <1>1, <1>5, <2>1, SumOfSizes
<1> HIDE DEF sizes
<1>9. Sum(f, D) = Sum(sizes, D)
  BY <1>1, <1>7, SumSame
<1> QED BY <1>1, <1>6, <1>8, <1>9 DEF f

LEMMA LinkedPairs ==
  ASSUME NEW old, Blocks(old), Counts(old), NEW home, NEW n, NEW k
  PROVE  Pairs(old, Linked(old, home, n, k))
<1> DEFINE D == Linked(old, home, n, k)
<1>1. /\ D \subseteq (DOMAIN old) \X (DOMAIN old)
      /\ \A p \in D : p[2] \in DOMAIN old[p[1]].neighbors
  BY DEF Linked, Olds
<1>2. ASSUME NEW p \in D, NEW q \in D, p[1] = q[2], p[2] = q[1]
      PROVE  FALSE
  <2>1. /\ p[1] \in Olds(old, home, n) /\ p[2] \in Olds(old, home, k)
        /\ q[1] \in Olds(old, home, n) /\ q[2] \in Olds(old, home, k)
        /\ n = k => (p[1] < p[2] /\ q[1] < q[2])
    BY DEF Linked
  <2>2. n = k
    BY <1>2, <2>1 DEF Olds
  <2>3. p[1] \in Nat /\ p[2] \in Nat
    BY <2>1 DEF Olds, Blocks
  <2> QED BY <1>2, <2>1, <2>2, <2>3
<1> QED BY <1>1, <1>2 DEF Pairs

(* The weight between two communities counts edges, each one once.         *)
LEMMA WeightSound ==
  ASSUME Graph, NEW old, Blocks(old), Counts(old), NEW home, NEW n, NEW k
  PROVE  /\ Weight(old, home, n, k)
              = Cardinality(UNION {Between(old, p) : p \in Linked(old, home, n, k)})
         /\ IsFiniteSet(UNION {Between(old, p) : p \in Linked(old, home, n, k)})
         /\ Weight(old, home, n, k) \in Nat
<1>1. Pairs(old, Linked(old, home, n, k))
  BY LinkedPairs
<1> DEFINE D == Linked(old, home, n, k)
<1>2. Pairs(old, D)
  BY <1>1
<1> HIDE DEF D
<1>3. /\ IsFiniteSet(D) /\ IsFiniteSet(UNION {Between(old, p) : p \in D})
      /\ Sum([p \in D |-> old[p[1]].neighbors[p[2]]], D)
           = Cardinality(UNION {Between(old, p) : p \in D})
  BY <1>2, PairsAdd
<1>4. Weight(old, home, n, k) = Sum([p \in D |-> old[p[1]].neighbors[p[2]]], D)
  BY <1>3, WeightIsSum DEF D
<1>5. Cardinality(UNION {Between(old, p) : p \in D}) \in Nat
  BY <1>3, FS_CardinalityType
<1> QED BY <1>3, <1>4, <1>5 DEF D

(* The weight between communities counts the edges between their files.    *)
LEMMA WeightCounts ==
  ASSUME Graph, NEW old, Blocks(old), Counts(old), NEW home, NEW n, NEW k, n # k
  PROVE  Weight(old, home, n, k)
           = Cardinality(Meets(Block(old, home, n), Block(old, home, k)))
<1>1. UNION {Between(old, p) : p \in Linked(old, home, n, k)}
        \subseteq Meets(Block(old, home, n), Block(old, home, k))
  <2> SUFFICES ASSUME NEW p \in Linked(old, home, n, k), NEW e \in Between(old, p)
               PROVE  e \in Meets(Block(old, home, n), Block(old, home, k))
    OBVIOUS
  <2>1. /\ old[p[1]].members \subseteq Block(old, home, n)
        /\ old[p[2]].members \subseteq Block(old, home, k)
    <3>1. p[1] \in Olds(old, home, n) /\ p[2] \in Olds(old, home, k)
      BY DEF Linked
    <3> QED BY <3>1 DEF Block
  <2>2. e \in edges /\ e \cap old[p[1]].members # {} /\ e \cap old[p[2]].members # {}
    BY DEF Between, Meets
  <2> QED BY <2>1, <2>2 DEF Meets
<1>2. Meets(Block(old, home, n), Block(old, home, k))
        \subseteq UNION {Between(old, p) : p \in Linked(old, home, n, k)}
  <2> SUFFICES ASSUME NEW e \in Meets(Block(old, home, n), Block(old, home, k))
               PROVE  \E p \in Linked(old, home, n, k) : e \in Between(old, p)
    OBVIOUS
  <2>1. PICK i \in Olds(old, home, n) : e \cap old[i].members # {}
    BY DEF Meets, Block
  <2>2. PICK j \in Olds(old, home, k) : e \cap old[j].members # {}
    BY DEF Meets, Block
  <2>3. e \in Meets(old[i].members, old[j].members)
    BY <2>1, <2>2 DEF Meets
  <2>4. i \in DOMAIN old /\ j \in DOMAIN old /\ i # j
    BY DEF Olds
  <2>5. j \in DOMAIN old[i].neighbors
    BY <2>3, <2>4 DEF Counts
  <2>6. <<i, j>> \in Linked(old, home, n, k)
    BY <2>5 DEF Linked
  <2>7. e \in Between(old, <<i, j>>)
    BY <2>3 DEF Between
  <2> QED BY <2>6, <2>7
<1>3. UNION {Between(old, p) : p \in Linked(old, home, n, k)}
        = Meets(Block(old, home, n), Block(old, home, k))
  BY <1>1, <1>2
<1> QED BY <1>3, WeightSound

(* The edges within a community are those within its nodes and between two.*)
LEMMA SelfCounts ==
  ASSUME Graph, NEW old, Blocks(old), Counts(old), NEW home, NEW n
  PROVE  Self(old, home, n) = Cardinality(Within(Block(old, home, n)))
<1> DEFINE S == Olds(old, home, n)
           D == Linked(old, home, n, n)
           f == [i \in S |-> old[i].self]
           F == [i \in S |-> Within(old[i].members)]
           sizes == [i \in S |-> Cardinality(F[i])]
           inner == UNION {Within(old[i].members) : i \in S}
           outer == UNION {Between(old, p) : p \in D}
<1>1. IsFiniteSet(S)
  <2>1. S \in SUBSET DOMAIN old
    BY DEF Olds
  <2> QED BY <2>1, FS_Subset DEF Blocks
<1>2. \A e \in edges : e # {}
  BY DEF Graph
<1>3. /\ \A i \in S : /\ F[i] = Within(old[i].members)
                      /\ f[i] = Cardinality(F[i])
      /\ \A i \in S : IsFiniteSet(F[i]) /\ Cardinality(F[i]) \in Nat
  <2>1. \A i \in S : F[i] = Within(old[i].members) /\ f[i] = Cardinality(F[i])
    BY DEF Olds, Counts
  <2>2. \A i \in S : IsFiniteSet(F[i]) /\ Cardinality(F[i]) \in Nat
    BY EdgeSets DEF Within
  <2> QED BY <2>1, <2>2
<1>4. ASSUME NEW i \in S, NEW j \in S, i # j
      PROVE  F[i] \cap F[j] = {}
  <2>1. old[i].members \cap old[j].members = {}
    BY <1>4 DEF Olds, Blocks
  <2> QED BY <1>2, <2>1 DEF Within
<1>5. UNION {F[i] : i \in S} = inner
  OBVIOUS
<1>6. inner \cap outer = {}
  <2> SUFFICES ASSUME NEW i \in S, NEW p \in D, NEW e \in edges,
                      e \in Within(old[i].members), e \in Between(old, p)
               PROVE  FALSE
    BY DEF Within
  <2>1. /\ p[1] \in DOMAIN old /\ p[2] \in DOMAIN old /\ i \in DOMAIN old /\ p[1] < p[2]
        /\ p[1] \in Nat
    BY DEF Linked, Olds, Blocks
  <2>2. /\ e \cap old[p[1]].members # {} /\ e \cap old[p[2]].members # {}
        /\ e \subseteq old[i].members
    BY DEF Between, Meets, Within
  <2>3. p[1] = i /\ p[2] = i
    BY <2>1, <2>2 DEF Blocks
  <2> QED BY <2>1, <2>3
<1>7. Within(Block(old, home, n)) = inner \cup outer
  <2>1. ASSUME NEW e \in Within(Block(old, home, n))
        PROVE  e \in inner \cup outer
    <3>1. PICK a \in Nat, b \in Nat : a # b /\ e = {a, b}
      BY DEF Within, Graph
    <3>2. PICK i \in S : a \in old[i].members
      BY <3>1 DEF Within, Block
    <3>3. PICK j \in S : b \in old[j].members
      BY <3>1 DEF Within, Block
    <3>4. e \in edges /\ i \in DOMAIN old /\ j \in DOMAIN old /\ i \in Nat /\ j \in Nat
      BY DEF Within, Olds, Blocks
    <3>5. CASE i = j
      <4>1. e \in Within(old[i].members)
        BY <3>1, <3>2, <3>3, <3>4, <3>5 DEF Within
      <4> QED BY <4>1
    <3>6. CASE i < j
      <4>1. e \in Meets(old[i].members, old[j].members)
        BY <3>1, <3>2, <3>3, <3>4 DEF Meets
      <4>2. <<i, j>> \in D
        <5>1. j \in DOMAIN old[i].neighbors
          BY <3>4, <3>6, <4>1 DEF Counts
        <5> QED BY <3>6, <5>1 DEF Linked
      <4>3. e \in Between(old, <<i, j>>)
        BY <4>1 DEF Between
      <4> HIDE DEF D
      <4> QED BY <4>2, <4>3
    <3>7. CASE j < i
      <4>1. e \in Meets(old[j].members, old[i].members)
        BY <3>1, <3>2, <3>3, <3>4 DEF Meets
      <4>2. <<j, i>> \in D
        <5>1. i \in DOMAIN old[j].neighbors
          BY <3>4, <3>7, <4>1 DEF Counts
        <5> QED BY <3>7, <5>1 DEF Linked
      <4>3. e \in Between(old, <<j, i>>)
        BY <4>1 DEF Between
      <4> HIDE DEF D
      <4> QED BY <4>2, <4>3
    <3> QED BY <3>4, <3>5, <3>6, <3>7
  <2>2. \A i \in S : old[i].members \subseteq Block(old, home, n)
    BY DEF Block
  <2>3. inner \subseteq Within(Block(old, home, n))
    BY <2>2 DEF Within
  <2>4. outer \subseteq Within(Block(old, home, n))
    <3> SUFFICES ASSUME NEW p \in D, NEW e \in Between(old, p)
                 PROVE  e \in Within(Block(old, home, n))
      OBVIOUS
    <3>1. p[1] \in S /\ p[2] \in S /\ p[1] \in Nat /\ p[2] \in Nat /\ p[1] < p[2]
      BY DEF Linked, Olds, Blocks
    <3>2. old[p[1]].members \cap old[p[2]].members = {}
      BY <3>1 DEF Olds, Blocks
    <3>3. e \in edges /\ e \cap old[p[1]].members # {} /\ e \cap old[p[2]].members # {}
      BY DEF Between, Meets
    <3>4. e \subseteq old[p[1]].members \cup old[p[2]].members
      BY <3>2, <3>3 DEF Graph
    <3> QED BY <2>2, <3>1, <3>3, <3>4 DEF Within
  <2> QED BY <2>1, <2>3, <2>4
<1> HIDE DEF F, f
<1>8. Cardinality(inner) = Sum(sizes, S) /\ IsFiniteSet(inner)
  <2> HIDE DEF S, inner
  <2> QED BY <1>1, <1>3, <1>4, <1>5, SumOfSizes
<1>9. \A i \in S : f[i] \in Int /\ f[i] = sizes[i]
  BY <1>3
<1> HIDE DEF sizes
<1>10. Sum(f, S) = Cardinality(inner)
  <2> HIDE DEF S, inner
  <2>1. Sum(f, S) = Sum(sizes, S)
    BY <1>1, <1>9, SumSame
  <2> QED BY <1>8, <2>1
<1>11. Self(old, home, n) = Sum(f, S) + Weight(old, home, n, n)
  BY <1>1, SelfIsSum DEF f
<1>12. Weight(old, home, n, n) = Cardinality(outer) /\ IsFiniteSet(outer)
  BY WeightSound
<1> HIDE DEF inner, outer, S
<1>13. Cardinality(inner \cup outer) = Cardinality(inner) + Cardinality(outer)
  BY <1>6, <1>8, <1>12, SizeOfBoth
<1> QED BY <1>7, <1>10, <1>11, <1>12, <1>13

(* The communities that aggregation makes nodes of.                        *)
LEMMA BlocksOfIds ==
  ASSUME NEW old, Blocks(old), NEW home, Assignment(old, home)
  PROVE  /\ IsFiniteSet(NewIds(old, home)) /\ NewIds(old, home) \subseteq Nat
         /\ \A n \in NewIds(old, home) : /\ Block(old, home, n) # {}
                                         /\ Block(old, home, n) \subseteq Nat
         /\ \A n, k \in NewIds(old, home) :
              n # k => Block(old, home, n) \cap Block(old, home, k) = {}
         /\ \A i \in DOMAIN old :
              \E n \in NewIds(old, home) : old[i].members \subseteq Block(old, home, n)
<1>1. IsFiniteSet(NewIds(old, home))
  <2> DEFINE f == [i \in DOMAIN old |-> NewId(old, home, i)]
  <2>1. {f[i] : i \in DOMAIN old} = NewIds(old, home)
    BY DEF NewIds
  <2> HIDE DEF f
  <2>2. IsFiniteSet({f[i] : i \in DOMAIN old})
    BY FiniteImage DEF Blocks
  <2> QED BY <2>1, <2>2
<1>2. NewIds(old, home) \subseteq Nat
  BY NewIdNames DEF NewIds
<1>3. ASSUME NEW n \in NewIds(old, home)
      PROVE  Block(old, home, n) # {} /\ Block(old, home, n) \subseteq Nat
  <2>1. PICK i \in DOMAIN old : n = NewId(old, home, i)
    BY DEF NewIds
  <2>2. n \in Block(old, home, n)
    BY <2>1, NewIdNames
  <2>3. Block(old, home, n) \subseteq Nat
    BY DEF Block, Olds, Blocks
  <2> QED BY <2>2, <2>3
<1>4. ASSUME NEW n, NEW k, n # k
      PROVE  Block(old, home, n) \cap Block(old, home, k) = {}
  BY <1>4 DEF Block, Olds, Blocks
<1>5. ASSUME NEW i \in DOMAIN old
      PROVE  \E n \in NewIds(old, home) : old[i].members \subseteq Block(old, home, n)
  <2>1. /\ NewId(old, home, i) \in NewIds(old, home)
        /\ i \in Olds(old, home, NewId(old, home, i))
    BY DEF NewIds, Olds
  <2>2. old[i].members \subseteq Block(old, home, NewId(old, home, i))
    BY <2>1 DEF Block
  <2> QED BY <2>1, <2>2
<1> QED BY <1>1, <1>2, <1>3, <1>4, <1>5

LEMMA AroundMeets ==
  ASSUME Graph, NEW old, Blocks(old), Counts(old), NEW home, NEW n
  PROVE  Around(old, home, n)
           = {k \in NewIds(old, home) \ {n} :
                Meets(Block(old, home, n), Block(old, home, k)) # {}}
<1> SUFFICES ASSUME NEW k \in NewIds(old, home) \ {n}
             PROVE  Weight(old, home, n, k) > 0
                      <=> Meets(Block(old, home, n), Block(old, home, k)) # {}
  BY DEF Around
<1> DEFINE E == Meets(Block(old, home, n), Block(old, home, k))
<1>1. Weight(old, home, n, k) = Cardinality(E)
  BY WeightCounts
<1>2. IsFiniteSet(E) /\ Cardinality(E) \in Nat
  BY EdgeSets DEF Meets
<1> HIDE DEF E
<1>3. Cardinality(E) = 0 <=> E = {}
  BY <1>2, FS_EmptySet
<1> QED BY <1>1, <1>2, <1>3 DEF E

(* A degree counted from the weights around is the ends in the community.  *)
LEMMA DegreeCounts ==
  ASSUME Graph, NEW old, Blocks(old), Counts(old), NEW home, Assignment(old, home),
         NEW n \in NewIds(old, home)
  PROVE  2 * Self(old, home, n)
           + MapThenSumSet(LAMBDA k : Weight(old, home, n, k), Around(old, home, n))
         = Ends(Block(old, home, n))
<1> DEFINE b == Block(old, home, n)
           S == Around(old, home, n)
           f == [k \in S |-> Weight(old, home, n, k)]
           F == [k \in S |-> Meets(b, Block(old, home, k))]
           sizes == [k \in S |-> Cardinality(F[k])]
<1>1. IsFiniteSet(S) /\ S \subseteq NewIds(old, home) \ {n}
  <2>1. S \in SUBSET NewIds(old, home) /\ S \subseteq NewIds(old, home) \ {n}
    BY DEF Around
  <2>2. IsFiniteSet(NewIds(old, home))
    BY BlocksOfIds
  <2> HIDE DEF S
  <2> QED BY <2>1, <2>2, FS_Subset
<1>2. \A k \in S : /\ F[k] = Meets(b, Block(old, home, k))
                   /\ f[k] = Cardinality(F[k])
  <2>1. \A k \in S : F[k] = Meets(b, Block(old, home, k)) /\ f[k] = Weight(old, home, n, k)
    OBVIOUS
  <2>2. \A k \in S : Weight(old, home, n, k) = Cardinality(Meets(b, Block(old, home, k)))
    BY <1>1, WeightCounts
  <2> HIDE DEF F, f
  <2> QED BY <2>1, <2>2
<1>3. \A k \in S : IsFiniteSet(F[k]) /\ Cardinality(F[k]) \in Nat
  <2>1. \A k : Meets(b, Block(old, home, k)) \in SUBSET edges
    BY DEF Meets
  <2> HIDE DEF F
  <2> QED BY <1>2, <2>1, EdgeSets
<1>4. ASSUME NEW k \in S, NEW l \in S, k # l
      PROVE  F[k] \cap F[l] = {}
  <2> DEFINE x == Block(old, home, k)
             y == Block(old, home, l)
  <2>1. b \cap x = {} /\ b \cap y = {} /\ x \cap y = {}
    BY <1>1, <1>4, BlocksOfIds
  <2>2. F[k] = Meets(b, x) /\ F[l] = Meets(b, y)
    OBVIOUS
  <2> HIDE DEF F, b, x, y
  <2>3. \A e \in edges : e \cap b = {} \/ e \cap x = {} \/ e \cap y = {}
    BY <2>1, TwoEnds
  <2> QED BY <2>2, <2>3 DEF Meets
<1>5. UNION {F[k] : k \in S} = Leaving(b)
  <2>1. ASSUME NEW k \in S, NEW e \in F[k]
        PROVE  e \in Leaving(b)
    <3>1. e \in Meets(b, Block(old, home, k))
      BY <1>2
    <3>2. b \cap Block(old, home, k) = {}
      BY <1>1, BlocksOfIds
    <3> QED BY <3>1, <3>2 DEF Meets, Leaving
  <2>2. ASSUME NEW e \in Leaving(b)
        PROVE  \E k \in S : e \in F[k]
    <3>1. PICK g \in e : g \notin b
      BY DEF Leaving
    <3>2. e \in edges
      BY DEF Leaving
    <3>3. PICK i \in DOMAIN old : g \in old[i].members
      BY <3>2 DEF Blocks
    <3>4. PICK k \in NewIds(old, home) : old[i].members \subseteq Block(old, home, k)
      BY BlocksOfIds
    <3>5. k # n
      BY <3>1, <3>3, <3>4
    <3>6. e \in Meets(b, Block(old, home, k))
      BY <3>2, <3>3, <3>4 DEF Meets, Leaving
    <3>7. k \in S
      BY <3>5, <3>6, AroundMeets
    <3> QED BY <1>2, <3>6, <3>7
  <2> HIDE DEF F, S, b
  <2> QED BY <2>1, <2>2
<1> HIDE DEF F, f
<1>6. Cardinality(Leaving(b)) = Sum(sizes, S)
  <2> HIDE DEF S, b
  <2> QED BY <1>1, <1>3, <1>4, <1>5, SumOfSizes
<1>7. \A k \in S : f[k] \in Int /\ f[k] = sizes[k]
  BY <1>2, <1>3
<1> HIDE DEF sizes
<1>8. Sum(f, S) = Cardinality(Leaving(b))
  <2> HIDE DEF S, b
  <2>1. Sum(f, S) = Sum(sizes, S)
    BY <1>1, <1>7, SumSame
  <2> QED BY <1>6, <2>1
<1>9. MapThenSumSet(LAMBDA k : Weight(old, home, n, k), Around(old, home, n)) = Sum(f, S)
  BY <1>1, AroundIsSum DEF f
<1>10. Self(old, home, n) = Cardinality(Within(b))
  BY SelfCounts
<1> QED BY <1>8, <1>9, <1>10, EndsCounted

(* The new nodes part the files, count right and stand for the same        *)
(* communities.                                                            *)
LEMMA AggregateSound ==
  ASSUME Graph, NEW old, Blocks(old), Counts(old), NEW home, Assignment(old, home),
         NEW new, new = AggregateNodes(old, home)
  PROVE  /\ Blocks(new) /\ Counts(new)
         /\ {new[n].members : n \in DOMAIN new} = Parts(old, home)
<1>1. /\ DOMAIN new = NewIds(old, home)
      /\ \A n \in DOMAIN new :
           /\ new[n].members = Block(old, home, n)
           /\ new[n].self = Self(old, home, n)
           /\ new[n].degree = Ends(Block(old, home, n))
           /\ DOMAIN new[n].neighbors = Around(old, home, n)
           /\ \A k \in Around(old, home, n) :
                new[n].neighbors[k] = Weight(old, home, n, k)
  <2>1. /\ DOMAIN new = NewIds(old, home)
        /\ \A n \in DOMAIN new :
             /\ new[n].members = Block(old, home, n)
             /\ new[n].self = Self(old, home, n)
             /\ DOMAIN new[n].neighbors = Around(old, home, n)
             /\ \A k \in Around(old, home, n) :
                  new[n].neighbors[k] = Weight(old, home, n, k)
    BY AggregatedAs DEF Block, MapThenSumSet, MapThenFoldSet
  <2>2. ASSUME NEW n \in DOMAIN new
        PROVE  new[n].degree = Ends(Block(old, home, n))
    <3>1. new[n].degree
            = 2 * Self(old, home, n)
                + MapThenSumSet(LAMBDA k : Weight(old, home, n, k),
                                Around(old, home, n))
      BY AggregatedAs DEF MapThenSumSet, MapThenFoldSet
    <3>2. n \in NewIds(old, home)
      BY <2>1
    <3> QED BY <3>1, <3>2, DegreeCounts
  <2> QED BY <2>1, <2>2
<1>2. Blocks(new)
  <2>1. IsFiniteSet(DOMAIN new) /\ DOMAIN new \subseteq Nat
    BY <1>1, BlocksOfIds
  <2>2. \A n \in DOMAIN new : new[n].members # {} /\ new[n].members \subseteq Nat
    BY <1>1, BlocksOfIds
  <2>3. \A n, k \in DOMAIN new : n # k => new[n].members \cap new[k].members = {}
    BY <1>1, BlocksOfIds
  <2>4. ASSUME NEW e \in edges, NEW f \in e
        PROVE  \E n \in DOMAIN new : f \in new[n].members
    <3>1. PICK i \in DOMAIN old : f \in old[i].members
      BY DEF Blocks
    <3>2. PICK n \in NewIds(old, home) : old[i].members \subseteq Block(old, home, n)
      BY BlocksOfIds
    <3> QED BY <1>1, <3>1, <3>2
  <2> QED BY <2>1, <2>2, <2>3, <2>4 DEF Blocks
<1>3. Counts(new)
  <2> SUFFICES ASSUME NEW n \in DOMAIN new
               PROVE  /\ new[n].self = Cardinality(Within(new[n].members))
                      /\ new[n].degree = Ends(new[n].members)
                      /\ DOMAIN new[n].neighbors
                           = {k \in DOMAIN new \ {n} :
                                Meets(new[n].members, new[k].members) # {}}
                      /\ \A k \in DOMAIN new[n].neighbors :
                           new[n].neighbors[k]
                             = Cardinality(Meets(new[n].members, new[k].members))
    BY DEF Counts
  <2>1. new[n].self = Cardinality(Within(new[n].members))
    BY <1>1, SelfCounts
  <2>2. new[n].degree = Ends(new[n].members)
    BY <1>1
  <2>3. DOMAIN new[n].neighbors = Around(old, home, n)
    BY <1>1
  <2>4. Around(old, home, n)
          = {k \in DOMAIN new \ {n} : Meets(new[n].members, new[k].members) # {}}
    BY <1>1, AroundMeets
  <2>5. ASSUME NEW k \in DOMAIN new[n].neighbors
        PROVE  new[n].neighbors[k]
                 = Cardinality(Meets(new[n].members, new[k].members))
    <3>1. k \in Around(old, home, n) /\ k \in DOMAIN new /\ k # n
      BY <2>3, <2>4
    <3>2. new[n].neighbors[k] = Weight(old, home, n, k)
      BY <1>1, <3>1
    <3> QED BY <1>1, <3>1, <3>2, WeightCounts
  <2> QED BY <2>1, <2>2, <2>3, <2>4, <2>5
<1>4. {new[n].members : n \in DOMAIN new} = Parts(old, home)
  <2>1. \A i \in DOMAIN old : /\ NewId(old, home, i) \in DOMAIN new
                              /\ new[NewId(old, home, i)].members
                                   = Held(old, home, home[i])
    BY <1>1, NewIdNames DEF NewIds
  <2>2. \A n \in DOMAIN new : \E i \in DOMAIN old : n = NewId(old, home, i)
    BY <1>1 DEF NewIds
  <2>3. {Held(old, home, c) : c \in Range(home)} = Parts(old, home)
    BY HeldByRange
  <2>4. Range(home) = {home[i] : i \in DOMAIN old}
    BY DEF Range, Assignment
  <2>5. {new[n].members : n \in DOMAIN new} = {Held(old, home, home[i]) : i \in DOMAIN old}
    BY <2>1, <2>2
  <2>6. {Held(old, home, c) : c \in Range(home)} = {Held(old, home, home[i]) : i \in DOMAIN old}
    BY <2>4
  <2> QED BY <2>3, <2>5, <2>6
<1> QED BY <1>2, <1>3, <1>4

(* Nodes each in a community of its own.                                   *)
LEMMA SingletonsHold ==
  ASSUME NEW n, Blocks(n)
  PROVE  /\ Assignment(n, Singletons(n))
         /\ \A i \in DOMAIN n : Held(n, Singletons(n), i) = n[i].members
         /\ Parts(n, Singletons(n)) = {n[i].members : i \in DOMAIN n}
<1>1. Assignment(n, Singletons(n))
  BY DEF Assignment, Singletons
<1>2. ASSUME NEW i \in DOMAIN n
      PROVE  Held(n, Singletons(n), i) = n[i].members
  <2>1. {j \in DOMAIN n : Singletons(n)[j] = i} = {i}
    BY DEF Singletons
  <2> QED BY <2>1 DEF Held
<1>3. Parts(n, Singletons(n)) = {n[i].members : i \in DOMAIN n}
  BY <1>2 DEF Parts, Blocks
<1> QED BY <1>1, <1>2, <1>3

-----------------------------------------------------------------------------
(* The refinement                                                          *)

LEMMA ModularityInt ==
  ASSUME Graph, NEW B, IsFiniteSet(B)
  PROVE  Search!Modularity(edges, B) \in Int
<1> DEFINE w == [b \in B |-> Worth(b)]
<1>1. \A b \in B : w[b] \in Int
  <2>1. \A b : Ends(b) \in Nat /\ Cardinality(Within(b)) \in Nat
    BY EndsNat, EdgeSets DEF Within
  <2>2. M \in Nat
    BY EdgeSets DEF M
  <2> QED BY <2>1, <2>2 DEF Worth
<1> HIDE DEF w
<1>2. Sum(w, B) \in Int
  BY <1>1, SumStep
<1> QED BY <1>2, ModularityIsWorth DEF w

(* The communities of the model are the sets of files it assigns.          *)
LEMMA CommunitiesAre ==
  ASSUME LouvainInv
  PROVE  Communities = Parts(nodes, assigned)
  BY HeldByRange DEF LouvainInv, Communities, Held

(* The invariant of the next state, of edges that are those of this one.   *)
LEMMA InvariantNext ==
  ASSUME edges' = edges, Graph, Blocks(nodes'), Counts(nodes'),
         Assignment(nodes', assigned'),
         degrees' = [c \in DOMAIN nodes' |-> Ends(Held(nodes', assigned', c))],
         pending' \subseteq DOMAIN nodes'
  PROVE  LouvainInv'
<1>1. Graph'
  BY DEF Graph
<1>2. Blocks(nodes)'
  BY DEF Blocks
<1>3. Counts(nodes)'
  <2> SUFFICES ASSUME NEW i \in DOMAIN nodes'
               PROVE  (/\ nodes[i].self = Cardinality(Within(nodes[i].members))
                      /\ nodes[i].degree = Ends(nodes[i].members)
                      /\ DOMAIN nodes[i].neighbors
                           = {j \in DOMAIN nodes \ {i} :
                                Meets(nodes[i].members, nodes[j].members) # {}}
                      /\ \A j \in DOMAIN nodes[i].neighbors :
                           nodes[i].neighbors[j]
                             = Cardinality(Meets(nodes[i].members, nodes[j].members)))'
    BY DEF Counts
  <2>1. (nodes[i].self = Cardinality(Within(nodes[i].members)))'
    BY DEF Counts, Within
  <2>2. (nodes[i].degree = Ends(nodes[i].members))'
    <3>1. nodes'[i].degree = Ends(nodes'[i].members)
      BY DEF Counts
    <3> QED BY <3>1 DEF Ends
  <2>3. (DOMAIN nodes[i].neighbors
                           = {j \in DOMAIN nodes \ {i} :
                                Meets(nodes[i].members, nodes[j].members) # {}})'
    BY DEF Counts, Meets
  <2>4. (\A j \in DOMAIN nodes[i].neighbors :
                           nodes[i].neighbors[j]
                             = Cardinality(Meets(nodes[i].members, nodes[j].members)))'
    BY DEF Counts, Meets
  <2> QED BY <2>1, <2>2, <2>3, <2>4
<1>4. Assignment(nodes, assigned)' /\ (pending \subseteq DOMAIN nodes)'
  BY DEF Assignment
<1>5. (degrees = [c \in DOMAIN nodes |-> Ends(Held(nodes, assigned, c))])'
  BY DEF Ends, Held
<1> QED BY <1>1, <1>2, <1>3, <1>4, <1>5 DEF LouvainInv

(* The files start as nodes of their own.                                  *)
LEMMA InitSound ==
  ASSUME NEW files \in SUBSET Nat, IsFiniteSet(files), NEW e, IsFiniteSet(e),
         \A x \in e : \E f, g \in files : f # g /\ x = {f, g},
         LouvainInit(files, e)
  PROVE  LouvainInv /\ Search!Init
<1>1. edges = e /\ Graph
  BY DEF LouvainInit, Graph
<1>2. DOMAIN nodes = files /\ \A f \in files : nodes[f].members = {f}
  BY DEF LouvainInit, FileNode
<1>3. Blocks(nodes)
  <2>1. IsFiniteSet(DOMAIN nodes) /\ DOMAIN nodes \subseteq Nat
    BY <1>2
  <2>2. ASSUME NEW i \in DOMAIN nodes
        PROVE  nodes[i].members # {} /\ nodes[i].members \subseteq Nat
    <3>1. nodes[i].members = {i} /\ i \in Nat
      BY <1>2
    <3> QED BY <3>1
  <2>3. ASSUME NEW i \in DOMAIN nodes, NEW j \in DOMAIN nodes, i # j
        PROVE  nodes[i].members \cap nodes[j].members = {}
    <3>1. nodes[i].members = {i} /\ nodes[j].members = {j}
      BY <1>2
    <3> QED BY <2>3, <3>1
  <2>4. \A x \in edges : \A f \in x : \E i \in DOMAIN nodes : f \in nodes[i].members
    BY <1>1, <1>2
  <2> QED BY <2>1, <2>2, <2>3, <2>4 DEF Blocks
<1>4. Counts(nodes)
  <2> SUFFICES ASSUME NEW f \in files
               PROVE  /\ nodes[f].self = Cardinality(Within(nodes[f].members))
                      /\ nodes[f].degree = Ends(nodes[f].members)
                      /\ DOMAIN nodes[f].neighbors
                           = {h \in files \ {f} :
                                Meets(nodes[f].members, nodes[h].members) # {}}
                      /\ \A h \in DOMAIN nodes[f].neighbors :
                           nodes[f].neighbors[h]
                             = Cardinality(Meets(nodes[f].members, nodes[h].members))
    BY <1>2 DEF Counts
  <2>1. Within({f}) = {} /\ Leaving({f}) = {x \in e : f \in x}
    BY <1>1 DEF Within, Leaving
  <2>2. nodes[f].self = 0 /\ Cardinality(Within({f})) = 0
    BY <2>1, FS_EmptySet DEF LouvainInit, FileNode
  <2>3. nodes[f].degree = Ends({f})
    <3>1. Ends({f}) = 2 * Cardinality(Within({f})) + Cardinality(Leaving({f}))
      BY <1>1, EndsCounted
    <3>2. Cardinality(Leaving({f})) \in Nat
      BY <1>1, EdgeSets DEF Leaving
    <3>3. nodes[f].degree = Cardinality({x \in e : f \in x})
      BY DEF LouvainInit, FileNode
    <3>4. nodes[f].degree = Cardinality(Leaving({f}))
      BY <2>1, <3>3
    <3> QED BY <2>2, <3>1, <3>2, <3>4
  <2>4. ASSUME NEW h \in files \ {f}
        PROVE  Meets({f}, {h}) = IF {f, h} \in e THEN {{f, h}} ELSE {}
    <3>1. \A x \in e : x \cap {f} # {} /\ x \cap {h} # {} <=> x = {f, h}
      <4> SUFFICES ASSUME NEW x \in e
                   PROVE  f \in x /\ h \in x <=> x = {f, h}
        OBVIOUS
      <4>1. PICK a \in files, b \in files : a # b /\ x = {a, b}
        OBVIOUS
      <4> QED BY <4>1
    <3>2. Meets({f}, {h}) = {x \in e : x = {f, h}}
      BY <1>1, <3>1 DEF Meets
    <3>3. CASE {f, h} \in e
      <4>1. {x \in e : x = {f, h}} = {{f, h}}
        BY <3>3
      <4> QED BY <3>2, <3>3, <4>1
    <3>4. CASE {f, h} \notin e
      <4>1. {x \in e : x = {f, h}} = {}
        BY <3>4
      <4> QED BY <3>2, <3>4, <4>1
    <3> QED BY <3>3, <3>4
  <2>5. /\ DOMAIN nodes[f].neighbors = {h \in UNION e : {f, h} \in e /\ f # h}
        /\ \A h \in DOMAIN nodes[f].neighbors : nodes[f].neighbors[h] = 1
    BY DEF LouvainInit, FileNode
  <2>6. DOMAIN nodes[f].neighbors = {h \in files \ {f} : {f, h} \in e}
    <3>1. UNION e \subseteq files
      OBVIOUS
    <3>2. \A h : {f, h} \in e => h \in UNION e
      OBVIOUS
    <3> QED BY <2>5, <3>1, <3>2
  <2>7. \A h \in files \ {f} : Meets({f}, {h}) # {} <=> {f, h} \in e
    BY <2>4
  <2>8. DOMAIN nodes[f].neighbors
          = {h \in files \ {f} : Meets(nodes[f].members, nodes[h].members) # {}}
    <3>1. \A h \in files \ {f} :
            Meets(nodes[f].members, nodes[h].members) # {} <=> {f, h} \in e
      <4> SUFFICES ASSUME NEW h \in files \ {f}
                   PROVE  Meets(nodes[f].members, nodes[h].members) # {} <=> {f, h} \in e
        OBVIOUS
      <4>1. nodes[f].members = {f} /\ nodes[h].members = {h}
        BY <1>2
      <4> QED BY <2>7, <4>1
    <3> QED BY <2>6, <3>1
  <2>9. ASSUME NEW h \in DOMAIN nodes[f].neighbors
        PROVE  nodes[f].neighbors[h]
                 = Cardinality(Meets(nodes[f].members, nodes[h].members))
    <3>1. h \in files \ {f} /\ {f, h} \in e
      BY <2>6
    <3>2. Meets({f}, {h}) = {{f, h}}
      BY <2>4, <3>1
    <3>3. Cardinality({{f, h}}) = 1
      BY FS_Singleton
    <3> QED BY <1>2, <2>5, <3>1, <3>2, <3>3
  <2>10. nodes[f].members = {f}
    BY <1>2
  <2> QED BY <2>2, <2>3, <2>8, <2>9, <2>10
<1>5. assigned = Singletons(nodes) /\ pending = DOMAIN nodes
  BY DEF LouvainInit
<1>6. degrees = [c \in DOMAIN nodes |-> Ends(Held(nodes, assigned, c))]
  <2>1. \A c \in DOMAIN nodes : nodes[c].degree = Ends(Held(nodes, assigned, c))
    BY <1>3, <1>4, <1>5, SingletonsHold DEF Counts
  <2> QED BY <2>1 DEF LouvainInit, DegreesOf
<1>7. LouvainInv
  BY <1>1, <1>3, <1>4, <1>5, <1>6, SingletonsHold DEF LouvainInv
<1>8. Search!Init
  <2>1. Communities = {nodes[f].members : f \in files}
    BY <1>2, <1>3, <1>5, <1>7, CommunitiesAre, SingletonsHold
  <2>2. \A f \in files : nodes[f].members = {f}
    BY <1>2
  <2>3. /\ \A f \in files : {f} \in Communities
        /\ \A c \in Communities : \E f \in files : c = {f}
    BY <2>1, <2>2
  <2>4. UNION Communities = files
    <3>1. \A f \in files : f \in UNION Communities
      <4> TAKE f \in files
      <4> QED BY <2>3, f \in {f}
    <3>2. \A f \in UNION Communities : f \in files
      <4> SUFFICES ASSUME NEW c \in Communities, NEW f \in c
                   PROVE  f \in files
        OBVIOUS
      <4> PICK g \in files : c = {g}
        BY <2>3
      <4> QED OBVIOUS
    <3> QED BY <3>1, <3>2
  <2>5. Communities = {{f} : f \in files}
    <3> DEFINE S == {{f} : f \in files}
    <3>1. \A c \in Communities : c \in S
      BY <2>3
    <3>2. \A c \in S : c \in Communities
      BY <2>3
    <3> HIDE DEF S
    <3> QED BY <3>1, <3>2 DEF S
  <2> QED BY <2>4, <2>5 DEF Search!Init
<1> QED BY <1>7, <1>8

(* A visit keeps the sums right and moves a group for a gain, or nothing.  *)
LEMMA VisitSound ==
  ASSUME LouvainInv, VisitNode
  PROVE  LouvainInv' /\ [Search!Next]_<<edges, Communities>>
<1> DEFINE id == Min(pending)
           to == BestCommunity(id)
<1>1. id \in DOMAIN nodes
  <2>1. pending \in SUBSET Nat /\ pending # {} /\ pending \subseteq DOMAIN nodes
    BY DEF LouvainInv, Blocks, VisitNode
  <2> QED BY <2>1, LeastExists
<1>2. /\ pending' = pending \ {id} /\ edges' = edges /\ nodes' = nodes
      /\ IF to = assigned[id] THEN UNCHANGED <<assigned, degrees, passMoved, moved>>
         ELSE /\ assigned' = [assigned EXCEPT ![id] = to]
              /\ degrees' = Rehomed(id, to)
              /\ passMoved' = TRUE /\ moved' = TRUE
  BY DEF VisitNode
<1> HIDE DEF id, to
<1>3. CASE to = assigned[id]
  <2>1. UNCHANGED <<edges, nodes, assigned, degrees>> /\ pending' \subseteq pending
    BY <1>2, <1>3
  <2>2. LouvainInv'
    BY <2>1, InvariantNext DEF LouvainInv
  <2>3. UNCHANGED <<edges, Communities>>
    BY <2>1 DEF Communities
  <2> QED BY <2>2, <2>3
<1>4. CASE to # assigned[id]
  <2> DEFINE P == Parts(nodes, assigned)
             m == nodes[id].members
             home == Held(nodes, assigned, assigned[id])
             host == Held(nodes, assigned, to)
  <2>1. /\ assigned' = [assigned EXCEPT ![id] = to] /\ degrees' = Rehomed(id, to)
        /\ edges' = edges /\ nodes' = nodes /\ pending' \subseteq pending
    BY <1>2, <1>4
  <2>2. to \in DOMAIN nodes /\ host # {} /\ MoveDelta(id, to) > 0
    BY <1>1, <1>4, BestGains DEF to
  <2>3. /\ Assignment(nodes, assigned')
        /\ Held(nodes, assigned', assigned[id]) = home \ m
        /\ Held(nodes, assigned', to) = host \cup m
        /\ \A c : c \notin {assigned[id], to} =>
             Held(nodes, assigned', c) = Held(nodes, assigned, c)
        /\ Parts(nodes, assigned')
             = ((P \ {home, host}) \cup {home \ m, host \cup m}) \ {{}}
    <3> DEFINE b == assigned'
    <3>1. /\ Assignment(nodes, b) /\ b[id] = to
          /\ \A i \in DOMAIN nodes \ {id} : b[i] = assigned[i]
      BY <1>1, <2>1, <2>2 DEF LouvainInv, Assignment
    <3> HIDE DEF b
    <3>2. /\ Held(nodes, b, assigned[id]) = home \ m
          /\ Held(nodes, b, to) = host \cup m
          /\ \A c : c \notin {assigned[id], to} =>
               Held(nodes, b, c) = Held(nodes, assigned, c)
          /\ Parts(nodes, b)
               = ((P \ {home, host}) \cup {home \ m, host \cup m}) \ {{}}
      <4>1. /\ Blocks(nodes) /\ Assignment(nodes, assigned) /\ id \in DOMAIN nodes
            /\ to \in DOMAIN nodes /\ to # assigned[id] /\ Held(nodes, assigned, to) # {}
        BY <1>1, <1>4, <2>2 DEF LouvainInv
      <4> QED BY <3>1, <4>1, PartsMove
    <3> QED BY <3>1, <3>2 DEF b
  <2>4. /\ assigned[id] \in DOMAIN nodes /\ m # {} /\ m \subseteq home
        /\ home \cap host = {}
    <3>1. assigned[id] \in DOMAIN nodes /\ m # {}
      BY <1>1 DEF LouvainInv, Assignment, Blocks
    <3>2. m \subseteq home
      BY <1>1 DEF Held
    <3>3. home \cap host = {}
      BY <1>4, HeldApart DEF LouvainInv
    <3> QED BY <3>1, <3>2, <3>3
  <2>5. degrees' = [c \in DOMAIN nodes |-> Ends(Held(nodes, assigned', c))]
    <3> DEFINE d == Ends(m)
    <3>1. /\ nodes[id].degree = d /\ DOMAIN degrees = DOMAIN nodes
          /\ \A c \in DOMAIN nodes : degrees[c] = Ends(Held(nodes, assigned, c))
      BY <1>1 DEF LouvainInv, Counts
    <3>2. Ends(home) = d + Ends(home \ m) /\ Ends(host \cup m) = Ends(host) + d
      <4>1. m \cup (home \ m) = home /\ m \cap (home \ m) = {} /\ host \cap m = {}
        BY <2>4
      <4> HIDE DEF m, home, host
      <4> QED BY <4>1, EndsAdd DEF LouvainInv
    <3>3. d \in Nat /\ Ends(home \ m) \in Nat /\ Ends(host) \in Nat /\ Ends(home) \in Nat
      BY EndsNat DEF LouvainInv
    <3>4. /\ DOMAIN degrees' = DOMAIN nodes
          /\ degrees'[assigned[id]] = degrees[assigned[id]] - d
          /\ degrees'[to] = degrees[to] + d
          /\ \A c \in DOMAIN nodes \ {assigned[id], to} : degrees'[c] = degrees[c]
      BY <1>4, <2>1, <2>2, <2>4, <3>1 DEF Rehomed, LouvainInv
    <3>5. degrees'[assigned[id]] = Ends(home \ m) /\ degrees'[to] = Ends(host \cup m)
      <4>1. degrees[assigned[id]] = Ends(home) /\ degrees[to] = Ends(host)
        BY <2>2, <2>4, <3>1
      <4> HIDE DEF d, home, host, m
      <4> QED BY <3>2, <3>3, <3>4, <4>1
    <3>6. \A c \in DOMAIN nodes : degrees'[c] = Ends(Held(nodes, assigned', c))
      <4> SUFFICES ASSUME NEW c \in DOMAIN nodes
                   PROVE  degrees'[c] = Ends(Held(nodes, assigned', c))
        OBVIOUS
      <4>1. CASE c = assigned[id]
        BY <2>3, <3>5, <4>1
      <4>2. CASE c = to
        BY <2>3, <3>5, <4>2
      <4>3. CASE c \notin {assigned[id], to}
        BY <2>3, <3>1, <3>4, <4>3
      <4> QED BY <4>1, <4>2, <4>3
    <3>7. degrees' = [c \in DOMAIN nodes |-> degrees'[c]]
      BY <2>1, <3>1 DEF Rehomed, LouvainInv
    <3> QED BY <3>6, <3>7
  <2>6. LouvainInv'
    BY <2>1, <2>3, <2>5, InvariantNext DEF LouvainInv
  <2>7. Communities = P /\ Communities' = Parts(nodes, assigned')
    <3>1. Communities' = {Held(nodes, assigned', c) : c \in Range(assigned')}
      BY <2>1 DEF Communities, Held
    <3> QED BY <2>3, <3>1, CommunitiesAre, HeldByRange DEF LouvainInv
  <2>8. /\ IsFiniteSet(P) /\ {} \notin P /\ home \in P /\ host \in P /\ home # host
        /\ \A b, c \in P : b # c => b \cap c = {}
    <3>1. IsFiniteSet(P)
      BY PartsFinite DEF LouvainInv
    <3>2. {} \notin P /\ home \in P /\ host \in P /\ home # host
      BY <2>2, <2>4 DEF Parts
    <3>3. \A b, c \in P : b # c => b \cap c = {}
      BY HeldApart DEF Parts, LouvainInv
    <3> QED BY <3>1, <3>2, <3>3
  <2>9. Search!Modularity(edges, Communities') > Search!Modularity(edges, Communities)
    <3>1. Gain(m, home, host) > 0 /\ Gain(m, home, host) \in Int
      BY <1>1, <1>4, <2>2, DeltaIsGain, GainInt DEF LouvainInv
    <3>2. Search!Modularity(edges, P) \in Int
      BY <2>8, ModularityInt DEF LouvainInv
    <3> HIDE DEF P, m, home, host
    <3>3. Search!Modularity(edges, ((P \ {home, host}) \cup {home \ m, host \cup m}) \ {{}})
            = Search!Modularity(edges, P) + Gain(m, home, host)
      BY SMTT(30), <2>4, <2>8, ModularityMoves DEF LouvainInv, Gain
    <3> QED BY <2>3, <2>7, <3>1, <3>2, <3>3
  <2>10. Search!Regroup
    <3> HIDE DEF P, m, home, host
    <3>1. m \in (SUBSET home) \ {{}}
      BY <2>4
    <3> QED BY <2>3, <2>7, <2>8, <2>9, <3>1 DEF Search!Regroup
  <2> QED BY <2>1, <2>6, <2>10 DEF Search!Next
<1> QED BY <1>3, <1>4

(* Aggregation keeps the communities, and counts right again.              *)
LEMMA AggregateKeeps ==
  ASSUME LouvainInv, Aggregate
  PROVE  LouvainInv' /\ UNCHANGED <<edges, Communities>>
<1>1. /\ edges' = edges /\ nodes' = AggregateNodes(nodes, assigned)
      /\ assigned' = Singletons(nodes') /\ degrees' = DegreesOf(nodes')
      /\ pending' = DOMAIN nodes'
  BY DEF Aggregate
<1> DEFINE new == nodes'
<1>2. /\ Blocks(new) /\ Counts(new)
      /\ {new[n].members : n \in DOMAIN new} = Parts(nodes, assigned)
  <2> HIDE DEF new
  <2>1. new = AggregateNodes(nodes, assigned)
    BY <1>1 DEF new
  <2> QED BY <2>1, AggregateSound DEF LouvainInv
<1> HIDE DEF new
<1>3. /\ Assignment(new, Singletons(new))
      /\ \A i \in DOMAIN new : Held(new, Singletons(new), i) = new[i].members
      /\ Parts(new, Singletons(new)) = Parts(nodes, assigned)
  BY <1>2, SingletonsHold
<1>4. DegreesOf(new) = [c \in DOMAIN new |-> Ends(Held(new, Singletons(new), c))]
  BY <1>2, <1>3 DEF DegreesOf, Counts
<1>5. LouvainInv'
  BY <1>1, <1>2, <1>3, <1>4, InvariantNext DEF LouvainInv, new
<1>6. Communities' = Communities
  <2>1. Communities' = {Held(new, Singletons(new), c) : c \in Range(Singletons(new))}
    BY <1>1 DEF Communities, Held, new
  <2>2. Communities' = Parts(new, Singletons(new))
    BY <1>2, <1>3, <2>1, HeldByRange
  <2> QED BY <1>3, <2>2, CommunitiesAre
<1> QED BY <1>1, <1>5, <1>6

(* Every step keeps the invariant and is a step of the search, or none.    *)
LEMMA LouvainStep ==
  ASSUME LouvainInv, [LouvainNext]_louvainVars
  PROVE  LouvainInv' /\ [Search!Next]_<<edges, Communities>>
<1>1. ASSUME UNCHANGED <<edges, nodes, assigned, degrees>>,
             pending' \subseteq DOMAIN nodes
      PROVE  LouvainInv' /\ UNCHANGED <<edges, Communities>>
  <2>1. LouvainInv'
    BY <1>1, InvariantNext DEF LouvainInv
  <2> QED BY <1>1, <2>1 DEF Communities
<1>2. CASE VisitNode
  BY <1>2, VisitSound
<1>3. CASE NextPass
  BY <1>1, <1>3 DEF NextPass
<1>4. CASE Aggregate
  BY <1>4, AggregateKeeps
<1>5. CASE Finish
  BY <1>1, <1>5 DEF Finish, LouvainInv
<1>6. CASE UNCHANGED louvainVars
  BY <1>1, <1>6 DEF louvainVars, LouvainInv
<1> QED BY <1>2, <1>3, <1>4, <1>5, <1>6 DEF LouvainNext

(* The ends in some of the nodes, one node at a time.                      *)
LEMMA EndsOfNodes ==
  ASSUME Graph, NEW n, Blocks(n), NEW T \in SUBSET DOMAIN n
  PROVE  Sum([i \in DOMAIN n |-> Ends(n[i].members)], T) = Ends(UNION {n[i].members : i \in T})
<1> DEFINE f == [i \in DOMAIN n |-> Ends(n[i].members)]
           All(U) == UNION {n[i].members : i \in U}
           P == {U \in SUBSET T : Sum(f, U) = Ends(All(U))}
<1>1. \A i \in DOMAIN n : f[i] = Ends(n[i].members) /\ f[i] \in Int
  BY EndsNat
<1>2. IsFiniteSet(T)
  BY FS_Subset DEF Blocks
<1> HIDE DEF f
<1>3. {} \in P
  <2>1. Sum(f, {}) = 0
    BY SumStep, FS_EmptySet
  <2>2. Ends({}) = Ends({}) + Ends({}) /\ Ends({}) \in Nat
    <3>1. {} \cap {} = {} /\ {} \cup {} = {}
      OBVIOUS
    <3> QED BY <3>1, EndsAdd, EndsNat
  <2>3. All({}) = {}
    OBVIOUS
  <2> HIDE DEF All, P
  <2>4. Ends({}) = 0
    <3>1. \A k \in Nat : k = k + k => k = 0
      OBVIOUS
    <3> QED BY <2>2, <3>1
  <2>5. Ends(All({})) = Ends({})
    BY <2>3
  <2>6. Sum(f, {}) = Ends(All({}))
    BY <2>1, <2>4, <2>5
  <2> QED BY <2>6 DEF P
<1>4. ASSUME NEW U \in SUBSET T, NEW x \in T \ U, U \in P
      PROVE  U \cup {x} \in P
  <2>1. IsFiniteSet(U) /\ x \in DOMAIN n /\ U \subseteq DOMAIN n
    BY <1>2, FS_Subset
  <2>2. Sum(f, U \cup {x}) = f[x] + Sum(f, U)
    BY <1>1, <2>1, SumAdd
  <2>3. All(U \cup {x}) = All(U) \cup n[x].members
    OBVIOUS
  <2>4. All(U) \cap n[x].members = {}
    BY <2>1 DEF Blocks
  <2>5. Ends(All(U \cup {x})) = Ends(All(U)) + Ends(n[x].members)
    <3> HIDE DEF All
    <3> QED BY <2>3, <2>4, EndsAdd
  <2>6. Ends(All(U)) \in Nat /\ Ends(n[x].members) \in Nat
    BY EndsNat
  <2>7. Sum(f, U) = Ends(All(U))
    BY <1>4
  <2>8. Sum(f, U \cup {x}) = Ends(All(U \cup {x}))
    <3> HIDE DEF All
    <3> QED BY <1>1, <2>1, <2>2, <2>5, <2>6, <2>7
  <2> QED BY <2>8
<1>5. T \in P
  <2> HIDE DEF P
  <2> QED BY <1>2, <1>3, <1>4, SetInduction
<1> QED BY <1>5 DEF f

(* The fresh count of a community's degrees.                               *)
LEMMA DegreesAreSummed ==
  ASSUME NEW n, NEW S, IsFiniteSet(S)
  PROVE  MapThenSumSet(LAMBDA i : n[i].degree, S) = Sum([i \in S |-> n[i].degree], S)
<1> DEFINE f == [i \in S |-> n[i].degree]
           Value(i) == n[i].degree
           Next(g, s) ==
             IF s = {} THEN 0
             ELSE Value(CHOOSE x \in s : TRUE) + g[s \ {CHOOSE x \in s : TRUE}]
           g == CHOOSE g : g = [s \in SUBSET S |-> Next(g, s)]
<1>1. \A h : \A s \in SUBSET S : Next(h, s) = Step(f, h, s)
  <2>1. \A x \in S : f[x] = Value(x)
    OBVIOUS
  <2> HIDE DEF f, Value
  <2> QED BY <2>1 DEF Step, OneOf
<1> HIDE DEF f, Next
<1>2. Totals(f, S) = Stepped(f, Totals(f, S), S)
  BY TotalsExist
<1>3. \E h : h = [s \in SUBSET S |-> Next(h, s)]
  BY <1>1, <1>2 DEF Stepped
<1>4. g = [s \in SUBSET S |-> Next(g, s)]
  BY <1>3
<1> HIDE DEF g
<1>5. g = Stepped(f, g, S)
  BY <1>1, <1>4 DEF Stepped
<1>6. g[S] = Sum(f, S)
  BY <1>5, SumIsUnique
<1>7. MapThenSumSet(LAMBDA i : n[i].degree, S) = g[S]
  BY DEF MapThenSumSet, MapThenFoldSet, g, Next
<1> QED BY <1>6, <1>7 DEF f

LEMMA DegreesFollow ==
  ASSUME LouvainInv
  PROVE  DegreesTrue
<1> DEFINE In(c) == {i \in DOMAIN nodes : assigned[i] = c}
<1>1. ASSUME NEW c \in DOMAIN degrees
      PROVE  degrees[c] = MapThenSumSet(LAMBDA i : nodes[i].degree, In(c))
  <2> DEFINE S == In(c)
             f == [i \in S |-> nodes[i].degree]
             g == [i \in DOMAIN nodes |-> Ends(nodes[i].members)]
  <2>1. S \in SUBSET DOMAIN nodes /\ IsFiniteSet(S)
    BY FS_Subset DEF LouvainInv, Blocks
  <2>2. \A i \in S : f[i] \in Int /\ f[i] = g[i]
    BY EndsNat DEF LouvainInv, Counts
  <2>3. degrees[c] = Ends(UNION {nodes[i].members : i \in S})
    BY DEF LouvainInv, Held
  <2> HIDE DEF S
  <2>4. MapThenSumSet(LAMBDA i : nodes[i].degree, S) = Sum(f, S)
    BY <2>1, DegreesAreSummed
  <2>5. Sum(g, S) = Ends(UNION {nodes[i].members : i \in S})
    BY <2>1, EndsOfNodes DEF LouvainInv
  <2>6. Sum(f, S) = Sum(g, S)
    <3> HIDE DEF f, g
    <3> QED BY <2>1, <2>2, SumSame
  <2> QED BY <2>3, <2>4, <2>5, <2>6 DEF S
<1>2. ASSUME NEW i \in DOMAIN nodes
      PROVE  nodes[i].degree
               = MapThenSumSet(LAMBDA e : Cardinality(e \cap nodes[i].members), edges)
  BY DegreeIsEnds DEF LouvainInv, Counts
<1> QED BY <1>1, <1>2 DEF DegreesTrue

(* Whatever the files and the edges between them, the running degree sums  *)
(* are what a fresh count would give, and what counts as a node's degree   *)
(* on any level of aggregation is the number of edge ends in its files.    *)
THEOREM LouvainCounts ==
  ASSUME NEW files \in SUBSET Nat, IsFiniteSet(files), NEW e, IsFiniteSet(e),
         \A x \in e : \E f, g \in files : f # g /\ x = {f, g}
  PROVE  LouvainInit(files, e) /\ [][LouvainNext]_louvainVars => []DegreesTrue
<1>1. LouvainInit(files, e) => LouvainInv
  BY InitSound
<1>2. LouvainInv /\ [LouvainNext]_louvainVars => LouvainInv'
  BY LouvainStep
<1>3. LouvainInv => DegreesTrue
  BY DegreesFollow
<1> QED BY <1>1, <1>2, <1>3, PTL

(* Whatever the files and the edges between them, each step of the         *)
(* detection leaves the communities alone or moves one group of files to   *)
(* another community, and then the modularity of the file graph rises:     *)
(* gains computed on aggregated graphs, from running sums, are gains there *)
(* (louvain_local_moves and aggregate_louvain_graph, src/src/deps.rs).     *)
THEOREM LouvainClimbs ==
  ASSUME NEW files \in SUBSET Nat, IsFiniteSet(files), NEW e, IsFiniteSet(e),
         \A x \in e : \E f, g \in files : f # g /\ x = {f, g}
  PROVE  LouvainInit(files, e) /\ [][LouvainNext]_louvainVars => ClimbsModularity
<1>1. LouvainInit(files, e) => LouvainInv /\ Search!Init
  BY InitSound
<1>2. LouvainInv /\ [LouvainNext]_louvainVars
        => LouvainInv' /\ [Search!Next]_<<edges, Communities>>
  BY LouvainStep
<1> QED BY <1>1, <1>2, PTL DEF ClimbsModularity, Search!Spec

-----------------------------------------------------------------------------
(* A table by its rows and by its columns, and the sums of its rows.        *)
Transposed(f, c, A, B) == \A x \in A : \A y \in B : f[x][y] \in Int /\ c[y][x] = f[x][y]

RowSums(g, f, A, B) == \A x \in A : g[x] = Sum(f[x], B)

(* A sum of sums may be taken in either order.                              *)
LEMMA SumExchange ==
  ASSUME NEW A, NEW B, IsFiniteSet(A), IsFiniteSet(B),
         NEW f, NEW c, Transposed(f, c, A, B),
         NEW g, RowSums(g, f, A, B), NEW h, RowSums(h, c, B, A)
  PROVE  Sum(g, A) = Sum(h, B)
<1> USE DEF Transposed, RowSums
<1> DEFINE Column(T) == [y \in B |-> Sum([x \in A |-> f[x][y]], T)]
           P == {T \in SUBSET A : Sum(g, T) = Sum(Column(T), B)}
<1>1. {} \in P
  <2>1. Sum(g, {}) = 0
    BY SumStep, FS_EmptySet
  <2>2. \A y \in B : Column({})[y] = 0
    <3> TAKE y \in B
    <3>1. Sum([x \in A |-> f[x][y]], {}) = 0
      BY SumStep, FS_EmptySet
    <3> QED BY <3>1
  <2> HIDE DEF Column
  <2>3. Sum(Column({}), B) = 0 * Cardinality(B)
    BY <2>2, SumConstant
  <2>4. Cardinality(B) \in Nat
    BY FS_CardinalityType
  <2> QED BY <2>1, <2>3, <2>4
<1>2. ASSUME NEW T \in SUBSET A, NEW x \in A \ T, T \in P
      PROVE  T \cup {x} \in P
  <2>1. IsFiniteSet(T)
    BY FS_Subset
  <2>2. \A z \in A : g[z] \in Int
    <3> TAKE z \in A
    <3>1. Sum(f[z], B) \in Int
      BY SumStep
    <3> QED BY <3>1
  <2>3. Sum(g, T \cup {x}) = g[x] + Sum(g, T)
    BY <2>1, <2>2, SumAdd
  <2>4. \A y \in B : /\ Column(T)[y] \in Int
                     /\ Column(T \cup {x})[y] = f[x][y] + Column(T)[y]
    <3> TAKE y \in B
    <3> DEFINE d == [z \in A |-> f[z][y]]
    <3>1. \A z \in T \cup {x} : d[z] \in Int /\ d[x] = f[x][y]
      OBVIOUS
    <3> HIDE DEF d
    <3>2. Sum(d, T) \in Int /\ Sum(d, T \cup {x}) = d[x] + Sum(d, T)
      BY <2>1, <3>1, SumAdd
    <3>3. Column(T)[y] = Sum(d, T) /\ Column(T \cup {x})[y] = Sum(d, T \cup {x})
      BY DEF d
    <3> QED BY <3>1, <3>2, <3>3
  <2> DEFINE row == f[x]
             old == Column(T)
             new == Column(T \cup {x})
  <2>5. Sum(new, B) = Sum(row, B) + Sum(old, B)
    <3>1. \A y \in B : row[y] \in Int /\ old[y] \in Int /\ new[y] = row[y] + old[y]
      BY <2>4
    <3> HIDE DEF row, old, new
    <3> QED BY <3>1, SumPlus
  <2>6. Sum(g, T) = Sum(old, B) /\ g[x] = Sum(row, B)
    BY <1>2
  <2>7. Sum(old, B) \in Int /\ Sum(row, B) \in Int
    <3>1. \A y \in B : row[y] \in Int /\ old[y] \in Int
      BY <2>4
    <3> HIDE DEF row, old
    <3> QED BY <3>1, SumStep
  <2>8. Sum(g, T \cup {x}) = Sum(new, B)
    <3> HIDE DEF row, old, new
    <3> QED BY <2>3, <2>5, <2>6, <2>7
  <2> QED BY <2>8
<1>3. A \in P
  <2> HIDE DEF P
  <2> QED BY <1>1, <1>2, SetInduction
<1>4. \A y \in B : h[y] \in Int /\ h[y] = Column(A)[y]
  <2> TAKE y \in B
  <2>1. \A x \in A : [z \in A |-> f[z][y]][x] \in Int
    OBVIOUS
  <2> DEFINE column == [z \in A |-> f[z][y]]
  <2>2. \A x \in A : column[x] \in Int /\ column[x] = c[y][x]
    OBVIOUS
  <2> HIDE DEF column
  <2>3. Sum(column, A) \in Int /\ Sum(column, A) = Sum(c[y], A)
    BY <2>2, SumStep, SumSame
  <2> QED BY <2>3 DEF column
<1> HIDE DEF Column
<1>5. Sum(h, B) = Sum(Column(A), B)
  BY <1>4, SumSame
<1> QED BY <1>3, <1>5

(* A sum of terms of which only those of a part are not zero.               *)
LEMMA SumOfPart ==
  ASSUME NEW S, IsFiniteSet(S), NEW D \in SUBSET S, NEW f, NEW g,
         \A x \in D : f[x] \in Int /\ g[x] = f[x], \A x \in S \ D : g[x] = 0
  PROVE  Sum(g, S) = Sum(f, D)
<1>1. IsFiniteSet(D) /\ IsFiniteSet(S \ D) /\ D \cup (S \ D) = S /\ D \cap (S \ D) = {}
  BY FS_Subset
<1>2. \A x \in D \cup (S \ D) : g[x] \in Int
  OBVIOUS
<1>3. Sum(g, D \cup (S \ D)) = Sum(g, D) + Sum(g, S \ D)
  BY <1>1, <1>2, SumUnion
<1>4. Sum(g, S \ D) = 0 * Cardinality(S \ D)
  BY <1>1, SumConstant
<1>5. Cardinality(S \ D) \in Nat /\ Sum(g, D) \in Int
  BY <1>1, <1>2, FS_CardinalityType, SumStep
<1>6. Sum(f, D) = Sum(g, D)
  BY <1>1, SumSame
<1>7. Sum(g, D \cup (S \ D)) = Sum(g, S)
  BY <1>1
<1>8. Sum(g, S) = Sum(g, D)
  <2> HIDE <1>1
  <2> QED BY <1>3, <1>4, <1>5, <1>7
<1> QED BY <1>6, <1>8

(* The same term for each element of a part.                                *)
LEMMA SumOfShares ==
  ASSUME NEW S, IsFiniteSet(S), NEW D \in SUBSET S, NEW c \in Int,
         NEW g, \A x \in S : g[x] = IF x \in D THEN c ELSE 0
  PROVE  Sum(g, S) = c * Cardinality(D)
<1>1. \A x \in D : g[x] = c
  OBVIOUS
<1>2. Sum(g, S) = Sum(g, D)
  <2>1. \A x \in D : g[x] \in Int /\ g[x] = g[x]
    BY <1>1
  <2>2. \A x \in S \ D : g[x] = 0
    OBVIOUS
  <2> QED BY <2>1, <2>2, SumOfPart
<1>3. Sum(g, D) = c * Cardinality(D)
  <2>1. IsFiniteSet(D)
    BY FS_Subset
  <2> QED BY <1>1, <2>1, SumConstant
<1> QED BY <1>2, <1>3

(* Terms added in the order CHOOSE takes them are their sum.                *)
LEMMA SumFunctionIsSum ==
  ASSUME NEW f, NEW S, S = DOMAIN f, IsFiniteSet(S)
  PROVE  SumFunction(f) = Sum(f, S)
<1> DEFINE Unrolled(g, s) ==
             IF s = {} THEN 0
             ELSE f[CHOOSE x \in s : TRUE] + g[s \ {CHOOSE x \in s : TRUE}]
           g == CHOOSE g : g = [s \in SUBSET S |-> Unrolled(g, s)]
<1>1. \A h : \A s \in SUBSET S : Unrolled(h, s) = Step(f, h, s)
  BY DEF Step, OneOf
<1> HIDE DEF Unrolled
<1>2. Totals(f, S) = Stepped(f, Totals(f, S), S)
  BY TotalsExist
<1>3. \E h : h = [s \in SUBSET S |-> Unrolled(h, s)]
  <2>1. Totals(f, S) = [s \in SUBSET S |-> Unrolled(Totals(f, S), s)]
    BY <1>1, <1>2 DEF Stepped
  <2> QED BY <2>1
<1>4. g = [s \in SUBSET S |-> Unrolled(g, s)]
  BY <1>3
<1> HIDE DEF g
<1>5. g = Stepped(f, g, S)
  BY <1>1, <1>4 DEF Stepped
<1>6. g[S] = Sum(f, S)
  BY <1>5, SumIsUnique
<1>7. SumFunction(f) = g[S]
  BY DEF SumFunction, SumFunctionOnSet, FoldFunctionOnSet, MapThenFoldSet, g, Unrolled
<1> QED BY <1>6, <1>7

LEMMA SumOfTwo ==
  ASSUME NEW f, NEW x, NEW y, x # y, DOMAIN f = {x, y}, f[x] \in Int, f[y] \in Int
  PROVE  SumFunction(f) = f[x] + f[y]
<1>1. IsFiniteSet({y}) /\ {y} \cup {x} = {x, y} /\ {} \cup {y} = {y}
  BY FS_Singleton
<1>2. \A z \in {y} \cup {x} : f[z] \in Int
  OBVIOUS
<1>3. /\ IsFiniteSet({y} \cup {x}) /\ Sum(f, {y} \cup {x}) = f[x] + Sum(f, {y})
      /\ Sum(f, {y}) \in Int
  BY <1>1, <1>2, SumAdd
<1>4. Sum(f, {}) = 0
  BY SumStep, FS_EmptySet
<1>5. Sum(f, {} \cup {y}) = f[y] + Sum(f, {})
  <2>1. \A z \in {} \cup {y} : f[z] \in Int
    OBVIOUS
  <2> QED BY <2>1, SumAdd, FS_EmptySet
<1>6. SumFunction(f) = Sum(f, {x, y})
  <2>1. IsFiniteSet({x, y})
    BY <1>1, <1>3, Zenon
  <2> QED BY <2>1, SumFunctionIsSum
<1>7. Sum(f, {x, y}) = Sum(f, {y} \cup {x}) /\ Sum(f, {y}) = Sum(f, {} \cup {y})
  BY <1>1, Zenon
<1>8. Sum(f, {y}) = f[y]
  <2> DEFINE one == Sum(f, {y})
             none == Sum(f, {})
             v == f[y]
  <2>1. one = v + none /\ none = 0 /\ v \in Int
    BY <1>4, <1>5, <1>7
  <2> HIDE DEF one, none, v
  <2>2. one = v
    BY <2>1
  <2> QED BY <2>2 DEF one, v
<1> QED BY <1>3, <1>6, <1>7, <1>8

-----------------------------------------------------------------------------
(* Pairs of a set.                                                          *)

LEMMA HalfNat ==
  ASSUME NEW n \in Nat
  PROVE  /\ Half(n) \in Nat /\ 2 * Half(n) = n * (n - 1)
         /\ Half(n + 1) = Half(n) + n
         /\ Half(0) = 0
         /\ n >= 2 => Half(n) >= 1
<1> DEFINE P == {k \in Nat : \E q \in Nat : k * (k - 1) = 2 * q}
<1>1. 0 \in P
  OBVIOUS
<1>2. ASSUME NEW k \in Nat, k \in P
      PROVE  k + 1 \in P
  <2>1. PICK q \in Nat : k * (k - 1) = 2 * q
    BY <1>2
  <2>2. (k + 1) * ((k + 1) - 1) = k * (k - 1) + 2 * k
    OBVIOUS
  <2>3. (k + 1) * ((k + 1) - 1) = 2 * (q + k) /\ q + k \in Nat
    BY <2>1, <2>2
  <2> QED BY <2>3
<1>3. Nat \subseteq P
  <2> HIDE DEF P
  <2> QED BY <1>1, <1>2, NaturalInduction
<1>4. \A k \in Nat : Half(k) \in Nat /\ 2 * Half(k) = k * (k - 1)
  <2> TAKE k \in Nat
  <2>1. PICK q \in Nat : k * (k - 1) = 2 * q
    BY <1>3
  <2>2. (2 * q) \div 2 = q
    OBVIOUS
  <2> QED BY <2>1, <2>2 DEF Half
<1>5. /\ Half(n) \in Nat /\ 2 * Half(n) = n * (n - 1)
      /\ Half(n + 1) \in Nat /\ 2 * Half(n + 1) = (n + 1) * ((n + 1) - 1)
  <2>1. n + 1 \in Nat
    OBVIOUS
  <2> QED BY <1>4, <2>1
<1>6. (n + 1) * ((n + 1) - 1) = n * (n - 1) + 2 * n
  OBVIOUS
<1>7. Half(n + 1) = Half(n) + n
  BY <1>5, <1>6
<1>8. Half(0) = 0
  BY <1>4
<1>9. n >= 2 => n * (n - 1) > 0
  OBVIOUS
<1> QED BY <1>4, <1>7, <1>8, <1>9

LEMMA PairIs ==
  ASSUME NEW S, IsFiniteSet(S), NEW e
  PROVE  e \in UnorderedPairs(S) <=> \E f, g \in S : f # g /\ e = {f, g}
<1>1. ASSUME NEW f, NEW g, f # g
      PROVE  IsFiniteSet({f, g}) /\ Cardinality({f, g}) = 2
  <2>1. IsFiniteSet({f}) /\ Cardinality({f}) = 1 /\ {f} \cup {g} = {f, g} /\ g \notin {f}
    BY <1>1, FS_Singleton
  <2>2. IsFiniteSet({f} \cup {g}) /\ Cardinality({f} \cup {g}) = Cardinality({f}) + 1
    BY <2>1, FS_AddElement
  <2> QED BY <2>1, <2>2
<1>2. ASSUME Cardinality(e) = 2, IsFiniteSet(e)
      PROVE  \E f, g \in e : f # g /\ e = {f, g}
  <2>1. e # {}
    BY <1>2, FS_EmptySet
  <2> PICK f \in e : TRUE
    BY <2>1
  <2>2. Cardinality(e \ {f}) = 1 /\ IsFiniteSet(e \ {f})
    <3>1. IsFiniteSet(e \ {f}) /\ Cardinality(e \ {f}) = Cardinality(e) - 1
      BY <1>2, FS_RemoveElement
    <3> QED BY <1>2, <3>1
  <2>3. PICK g : e \ {f} = {g}
    BY <2>2, FS_Singleton
  <2> QED BY <2>3
<1>3. e \in SUBSET S => IsFiniteSet(e)
  BY FS_Subset
<1> QED BY <1>1, <1>2, <1>3 DEF UnorderedPairs

Star(x, T) == {{x, y} : y \in T}

Across(A, B) == {{f, g} : f \in A, g \in B}

LEMMA StarCounted ==
  ASSUME NEW T, IsFiniteSet(T), NEW x, x \notin T
  PROVE  IsFiniteSet(Star(x, T)) /\ Cardinality(Star(x, T)) = Cardinality(T)
<1> DEFINE F == [y \in T |-> {{x, y}}]
           sizes == [y \in T |-> Cardinality(F[y])]
           all == UNION {F[y] : y \in T}
<1>1. \A y \in T : IsFiniteSet(F[y]) /\ Cardinality(F[y]) = 1
  BY FS_Singleton
<1>2. \A y, z \in T : y # z => F[y] \cap F[z] = {}
  OBVIOUS
<1>3. all = Star(x, T)
  BY DEF Star
<1>4. \A y \in T : sizes[y] = 1
  BY <1>1
<1>5. IsFiniteSet(all) /\ Cardinality(all) = Sum(sizes, T)
  <2> HIDE DEF F
  <2> QED BY <1>1, <1>2, SumOfSizes
<1>6. Sum(sizes, T) = 1 * Cardinality(T)
  <2> HIDE DEF sizes
  <2> QED BY <1>4, SumConstant
<1>7. Cardinality(T) \in Nat
  BY FS_CardinalityType
<1> HIDE DEF F, sizes, all
<1> QED BY <1>3, <1>5, <1>6, <1>7

LEMMA PairsCounted ==
  ASSUME NEW S, IsFiniteSet(S)
  PROVE  /\ IsFiniteSet(UnorderedPairs(S))
         /\ Cardinality(UnorderedPairs(S)) = Half(Cardinality(S))
<1> DEFINE P == {T \in SUBSET S : /\ IsFiniteSet(UnorderedPairs(T))
                                  /\ Cardinality(UnorderedPairs(T)) = Half(Cardinality(T))}
<1>1. {} \in P
  <2>1. UnorderedPairs({}) = {}
    BY PairIs, FS_EmptySet
  <2> QED BY <2>1, FS_EmptySet, HalfNat
<1>2. ASSUME NEW T \in SUBSET S, NEW x \in S \ T, T \in P
      PROVE  T \cup {x} \in P
  <2> DEFINE star == Star(x, T)
  <2>1. IsFiniteSet(T) /\ Cardinality(T) \in Nat
    BY FS_Subset, FS_CardinalityType
  <2>2. IsFiniteSet(star) /\ Cardinality(star) = Cardinality(T)
    BY <2>1, StarCounted
  <2>3. IsFiniteSet(T \cup {x}) /\ Cardinality(T \cup {x}) = Cardinality(T) + 1
    BY <2>1, FS_AddElement
  <2>4. UnorderedPairs(T \cup {x}) = UnorderedPairs(T) \cup star
    <3>1. \A e : e \in UnorderedPairs(T \cup {x})
                   <=> \E f, g \in T \cup {x} : f # g /\ e = {f, g}
      BY <2>3, PairIs
    <3>2. \A e : e \in UnorderedPairs(T) <=> \E f, g \in T : f # g /\ e = {f, g}
      BY <2>1, PairIs
    <3>3. \A e : (\E f, g \in T \cup {x} : f # g /\ e = {f, g})
                   <=> e \in star \/ \E f, g \in T : f # g /\ e = {f, g}
      BY DEF Star
    <3> QED BY <3>1, <3>2, <3>3
  <2>5. UnorderedPairs(T) \cap star = {}
    BY DEF UnorderedPairs, Star
  <2>6. /\ IsFiniteSet(UnorderedPairs(T))
        /\ Cardinality(UnorderedPairs(T)) = Half(Cardinality(T))
    BY <1>2
  <2> HIDE DEF star
  <2>7. /\ IsFiniteSet(UnorderedPairs(T) \cup star)
        /\ Cardinality(UnorderedPairs(T) \cup star)
             = Cardinality(UnorderedPairs(T)) + Cardinality(star)
    BY <2>2, <2>5, <2>6, SizeOfBoth
  <2>8. Half(Cardinality(T) + 1) = Half(Cardinality(T)) + Cardinality(T)
    BY <2>1, HalfNat
  <2>9. Cardinality(UnorderedPairs(T \cup {x})) = Half(Cardinality(T \cup {x}))
    BY <2>2, <2>3, <2>4, <2>6, <2>7, <2>8
  <2>10. IsFiniteSet(UnorderedPairs(T \cup {x}))
    BY <2>4, <2>7
  <2> QED BY <2>9, <2>10
<1>3. S \in P
  <2> HIDE DEF P
  <2> QED BY <1>1, <1>2, SetInduction
<1> QED BY <1>3

(* Pairs with one file in each of two sets.                                 *)
LEMMA CrossCounted ==
  ASSUME NEW A, NEW B, IsFiniteSet(A), IsFiniteSet(B), A \cap B = {}
  PROVE  Cardinality(Across(A, B)) = Cardinality(A) * Cardinality(B)
<1> DEFINE F == [f \in A |-> Star(f, B)]
           sizes == [f \in A |-> Cardinality(F[f])]
           all == UNION {F[f] : f \in A}
<1>1. \A f \in A : IsFiniteSet(F[f]) /\ Cardinality(F[f]) = Cardinality(B)
  <2> TAKE f \in A
  <2>1. f \notin B
    OBVIOUS
  <2> QED BY <2>1, StarCounted
<1>2. \A f, h \in A : f # h => F[f] \cap F[h] = {}
  BY DEF Star
<1>3. all = Across(A, B)
  BY DEF Star, Across
<1>4. \A f \in A : sizes[f] = Cardinality(B)
  BY <1>1
<1>5. Cardinality(all) = Sum(sizes, A)
  <2> HIDE DEF F
  <2> QED BY <1>1, <1>2, SumOfSizes
<1>6. Cardinality(A) \in Nat /\ Cardinality(B) \in Nat
  BY FS_CardinalityType
<1>7. Sum(sizes, A) = Cardinality(B) * Cardinality(A)
  <2> HIDE DEF sizes
  <2> QED BY <1>4, <1>6, SumConstant
<1> HIDE DEF F, sizes, all
<1> QED BY <1>3, <1>5, <1>6, <1>7

(* The pairs of a commit that are within a set of files, and those that     *)
(* leave it.                                                                *)
LEMMA PairsSplit ==
  ASSUME NEW F, IsFiniteSet(F), NEW C
  PROVE  LET n == Cardinality(F \cap C)
             k == Cardinality(F)
         IN  /\ n \in Nat /\ k \in Nat
             /\ Cardinality({e \in UnorderedPairs(F) : e \subseteq C}) = Half(n)
             /\ Cardinality({e \in UnorderedPairs(F) : e \cap C # {} /\ ~(e \subseteq C)})
                  = n * (k - 1) - 2 * Half(n)
<1> DEFINE n == Cardinality(F \cap C)
           k == Cardinality(F)
           rest == Cardinality(F \ C)
           across == Across(F \cap C, F \ C)
<1>1. IsFiniteSet(F \cap C) /\ IsFiniteSet(F \ C)
  BY FS_Subset
<1>2. n \in Nat /\ k \in Nat /\ rest \in Nat
  BY <1>1, FS_CardinalityType
<1>3. k = n + rest
  <2>1. (F \cap C) \cup (F \ C) = F /\ (F \cap C) \cap (F \ C) = {}
    OBVIOUS
  <2>2. Cardinality((F \cap C) \cup (F \ C)) = n + rest
    BY <1>1, <2>1, SizeOfBoth
  <2> QED BY <2>1, <2>2
<1>4. {e \in UnorderedPairs(F) : e \subseteq C} = UnorderedPairs(F \cap C)
  BY DEF UnorderedPairs
<1>5. Cardinality(UnorderedPairs(F \cap C)) = Half(n)
  BY <1>1, PairsCounted
<1>6. {e \in UnorderedPairs(F) : e \cap C # {} /\ ~(e \subseteq C)} = across
  <2>1. \A e : e \in UnorderedPairs(F) <=> \E f, g \in F : f # g /\ e = {f, g}
    BY PairIs
  <2>2. ASSUME NEW f \in F, NEW g \in F, {f, g} \cap C # {}, ~({f, g} \subseteq C)
        PROVE  {f, g} \in across
    <3>1. CASE f \in C
      BY <2>2, <3>1 DEF Across
    <3>2. CASE f \notin C
      <4>1. {f, g} = {g, f} /\ g \in C
        BY <2>2, <3>2
      <4> QED BY <2>2, <3>2, <4>1 DEF Across
    <3> QED BY <3>1, <3>2
  <2>3. \A e \in across : \E f, g \in F : /\ f # g /\ e = {f, g}
                                          /\ e \cap C # {} /\ ~(e \subseteq C)
    BY DEF Across
  <2> HIDE DEF across
  <2> QED BY <2>1, <2>2, <2>3
<1>7. Cardinality(across) = n * rest
  <2>1. (F \cap C) \cap (F \ C) = {}
    OBVIOUS
  <2> QED BY <1>1, <2>1, CrossCounted
<1>8. n * rest = n * (k - 1) - n * (n - 1)
  BY <1>2, <1>3
<1>9. 2 * Half(n) = n * (n - 1)
  BY <1>2, HalfNat
<1> HIDE DEF n, k, rest, across
<1>10. n * rest = n * (k - 1) - 2 * Half(n)
  BY <1>8, <1>9
<1> QED BY <1>2, <1>4, <1>5, <1>6, <1>7, <1>10 DEF n, k

-----------------------------------------------------------------------------
(* What a history says.                                                     *)

(* The share of a pair times the pairs of the commit, and what it loses.    *)
LEMMA UnitIs ==
  ASSUME NEW F, IsFiniteSet(F), Cardinality(F) >= 2
  PROVE  LET h == Half(Cardinality(F))
         IN  /\ Cardinality(F) \in Nat /\ h \in Nat /\ UnitMass(F) \in Nat
             /\ UnitMass(F) * h <= WeightScale
             /\ WeightScale - UnitMass(F) * h + 1 <= h
<1> DEFINE h == Half(Cardinality(F))
           q == WeightScale \div h
<1>1. Cardinality(F) \in Nat
  BY FS_CardinalityType
<1>2. h \in Nat /\ h >= 1
  BY <1>1, HalfNat
<1>3. WeightScale \in Nat
  BY WeightAssumption
<1> HIDE DEF h
<1>4. /\ q \in Int /\ WeightScale % h \in 0 .. (h - 1)
      /\ WeightScale = h * q + (WeightScale % h)
  BY <1>2, <1>3
<1>5. q \in Nat
  BY <1>2, <1>3
<1>6. h * q = q * h
  BY <1>2, <1>5
<1>7. q * h <= WeightScale /\ WeightScale - q * h + 1 <= h
  <2> DEFINE p == q * h
             r == WeightScale % h
  <2>1. p \in Int /\ r \in 0 .. (h - 1) /\ WeightScale = p + r
    BY <1>2, <1>4, <1>5, <1>6
  <2> HIDE DEF p, r
  <2>2. p <= WeightScale /\ WeightScale - p + 1 <= h
    BY <1>2, <1>3, <2>1
  <2> QED BY <2>2 DEF p
<1> QED BY <1>1, <1>2, <1>5, <1>7 DEF UnitMass, h

CommitFiles(i) == Members(asked.commits[i])

LEMMA InputIs ==
  ASSUME asked \in MassInputs
  PROVE  /\ IsFiniteSet(asked.universe) /\ Len(asked.commits) \in Nat
         /\ DOMAIN asked.commits = 1..Len(asked.commits)
         /\ asked.analysis \in {"layout", "support"}
         /\ Telling \subseteq 1..Len(asked.commits) /\ IsFiniteSet(Telling)
         /\ \A i : CommitFiles(i) \subseteq asked.universe /\ IsFiniteSet(CommitFiles(i))
         /\ \A i \in Telling : Cardinality(CommitFiles(i)) \in 2..BroadCommitCap
         /\ \A i \in Telling : UnitMass(CommitFiles(i)) \in Nat
         /\ IsFiniteSet(AllPairs)
<1>1. /\ IsFiniteSet(asked.universe) /\ Len(asked.commits) \in Nat
      /\ DOMAIN asked.commits = 1..Len(asked.commits)
      /\ asked.analysis \in {"layout", "support"}
  BY HistoriesAssumption
<1>2. Telling \subseteq 1..Len(asked.commits)
  BY DEF Telling
<1>3. IsFiniteSet(Telling)
  <2>1. IsFiniteSet(1..Len(asked.commits))
    BY <1>1, FS_Interval
  <2> QED BY <1>2, <2>1, FS_Subset
<1>4. \A i : CommitFiles(i) \subseteq asked.universe /\ IsFiniteSet(CommitFiles(i))
  <2> TAKE i
  <2>1. CommitFiles(i) \in SUBSET asked.universe
    BY DEF CommitFiles, Members
  <2> QED BY <1>1, <2>1, FS_Subset
<1>5. \A i \in Telling : Cardinality(CommitFiles(i)) \in 2..BroadCommitCap
  BY DEF Telling, CommitFiles
<1>6. \A i \in Telling : UnitMass(CommitFiles(i)) \in Nat
  <2> TAKE i \in Telling
  <2>1. IsFiniteSet(CommitFiles(i)) /\ Cardinality(CommitFiles(i)) >= 2
    BY <1>4, <1>5
  <2> QED BY <2>1, UnitIs
<1>7. IsFiniteSet(AllPairs)
  BY <1>1, PairsCounted DEF AllPairs
<1> QED BY <1>1, <1>2, <1>3, <1>4, <1>5, <1>6, <1>7

ShareOf(e) == [i \in Telling |-> IF e \subseteq CommitFiles(i) THEN UnitMass(CommitFiles(i)) ELSE 0]

LEMMA MassIs ==
  ASSUME asked \in MassInputs, NEW e
  PROVE  /\ MassOf(e) = Sum(ShareOf(e), Telling) /\ MassOf(e) \in Nat
         /\ Sharing(e) \subseteq Telling /\ IsFiniteSet(Sharing(e))
         /\ Sharing(e) = {} => MassOf(e) = 0
<1> DEFINE f == [i \in Sharing(e) |-> UnitMass(CommitFiles(i))]
<1>1. Sharing(e) \in SUBSET Telling /\ IsFiniteSet(Telling)
  BY InputIs DEF Sharing
<1>2. IsFiniteSet(Sharing(e))
  BY <1>1, FS_Subset
<1>3. \A i \in Sharing(e) : f[i] \in Nat /\ ShareOf(e)[i] = f[i]
  BY <1>1, InputIs DEF Sharing, ShareOf, CommitFiles
<1>4. \A i \in Telling \ Sharing(e) : ShareOf(e)[i] = 0
  BY DEF Sharing, ShareOf, CommitFiles
<1>5. MassOf(e) = SumFunction(f)
  BY DEF MassOf, CommitFiles
<1>6. DOMAIN f = Sharing(e)
  OBVIOUS
<1> HIDE DEF f
<1>7. MassOf(e) = Sum(f, Sharing(e))
  BY <1>2, <1>5, <1>6, SumFunctionIsSum
<1>8. Sum(ShareOf(e), Telling) = Sum(f, Sharing(e))
  BY <1>1, <1>3, <1>4, SumOfPart
<1>9. Sum(f, Sharing(e)) \in Nat
  BY <1>2, <1>3, SumNat
<1>10. Sum(f, {}) = 0
  BY SumStep, FS_EmptySet
<1> QED BY <1>1, <1>2, <1>7, <1>8, <1>9, <1>10

(* The mass of some pairs, commit by commit.                                *)
PairsIn(E, i) == {e \in E : e \subseteq CommitFiles(i)}

LEMMA MassByCommit ==
  ASSUME asked \in MassInputs, NEW E \in SUBSET AllPairs,
         NEW g, \A i \in Telling :
           g[i] = UnitMass(CommitFiles(i)) * Cardinality(PairsIn(E, i))
  PROVE  /\ MassOfAll(E) = Sum(g, Telling) /\ MassOfAll(E) \in Nat
         /\ IsFiniteSet(E)
<1> DEFINE mass == [e \in E |-> MassOf(e)]
           f == [e \in E |-> ShareOf(e)]
           c == [i \in Telling |-> [e \in E |-> ShareOf(e)[i]]]
<1>1. IsFiniteSet(E) /\ IsFiniteSet(Telling)
  BY InputIs, FS_Subset
<1>2. MassOfAll(E) = SumFunction(mass) /\ DOMAIN mass = E
  BY DEF MassOfAll
<1>3. (\A e \in E : mass[e] \in Nat) /\ RowSums(mass, f, E, Telling)
  BY MassIs DEF RowSums
<1>4. Transposed(f, c, E, Telling)
  BY InputIs DEF ShareOf, Transposed
<1>5. \A i \in Telling : \A e \in E :
        c[i][e] = IF e \in PairsIn(E, i) THEN UnitMass(CommitFiles(i)) ELSE 0
  BY DEF PairsIn, ShareOf
<1> HIDE DEF mass, f, c
<1>6. RowSums(g, c, Telling, E)
  <2> SUFFICES ASSUME NEW i \in Telling
               PROVE  g[i] = Sum(c[i], E)
    BY DEF RowSums
  <2>1. PairsIn(E, i) \in SUBSET E /\ UnitMass(CommitFiles(i)) \in Int
    BY InputIs DEF PairsIn
  <2>2. Sum(c[i], E) = UnitMass(CommitFiles(i)) * Cardinality(PairsIn(E, i))
    BY <1>1, <1>5, <2>1, SumOfShares
  <2> QED BY <2>2
<1>7. Sum(mass, E) = Sum(g, Telling)
  BY <1>1, <1>3, <1>4, <1>6, SumExchange
<1>8. SumFunction(mass) = Sum(mass, E) /\ Sum(mass, E) \in Nat
  BY <1>1, <1>2, <1>3, SumFunctionIsSum, SumNat
<1> QED BY <1>1, <1>2, <1>7, <1>8

-----------------------------------------------------------------------------
(* Sums over the commits that the loop has kept, and over those of the      *)
(* history that tell something.                                             *)

EligibleSets == {F \in SUBSET asked.universe : Cardinality(F) \in 2..BroadCommitCap}

KeptCommit(F) == [members |-> F, unit |-> UnitMass(F)]

KeptTerms(g, kept) == [j \in DOMAIN kept |-> g[kept[j].members]]

KeptSum(g, kept, n) == Sum(KeptTerms(g, kept), 1 .. n)

Told(n) == Telling \cap 1 .. n

ToldTerms(g) == [i \in Telling |-> g[CommitFiles(i)]]

ToldSum(g, n) == Sum(ToldTerms(g), Told(n))

KeptCommits == {KeptCommit(F) : F \in EligibleSets}

LEMMA KeptAre ==
  ASSUME NEW kept \in Seq(KeptCommits)
  PROVE  /\ Len(kept) \in Nat /\ DOMAIN kept = 1 .. Len(kept)
         /\ \A j \in 1 .. Len(kept) :
              kept[j].members \in EligibleSets /\ kept[j].unit = UnitMass(kept[j].members)
<1>1. \A k \in KeptCommits : k.members \in EligibleSets /\ k.unit = UnitMass(k.members)
  BY DEF KeptCommits, KeptCommit
<1>2. \A j \in 1 .. Len(kept) : kept[j] \in KeptCommits
  OBVIOUS
<1> QED BY <1>1, <1>2

LEMMA KeptSumStep ==
  ASSUME NEW g \in [EligibleSets -> Int], NEW kept \in Seq(KeptCommits),
         NEW n \in 0 .. Len(kept)
  PROVE  /\ KeptSum(g, kept, 0) = 0
         /\ KeptSum(g, kept, n) \in Int
         /\ n < Len(kept) =>
              /\ g[kept[n + 1].members] \in Int
              /\ KeptSum(g, kept, n + 1) = KeptSum(g, kept, n) + g[kept[n + 1].members]
<1> DEFINE t == KeptTerms(g, kept)
<1>1. \A j \in 1 .. Len(kept) : t[j] = g[kept[j].members] /\ t[j] \in Int
  BY KeptAre DEF KeptTerms
<1> HIDE DEF t
<1>2. IsFiniteSet(1 .. n) /\ n \in Nat
  BY KeptAre, FS_Interval
<1>3. \A j \in 1 .. n : t[j] \in Int
  BY <1>1, <1>2, KeptAre
<1>4. Sum(t, 1 .. n) \in Int
  BY <1>2, <1>3, SumStep
<1>5. Sum(t, 1 .. 0) = 0
  <2>1. 1 .. 0 = {}
    OBVIOUS
  <2> QED BY <2>1, SumStep, FS_EmptySet
<1>6. ASSUME n < Len(kept)
      PROVE  t[n + 1] \in Int /\ Sum(t, 1 .. n + 1) = Sum(t, 1 .. n) + t[n + 1]
  <2>1. 1 .. n + 1 = (1 .. n) \cup {n + 1} /\ n + 1 \notin 1 .. n
    BY <1>2
  <2>2. t[n + 1] \in Int
    BY <1>1, <1>2, <1>6, KeptAre
  <2>3. \A j \in (1 .. n) \cup {n + 1} : t[j] \in Int
    BY <1>3, <2>2
  <2>4. Sum(t, (1 .. n) \cup {n + 1}) = t[n + 1] + Sum(t, 1 .. n)
    BY <1>2, <2>1, <2>3, SumAdd
  <2>5. Sum(t, 1 .. n + 1) = Sum(t, (1 .. n) \cup {n + 1})
    BY <2>1, Zenon
  <2> QED BY <1>4, <2>2, <2>4, <2>5
<1>7. n < Len(kept) => t[n + 1] = g[kept[n + 1].members]
  BY <1>1, <1>2, KeptAre
<1> QED BY <1>4, <1>5, <1>6, <1>7 DEF KeptSum, t

Extended(more, kept, F) == more = Append(kept, KeptCommit(F))

(* Commits that are kept later change no sum over the first ones.           *)
LEMMA KeptSumAppend ==
  ASSUME NEW g \in [EligibleSets -> Int], NEW kept \in Seq(KeptCommits),
         NEW F \in EligibleSets, NEW more, Extended(more, kept, F)
  PROVE  /\ more \in Seq(KeptCommits) /\ Len(more) = Len(kept) + 1
         /\ KeptSum(g, more, Len(kept) + 1) = KeptSum(g, kept, Len(kept)) + g[F]
<1> DEFINE n == Len(kept)
<1>1. n \in Nat
  BY KeptAre
<1>2. /\ Len(more) = n + 1 /\ DOMAIN more = 1 .. n + 1
      /\ \A j \in 1 .. n : more[j] = kept[j]
      /\ more[n + 1] = KeptCommit(F)
  BY <1>1 DEF Extended
<1>3. more \in Seq(KeptCommits)
  BY DEF KeptCommits, Extended
<1>4. KeptSum(g, more, n + 1) = KeptSum(g, more, n) + g[F]
  <2>1. n \in 0 .. Len(more) /\ n < Len(more) /\ more[n + 1].members = F
    BY <1>1, <1>2 DEF KeptCommit
  <2> QED BY <1>3, <2>1, KeptSumStep
<1>5. KeptSum(g, more, n) = KeptSum(g, kept, n)
  <2>1. \A j \in 1 .. n : /\ KeptTerms(g, more)[j] = KeptTerms(g, kept)[j]
                          /\ KeptTerms(g, kept)[j] \in Int
    BY <1>1, <1>2, KeptAre DEF KeptTerms
  <2>2. IsFiniteSet(1 .. n)
    BY <1>1, FS_Interval
  <2> QED BY <2>1, <2>2, SumSame DEF KeptSum
<1> QED BY <1>2, <1>3, <1>4, <1>5

LEMMA ToldSumStep ==
  ASSUME asked \in MassInputs, NEW g \in [EligibleSets -> Int],
         NEW n \in 0 .. (Len(asked.commits) - 1)
  PROVE  /\ ToldSum(g, 0) = 0
         /\ ToldSum(g, n) \in Int
         /\ n + 1 \in Telling <=> CommitFiles(n + 1) \in EligibleSets
         /\ n + 1 \in Telling => ToldSum(g, n + 1) = ToldSum(g, n) + g[CommitFiles(n + 1)]
         /\ n + 1 \notin Telling => ToldSum(g, n + 1) = ToldSum(g, n)
<1> DEFINE t == ToldTerms(g)
<1>1. n \in Nat /\ Len(asked.commits) \in Nat /\ n + 1 \in 1 .. Len(asked.commits)
  BY InputIs
<1>2. n + 1 \in Telling <=> CommitFiles(n + 1) \in EligibleSets
  BY <1>1, InputIs DEF Telling, EligibleSets, CommitFiles
<1>3. \A i \in Telling : CommitFiles(i) \in EligibleSets
  BY InputIs DEF EligibleSets
<1>4. \A i \in Telling : t[i] = g[CommitFiles(i)] /\ t[i] \in Int
  BY <1>3 DEF ToldTerms
<1> HIDE DEF t
<1>5. IsFiniteSet(Told(n)) /\ Told(n) \subseteq Telling
  BY InputIs, FS_Subset DEF Told
<1>6. Sum(t, Told(n)) \in Int
  BY <1>4, <1>5, SumStep
<1>7. Sum(t, Told(0)) = 0
  <2>1. Told(0) = {}
    BY DEF Told
  <2> QED BY <2>1, SumStep, FS_EmptySet
<1>8. ASSUME n + 1 \in Telling
      PROVE  Sum(t, Told(n + 1)) = Sum(t, Told(n)) + t[n + 1]
  <2>1. Told(n + 1) = Told(n) \cup {n + 1} /\ n + 1 \notin Told(n)
    BY <1>1, <1>8 DEF Told
  <2>2. \A i \in Told(n) \cup {n + 1} : t[i] \in Int
    BY <1>4, <1>5, <1>8
  <2>3. Sum(t, Told(n) \cup {n + 1}) = t[n + 1] + Sum(t, Told(n))
    BY <1>5, <2>1, <2>2, SumAdd
  <2>4. Sum(t, Told(n + 1)) = Sum(t, Told(n) \cup {n + 1})
    BY <2>1, Zenon
  <2> QED BY <1>4, <1>6, <1>8, <2>3, <2>4
<1>9. n + 1 \notin Telling => Told(n + 1) = Told(n)
  BY <1>1 DEF Told
<1> QED BY <1>2, <1>4, <1>6, <1>7, <1>8, <1>9 DEF ToldSum, t

LEMMA ToldCount ==
  ASSUME asked \in MassInputs, NEW n \in 0 .. (Len(asked.commits) - 1)
  PROVE  /\ Cardinality(Told(0)) = 0 /\ Cardinality(Told(n)) \in Nat
         /\ n + 1 \in Telling => Cardinality(Told(n + 1)) = Cardinality(Told(n)) + 1
         /\ n + 1 \notin Telling => Cardinality(Told(n + 1)) = Cardinality(Told(n))
<1>1. IsFiniteSet(Told(n)) /\ n \in Nat
  BY InputIs, FS_Subset DEF Told
<1>2. Told(0) = {} /\ n + 1 \notin Told(n)
  BY <1>1 DEF Told
<1>3. n + 1 \in Telling => Told(n + 1) = Told(n) \cup {n + 1}
  BY <1>1 DEF Told
<1>4. n + 1 \notin Telling => Told(n + 1) = Told(n)
  BY <1>1 DEF Told
<1>5. Cardinality(Told(n)) \in Nat /\ Cardinality(Told(0)) = 0
  BY <1>1, <1>2, FS_EmptySet, FS_CardinalityType
<1>6. Cardinality(Told(n) \cup {n + 1}) = Cardinality(Told(n)) + 1
  BY <1>1, <1>2, FS_AddElement
<1> QED BY <1>3, <1>4, <1>5, <1>6

-----------------------------------------------------------------------------
(* What each sum of the analyses takes from a commit's files.               *)

TotalIn == [F \in EligibleSets |-> UnitMass(F) * Half(Cardinality(F))]

WithinIn(c) ==
  [F \in EligibleSets |-> UnitMass(F) * Half(Cardinality(F \cap FilesOf(c)))]

StrengthIn(c) ==
  [F \in EligibleSets |->
     UnitMass(F) * StrengthOf(Cardinality(F \cap FilesOf(c)), Cardinality(F))]

MassIn(e) == [F \in EligibleSets |-> IF e \subseteq F THEN UnitMass(F) ELSE 0]

CountIn(e) == [F \in EligibleSets |-> IF e \subseteq F THEN 1 ELSE 0]

LEMMA EligibleAre ==
  ASSUME asked \in MassInputs, NEW F \in EligibleSets
  PROVE  /\ IsFiniteSet(F) /\ F \subseteq asked.universe
         /\ Cardinality(F) \in 2 .. BroadCommitCap /\ Cardinality(F) \in Nat
         /\ UnitMass(F) \in Nat /\ Half(Cardinality(F)) \in Nat
         /\ \A c : /\ Cardinality(F \cap FilesOf(c)) \in Nat
                   /\ Half(Cardinality(F \cap FilesOf(c))) \in Nat
<1>1. IsFiniteSet(F) /\ F \subseteq asked.universe /\ Cardinality(F) \in 2 .. BroadCommitCap
  BY InputIs, FS_Subset DEF EligibleSets
<1>2. UnitMass(F) \in Nat /\ Cardinality(F) \in Nat /\ Half(Cardinality(F)) \in Nat
  BY <1>1, UnitIs
<1>3. ASSUME NEW c
      PROVE  /\ Cardinality(F \cap FilesOf(c)) \in Nat
             /\ Half(Cardinality(F \cap FilesOf(c))) \in Nat
  <2>1. IsFiniteSet(F \cap FilesOf(c))
    BY <1>1, FS_Subset
  <2> QED BY <2>1, FS_CardinalityType, HalfNat
<1> QED BY <1>1, <1>2, <1>3

LEMMA TermsAre ==
  ASSUME asked \in MassInputs
  PROVE  /\ TotalIn \in [EligibleSets -> Int]
         /\ \A c : WithinIn(c) \in [EligibleSets -> Int] /\ StrengthIn(c) \in [EligibleSets -> Int]
         /\ \A e : MassIn(e) \in [EligibleSets -> Int] /\ CountIn(e) \in [EligibleSets -> Int]
<1>1. ASSUME NEW F \in EligibleSets
      PROVE  UnitMass(F) * Half(Cardinality(F)) \in Int
  <2>1. UnitMass(F) \in Nat /\ Half(Cardinality(F)) \in Nat
    BY EligibleAre
  <2> QED BY <2>1
<1>2. ASSUME NEW F \in EligibleSets, NEW c
      PROVE  /\ UnitMass(F) * Half(Cardinality(F \cap FilesOf(c))) \in Int
             /\ UnitMass(F) * StrengthOf(Cardinality(F \cap FilesOf(c)), Cardinality(F)) \in Int
  <2> DEFINE u == UnitMass(F)
             n == Cardinality(F \cap FilesOf(c))
             k == Cardinality(F)
             h == Half(n)
  <2>1. u \in Nat /\ n \in Nat /\ k \in Nat /\ h \in Nat
    BY EligibleAre
  <2> HIDE DEF u, n, k, h
  <2>2. u * h \in Int /\ u * (n * (k - 1)) \in Int
    BY <2>1
  <2> QED BY <2>2 DEF StrengthOf, u, n, k, h
<1>3. \A F \in EligibleSets : UnitMass(F) \in Int
  BY EligibleAre
<1>4. TotalIn \in [EligibleSets -> Int]
  BY <1>1 DEF TotalIn
<1>5. \A c : WithinIn(c) \in [EligibleSets -> Int] /\ StrengthIn(c) \in [EligibleSets -> Int]
  BY <1>2 DEF WithinIn, StrengthIn
<1>6. \A e : MassIn(e) \in [EligibleSets -> Int] /\ CountIn(e) \in [EligibleSets -> Int]
  BY <1>3 DEF MassIn, CountIn
<1> QED BY <1>4, <1>5, <1>6

-----------------------------------------------------------------------------
(* The inductive invariant.                                                 *)

HistoryKept ==
  /\ asked \in MassInputs
  /\ accumulation =
       [read |-> accumulation.read, eligible |-> accumulation.eligible,
        total |-> accumulation.total, ideal |-> accumulation.ideal,
        broad |-> accumulation.broad, below |-> accumulation.below,
        touched |-> accumulation.touched, span |-> accumulation.span]
  /\ accumulation.read \in 0 .. Len(asked.commits)
  /\ accumulation.eligible \in Seq(KeptCommits)
  /\ Len(accumulation.eligible) = Cardinality(Told(accumulation.read))
  /\ \A g \in [EligibleSets -> Int] :
       KeptSum(g, accumulation.eligible, Len(accumulation.eligible))
         = ToldSum(g, accumulation.read)
  /\ accumulation.total = ToldSum(TotalIn, accumulation.read)
  /\ accumulation.ideal = WeightScale * Cardinality(Told(accumulation.read))
  /\ accumulation.broad \in Nat /\ accumulation.below \in Nat
  /\ Len(accumulation.eligible) + accumulation.broad + accumulation.below = accumulation.read

StagesKept ==
  /\ stage \in {"reading", asked.analysis, "partitioned", "supported"}
  /\ stage = "partitioned" => asked.analysis = "layout"
  /\ stage = "supported" => asked.analysis = "support"
  /\ folded \in 0 .. Len(accumulation.eligible)
  /\ stage = "reading" => folded = 0
  /\ stage # "reading" => accumulation.read = Len(asked.commits)
  /\ stage \in {"partitioned", "supported"} => folded = Len(accumulation.eligible)

CutKept ==
  /\ \A c \in Directories :
       /\ cut.masses[c].intra = KeptSum(WithinIn(c), accumulation.eligible, folded)
       /\ cut.masses[c].strength = KeptSum(StrengthIn(c), accumulation.eligible, folded)
  /\ cut.intra = Sum([c \in Directories |-> cut.masses[c].intra], Directories)

SupportKept ==
  /\ \A f \in asked.universe :
       support.commits[f] = KeptSum(CountIn({f}), accumulation.eligible, folded)
  /\ DOMAIN support.pairs \subseteq AllPairs
  /\ \A e \in DOMAIN support.pairs :
       /\ support.pairs[e] =
            [mass |-> KeptSum(MassIn(e), accumulation.eligible, folded),
             cooccurrence |-> KeptSum(CountIn(e), accumulation.eligible, folded)]
       /\ KeptSum(CountIn(e), accumulation.eligible, folded) >= 1
  /\ \A e \in AllPairs \ DOMAIN support.pairs :
       /\ KeptSum(MassIn(e), accumulation.eligible, folded) = 0
       /\ KeptSum(CountIn(e), accumulation.eligible, folded) = 0

MassInv ==
  /\ HistoryKept
  /\ StagesKept
  /\ asked.analysis = "layout" => CutKept
  /\ asked.analysis = "support" => SupportKept

(* What is asked never changes, and all of this is about what is asked.     *)
LEMMA AskedStays ==
  ASSUME asked' = asked
  PROVE  /\ EligibleSets' = EligibleSets /\ KeptCommits' = KeptCommits
         /\ Directories' = Directories /\ AllPairs' = AllPairs /\ TotalIn' = TotalIn
         /\ Told(accumulation.read)' = Told(accumulation'.read)
         /\ \A g : ToldSum(g, accumulation.read)' = ToldSum(g, accumulation'.read)
         /\ \A c : WithinIn(c)' = WithinIn(c) /\ StrengthIn(c)' = StrengthIn(c)
         /\ \A e : MassIn(e)' = MassIn(e) /\ CountIn(e)' = CountIn(e)
  BY DEF EligibleSets, KeptCommits, KeptCommit, Directories, AllPairs, TotalIn, Told,
         ToldSum, ToldTerms, Telling, CommitFiles, Members, WithinIn, StrengthIn, FilesOf,
         MassIn, CountIn

LEMMA MassBegins ==
  MassInit(MassInputs) => MassInv
<1> SUFFICES ASSUME MassInit(MassInputs)
             PROVE  MassInv
  OBVIOUS
<1>1. /\ asked \in MassInputs /\ stage = "reading" /\ folded = 0
      /\ accumulation = [read |-> 0, eligible |-> <<>>, total |-> 0, ideal |-> 0,
                         broad |-> 0, below |-> 0, touched |-> {}, span |-> {}]
      /\ cut = [masses |-> [c \in Directories |-> [intra |-> 0, strength |-> 0]], intra |-> 0]
      /\ support = [commits |-> [f \in asked.universe |-> 0], pairs |-> <<>>]
  BY DEF MassInit
<1>2. <<>> \in Seq(KeptCommits) /\ Len(<<>>) = 0 /\ DOMAIN <<>> = {}
  OBVIOUS
<1>3. Len(asked.commits) \in Nat /\ IsFiniteSet(asked.universe)
  BY <1>1, InputIs
<1>4. Told(0) = {} /\ Cardinality(Told(0)) = 0
  <2>1. Told(0) = {}
    BY DEF Told
  <2> QED BY <2>1, FS_EmptySet
<1>5. \A g \in [EligibleSets -> Int] : KeptSum(g, <<>>, 0) = 0 /\ ToldSum(g, 0) = 0
  <2>1. \A t : Sum(t, {}) = 0
    BY SumStep, FS_EmptySet
  <2>2. 1 .. 0 = {}
    OBVIOUS
  <2> QED BY <1>4, <2>1, <2>2 DEF KeptSum, ToldSum
<1>6. HistoryKept
  BY <1>1, <1>2, <1>3, <1>4, <1>5, TermsAre, WeightAssumption DEF HistoryKept
<1>7. StagesKept
  BY <1>1, <1>2 DEF StagesKept
<1>8. CutKept
  <2> DEFINE t == [c \in Directories |-> cut.masses[c].intra]
  <2>1. \A c \in Directories : cut.masses[c].intra = 0 /\ cut.masses[c].strength = 0
    BY <1>1
  <2>2. IsFiniteSet(Directories) /\ \A c \in Directories : t[c] = 0
    <3>1. IsFiniteSet({asked.community[f] : f \in asked.universe})
      BY <1>3, FiniteImage
    <3> QED BY <2>1, <3>1 DEF Directories
  <2> HIDE DEF t
  <2>3. Sum(t, Directories) = 0
    <3>1. Sum(t, Directories) = 0 * Cardinality(Directories)
      BY <2>2, SumConstant
    <3> QED BY <2>2, <3>1, FS_CardinalityType
  <2>4. cut.intra = 0 /\ accumulation.eligible = <<>>
    BY <1>1
  <2> QED BY <1>1, <1>5, <2>1, <2>3, <2>4, TermsAre DEF CutKept, t
<1>9. SupportKept
  <2>1. accumulation.eligible = <<>> /\ DOMAIN support.pairs = {}
    BY <1>1, <1>2
  <2>2. \A f \in asked.universe : support.commits[f] = 0
    BY <1>1
  <2> QED BY <1>1, <1>5, <2>1, <2>2, TermsAre DEF SupportKept
<1> QED BY <1>6, <1>7, <1>8, <1>9 DEF MassInv

(* A commit is counted once, as what its files make it.                     *)
LEMMA TalliedIs ==
  ASSUME NEW a, NEW F,
         a = [read |-> a.read, eligible |-> a.eligible, total |-> a.total,
              ideal |-> a.ideal, broad |-> a.broad, below |-> a.below,
              touched |-> a.touched, span |-> a.span],
         Cardinality(F) \in Nat
  PROVE  LET b == Tallied(a, F)
         IN  /\ b = [read |-> b.read, eligible |-> b.eligible, total |-> b.total,
                     ideal |-> b.ideal, broad |-> b.broad, below |-> b.below,
                     touched |-> b.touched, span |-> b.span]
             /\ b.read = a.read
             /\ Cardinality(F) \in 2 .. BroadCommitCap =>
                  /\ b.eligible = Append(a.eligible, KeptCommit(F))
                  /\ b.total = a.total + UnitMass(F) * Half(Cardinality(F))
                  /\ b.ideal = a.ideal + WeightScale
                  /\ b.broad = a.broad /\ b.below = a.below
             /\ Cardinality(F) \notin 2 .. BroadCommitCap =>
                  /\ b.eligible = a.eligible /\ b.total = a.total /\ b.ideal = a.ideal
                  /\ \/ b.broad = a.broad + 1 /\ b.below = a.below
                     \/ b.broad = a.broad /\ b.below = a.below + 1
<1> DEFINE k == Cardinality(F)
           b == Tallied(a, F)
<1>1. BroadCommitCap \in Nat /\ BroadCommitCap >= 2
  BY WeightAssumption
<1>2. CASE k < 2
  <2>1. Disposition(F) = "BelowPairThreshold"
    BY <1>1, <1>2 DEF Disposition
  <2>2. b = [a EXCEPT !.below = @ + 1]
    BY <2>1 DEF Tallied
  <2>3. k \notin 2 .. BroadCommitCap
    BY <1>2
  <2> HIDE DEF b, k
  <2> QED BY <2>2, <2>3 DEF b, k
<1>3. CASE ~(k < 2) /\ k > BroadCommitCap
  <2>1. Disposition(F) = "Broad"
    BY <1>3 DEF Disposition
  <2>2. b = [a EXCEPT !.broad = @ + 1]
    BY <2>1 DEF Tallied
  <2>3. k \notin 2 .. BroadCommitCap
    BY <1>1, <1>3
  <2> QED BY <2>2, <2>3
<1>4. CASE ~(k < 2) /\ ~(k > BroadCommitCap)
  <2>1. Disposition(F) = "Eligible"
    BY <1>4 DEF Disposition
  <2>2. b = [a EXCEPT !.total = @ + UnitMass(F) * Half(k),
                      !.ideal = @ + WeightScale,
                      !.eligible = Append(@, KeptCommit(F))]
    BY <2>1 DEF Tallied, KeptCommit
  <2>3. k \in 2 .. BroadCommitCap
    BY <1>1, <1>4
  <2> QED BY <2>2, <2>3
<1> QED BY <1>2, <1>3, <1>4

LEMMA KeptSumsAppend ==
  ASSUME asked \in MassInputs, NEW kept \in Seq(KeptCommits),
         NEW F \in EligibleSets, NEW more, Extended(more, kept, F)
  PROVE  /\ more \in Seq(KeptCommits) /\ Len(more) = Len(kept) + 1
         /\ \A g \in [EligibleSets -> Int] :
              KeptSum(g, more, Len(more)) = KeptSum(g, kept, Len(kept)) + g[F]
<1>1. TotalIn \in [EligibleSets -> Int]
  BY TermsAre
<1>2. more \in Seq(KeptCommits) /\ Len(more) = Len(kept) + 1
  BY <1>1, KeptSumAppend
<1> QED BY <1>2, KeptSumAppend

LEMMA ReadKeepsHistory ==
  ASSUME HistoryKept, asked' = asked,
         accumulation.read < Len(asked.commits),
         NEW seen, NEW F,
         F = CommitFiles(accumulation.read + 1),
         seen = [accumulation EXCEPT !.read = @ + 1,
                   !.span = seen.span, !.touched = seen.touched],
         accumulation' = Tallied(seen, F)
  PROVE  HistoryKept'
<1> DEFINE a == accumulation
           b == accumulation'
           n == accumulation.read
           kept == accumulation.eligible
<1>1. /\ asked \in MassInputs /\ n \in 0 .. (Len(asked.commits) - 1) /\ n \in Nat
      /\ n + 1 \in 0 .. Len(asked.commits)
  BY InputIs DEF HistoryKept
<1>2. /\ seen = [read |-> n + 1, eligible |-> kept, total |-> a.total,
                 ideal |-> a.ideal, broad |-> a.broad, below |-> a.below,
                 touched |-> seen.touched, span |-> seen.span]
      /\ IsFiniteSet(F) /\ F \subseteq asked.universe
  BY <1>1, InputIs DEF HistoryKept
<1>3. Cardinality(F) \in Nat
  BY <1>2, FS_CardinalityType
<1>4. /\ b = [read |-> b.read, eligible |-> b.eligible, total |-> b.total,
              ideal |-> b.ideal, broad |-> b.broad, below |-> b.below,
              touched |-> b.touched, span |-> b.span]
      /\ b.read = n + 1
      /\ F \in EligibleSets =>
           /\ b.eligible = Append(kept, KeptCommit(F))
           /\ b.total = a.total + UnitMass(F) * Half(Cardinality(F))
           /\ b.ideal = a.ideal + WeightScale
           /\ b.broad = a.broad /\ b.below = a.below
      /\ F \notin EligibleSets =>
           /\ b.eligible = kept /\ b.total = a.total /\ b.ideal = a.ideal
           /\ \/ b.broad = a.broad + 1 /\ b.below = a.below
              \/ b.broad = a.broad /\ b.below = a.below + 1
  <2>1. /\ seen.read = n + 1 /\ seen.eligible = kept /\ seen.total = a.total
        /\ seen.ideal = a.ideal /\ seen.broad = a.broad /\ seen.below = a.below
    BY <1>2
  <2>2. F \in EligibleSets <=> Cardinality(F) \in 2 .. BroadCommitCap
    BY <1>2 DEF EligibleSets
  <2>3. seen = [read |-> seen.read, eligible |-> seen.eligible, total |-> seen.total,
                ideal |-> seen.ideal, broad |-> seen.broad, below |-> seen.below,
                touched |-> seen.touched, span |-> seen.span]
    BY <1>2, <2>1
  <2> HIDE DEF a, b, kept, n
  <2>4. b = Tallied(seen, F)
    BY DEF b
  <2> QED BY <1>3, <2>1, <2>2, <2>3, <2>4, TalliedIs
<1>5. /\ kept \in Seq(KeptCommits) /\ Len(kept) = Cardinality(Told(n))
      /\ \A g \in [EligibleSets -> Int] : KeptSum(g, kept, Len(kept)) = ToldSum(g, n)
      /\ a.total = ToldSum(TotalIn, n)
      /\ a.ideal = WeightScale * Cardinality(Told(n))
      /\ a.broad \in Nat /\ a.below \in Nat
      /\ Len(kept) + a.broad + a.below = n
      /\ Len(kept) \in Nat
  BY KeptAre DEF HistoryKept
<1>6. n + 1 \in Telling <=> F \in EligibleSets
  BY <1>1, TermsAre, ToldSumStep
<1> HIDE DEF a, b, n, kept
<1>7. /\ b.eligible \in Seq(KeptCommits)
      /\ Len(b.eligible) = Cardinality(Told(n + 1))
      /\ \A g \in [EligibleSets -> Int] :
           KeptSum(g, b.eligible, Len(b.eligible)) = ToldSum(g, n + 1)
      /\ b.total = ToldSum(TotalIn, n + 1)
      /\ b.ideal = WeightScale * Cardinality(Told(n + 1))
      /\ b.broad \in Nat /\ b.below \in Nat
      /\ Len(b.eligible) + b.broad + b.below = n + 1
  <2>1. CASE F \in EligibleSets
    <3>1. /\ b.eligible \in Seq(KeptCommits) /\ Len(b.eligible) = Len(kept) + 1
          /\ \A g \in [EligibleSets -> Int] :
               KeptSum(g, b.eligible, Len(b.eligible)) = KeptSum(g, kept, Len(kept)) + g[F]
      <4>1. Extended(b.eligible, kept, F)
        BY <1>4, <2>1 DEF Extended
      <4>2. kept \in Seq(KeptCommits) /\ asked \in MassInputs
        BY <1>1, <1>5
      <4> QED BY <2>1, <4>1, <4>2, KeptSumsAppend
    <3>2. \A g \in [EligibleSets -> Int] : ToldSum(g, n + 1) = ToldSum(g, n) + g[F]
      BY <1>1, <1>6, <2>1, ToldSumStep DEF n
    <3>3. Cardinality(Told(n + 1)) = Cardinality(Told(n)) + 1 /\ Cardinality(Told(n)) \in Nat
      BY <1>1, <1>6, <2>1, ToldCount
    <3>4. TotalIn[F] = UnitMass(F) * Half(Cardinality(F))
      BY <2>1 DEF TotalIn
    <3>5. b.total = ToldSum(TotalIn, n + 1)
      BY <1>1, <1>4, <1>5, <2>1, <3>2, <3>4, TermsAre
    <3>6. b.ideal = WeightScale * Cardinality(Told(n + 1))
      <4>1. \A c \in Nat : WeightScale * c + WeightScale = WeightScale * (c + 1)
        BY WeightAssumption
      <4> QED BY <1>4, <1>5, <2>1, <3>3, <4>1
    <3>7. /\ b.broad \in Nat /\ b.below \in Nat
          /\ Len(b.eligible) + b.broad + b.below = n + 1
      <4>1. b.broad = a.broad /\ b.below = a.below
        BY <1>4, <2>1
      <4> DEFINE long == Len(b.eligible)
                 short == Len(kept)
      <4>2. /\ long = short + 1 /\ short \in Nat
            /\ a.broad \in Nat /\ a.below \in Nat /\ short + a.broad + a.below = n
        BY <1>5, <3>1
      <4> HIDE DEF long, short
      <4>3. long + b.broad + b.below = n + 1
        BY <4>1, <4>2
      <4> QED BY <4>1, <4>2, <4>3 DEF long
    <3> QED BY <1>5, <3>1, <3>2, <3>3, <3>5, <3>6, <3>7
  <2>2. CASE F \notin EligibleSets
    <3>1. \A g \in [EligibleSets -> Int] : ToldSum(g, n + 1) = ToldSum(g, n)
      BY <1>1, <1>6, <2>2, ToldSumStep
    <3>2. Cardinality(Told(n + 1)) = Cardinality(Told(n))
      BY <1>1, <1>6, <2>2, ToldCount
    <3>3. /\ b.broad \in Nat /\ b.below \in Nat
          /\ Len(b.eligible) + b.broad + b.below = n + 1
      <4> DEFINE long == Len(b.eligible)
      <4>1. /\ long = Len(kept)
            /\ \/ b.broad = a.broad + 1 /\ b.below = a.below
               \/ b.broad = a.broad /\ b.below = a.below + 1
        BY <1>4, <2>2
      <4>2. long \in Nat /\ a.broad \in Nat /\ a.below \in Nat /\ long + a.broad + a.below = n
        BY <1>5, <4>1
      <4> HIDE DEF long
      <4>3. b.broad \in Nat /\ b.below \in Nat /\ long + b.broad + b.below = n + 1
        <5>1. CASE b.broad = a.broad + 1 /\ b.below = a.below
          BY <4>2, <5>1
        <5>2. CASE b.broad = a.broad /\ b.below = a.below + 1
          BY <4>2, <5>2
        <5> QED BY <4>1, <5>1, <5>2
      <4> QED BY <4>3 DEF long
    <3> QED BY <1>1, <1>4, <1>5, <2>2, <3>1, <3>2, <3>3, TermsAre
  <2> QED BY <2>1, <2>2
<1>8. /\ EligibleSets' = EligibleSets /\ KeptCommits' = KeptCommits /\ TotalIn' = TotalIn
      /\ Told(accumulation.read)' = Told(accumulation'.read)
      /\ \A g : ToldSum(g, accumulation.read)' = ToldSum(g, accumulation'.read)
  BY AskedStays
<1>9. /\ accumulation'.eligible \in Seq(KeptCommits)'
      /\ Len(accumulation'.eligible) = Cardinality(Told(accumulation.read)')
      /\ \A g \in [EligibleSets -> Int]' :
           KeptSum(g, accumulation'.eligible, Len(accumulation'.eligible))
             = ToldSum(g, accumulation.read)'
  BY <1>4, <1>7, <1>8 DEF b
<1>10. /\ accumulation'.total = ToldSum(TotalIn', accumulation'.read)
       /\ ToldSum(TotalIn, accumulation.read)' = ToldSum(TotalIn', accumulation'.read)
       /\ accumulation'.ideal = WeightScale * Cardinality(Told(accumulation.read)')
       /\ accumulation'.broad \in Nat /\ accumulation'.below \in Nat
       /\ Len(accumulation'.eligible) + accumulation'.broad + accumulation'.below
            = accumulation'.read
  BY <1>4, <1>7, <1>8 DEF b
<1>11. /\ asked' \in MassInputs /\ accumulation'.read \in 0 .. Len(asked'.commits)
       /\ accumulation' =
            [read |-> accumulation'.read, eligible |-> accumulation'.eligible,
             total |-> accumulation'.total, ideal |-> accumulation'.ideal,
             broad |-> accumulation'.broad, below |-> accumulation'.below,
             touched |-> accumulation'.touched, span |-> accumulation'.span]
  BY <1>1, <1>4 DEF b
<1> QED BY <1>9, <1>10, <1>11 DEF HistoryKept

LEMMA HistoryStays ==
  ASSUME HistoryKept, asked' = asked, accumulation' = accumulation
  PROVE  HistoryKept'
<1>1. /\ EligibleSets' = EligibleSets /\ KeptCommits' = KeptCommits /\ TotalIn' = TotalIn
      /\ Told(accumulation.read)' = Told(accumulation.read)
      /\ \A g : ToldSum(g, accumulation.read)' = ToldSum(g, accumulation.read)
  BY AskedStays
<1> QED BY <1>1 DEF HistoryKept

(* An analysis that has not begun says nothing of commits kept later.       *)
LEMMA CutStays ==
  ASSUME CutKept, asked' = asked, cut' = cut, folded' = folded,
         \A g \in [EligibleSets -> Int] : KeptSum(g, accumulation'.eligible, folded)
                                            = KeptSum(g, accumulation.eligible, folded),
         asked \in MassInputs
  PROVE  CutKept'
<1>1. /\ Directories' = Directories
      /\ \A c : WithinIn(c)' = WithinIn(c) /\ StrengthIn(c)' = StrengthIn(c)
      /\ \A c : WithinIn(c) \in [EligibleSets -> Int] /\ StrengthIn(c) \in [EligibleSets -> Int]
  BY AskedStays, TermsAre
<1>2. cut.intra = Sum([c \in Directories |-> cut.masses[c].intra], Directories)
  BY DEF CutKept
<1> QED BY <1>1, <1>2 DEF CutKept

LEMMA SupportStays ==
  ASSUME SupportKept, asked' = asked, support' = support, folded' = folded,
         \A g \in [EligibleSets -> Int] : KeptSum(g, accumulation'.eligible, folded)
                                            = KeptSum(g, accumulation.eligible, folded),
         asked \in MassInputs
  PROVE  SupportKept'
<1>1. /\ AllPairs' = AllPairs
      /\ \A e : MassIn(e)' = MassIn(e) /\ CountIn(e)' = CountIn(e)
      /\ \A e : MassIn(e) \in [EligibleSets -> Int] /\ CountIn(e) \in [EligibleSets -> Int]
  BY AskedStays, TermsAre
<1> QED BY <1>1 DEF SupportKept

LEMMA ReadKeeps ==
  MassInv /\ ReadCommit => MassInv'
<1> SUFFICES ASSUME MassInv, ReadCommit
             PROVE  MassInv'
  OBVIOUS
<1> DEFINE F == Members(asked.commits[accumulation.read + 1])
           time == asked.commits[accumulation.read + 1].time
           seen == [accumulation EXCEPT !.read = @ + 1,
                      !.span = Spanned(@, time), !.touched = @ \cup F]
<1>1. /\ stage = "reading" /\ accumulation.read < Len(asked.commits)
      /\ accumulation' = Tallied(seen, F)
      /\ asked' = asked /\ stage' = stage /\ folded' = folded /\ cut' = cut
      /\ support' = support
  BY DEF ReadCommit
<1>2. HistoryKept /\ StagesKept /\ folded = 0 /\ asked \in MassInputs
  BY <1>1 DEF MassInv, StagesKept, HistoryKept
<1>3. HistoryKept'
  <2>1. seen = [accumulation EXCEPT !.read = @ + 1,
                  !.span = seen.span, !.touched = seen.touched]
    BY <1>2 DEF HistoryKept
  <2>2. F = CommitFiles(accumulation.read + 1)
    BY DEF CommitFiles
  <2> HIDE DEF seen, F
  <2> QED BY <1>1, <1>2, <2>1, <2>2, ReadKeepsHistory
<1>4. /\ accumulation.eligible \in Seq(KeptCommits) /\ accumulation'.eligible \in Seq(KeptCommits)
      /\ Len(accumulation'.eligible) \in Nat /\ Len(accumulation.eligible) \in Nat
  <2>1. KeptCommits' = KeptCommits
    BY <1>1, AskedStays
  <2> QED BY <1>2, <1>3, <2>1, KeptAre DEF HistoryKept
<1>5. \A g \in [EligibleSets -> Int] : /\ KeptSum(g, accumulation'.eligible, 0) = 0
                                       /\ KeptSum(g, accumulation.eligible, 0) = 0
  <2>1. 0 \in 0 .. Len(accumulation.eligible) /\ 0 \in 0 .. Len(accumulation'.eligible)
    BY <1>4
  <2> QED BY <1>4, <2>1, KeptSumStep
<1>6. StagesKept'
  BY <1>1, <1>2, <1>4 DEF StagesKept
<1>7. (asked.analysis = "layout" => CutKept') /\ (asked.analysis = "support" => SupportKept')
  BY <1>1, <1>2, <1>5, CutStays, SupportStays DEF MassInv
<1> QED BY <1>1, <1>3, <1>6, <1>7 DEF MassInv

(* The dispositions add up, so that the analysis that was asked begins.     *)
LEMMA EndKeeps ==
  MassInv /\ EndHistory => MassInv'
<1> SUFFICES ASSUME MassInv, EndHistory
             PROVE  MassInv'
  OBVIOUS
<1>1. /\ stage = "reading" /\ accumulation.read = Len(asked.commits)
      /\ stage' = IF DispositionsClose THEN asked.analysis ELSE "invariant"
      /\ asked' = asked /\ accumulation' = accumulation /\ folded' = folded /\ cut' = cut
      /\ support' = support
  BY DEF EndHistory
<1>2. HistoryKept /\ StagesKept /\ asked \in MassInputs
  BY DEF MassInv, HistoryKept
<1>3. DispositionsClose
  BY <1>1, <1>2 DEF HistoryKept, DispositionsClose
<1>4. asked.analysis \in {"layout", "support"}
  BY <1>2, InputIs
<1>5. StagesKept'
  BY <1>1, <1>2, <1>3, <1>4 DEF StagesKept
<1>6. (asked.analysis = "layout" => CutKept') /\ (asked.analysis = "support" => SupportKept')
  BY <1>1, <1>2, CutStays, SupportStays DEF MassInv
<1> QED BY <1>1, <1>2, <1>5, <1>6, HistoryStays DEF MassInv

(* The next commit to analyze is one of those kept.                         *)
LEMMA NextIs ==
  ASSUME MassInv, folded < Len(accumulation.eligible)
  PROVE  /\ asked \in MassInputs /\ accumulation.eligible \in Seq(KeptCommits)
         /\ folded \in Nat /\ folded \in 0 .. Len(accumulation.eligible)
         /\ folded + 1 \in 0 .. Len(accumulation.eligible)
         /\ NextCommit.members \in EligibleSets
         /\ NextCommit.unit = UnitMass(NextCommit.members)
         /\ \A g \in [EligibleSets -> Int] :
              /\ KeptSum(g, accumulation.eligible, folded) \in Int
              /\ g[NextCommit.members] \in Int
              /\ KeptSum(g, accumulation.eligible, folded + 1)
                   = KeptSum(g, accumulation.eligible, folded) + g[NextCommit.members]
<1>1. /\ asked \in MassInputs /\ accumulation.eligible \in Seq(KeptCommits)
      /\ folded \in 0 .. Len(accumulation.eligible)
  BY DEF MassInv, HistoryKept, StagesKept
<1>2. folded + 1 \in 1 .. Len(accumulation.eligible)
  BY <1>1, KeptAre
<1> QED BY <1>1, <1>2, KeptAre, KeptSumStep DEF NextCommit

LEMMA DirectoriesFinite ==
  ASSUME asked \in MassInputs
  PROVE  IsFiniteSet(Directories)
<1>1. IsFiniteSet({asked.community[f] : f \in asked.universe})
  BY InputIs, FiniteImage
<1> QED BY <1>1 DEF Directories

LEMMA AddKeeps ==
  MassInv /\ AddCommit => MassInv'
<1> SUFFICES ASSUME MassInv, AddCommit
             PROVE  MassInv'
  OBVIOUS
<1> DEFINE F == NextCommit.members
           k == Cardinality(F)
           Count(c) == Cardinality(F \cap FilesOf(c))
           Inside(c) == NextCommit.unit * Half(Count(c))
           inside == [c \in Directories |-> Inside(c)]
           masses == [c \in Directories |->
                        [intra |-> cut.masses[c].intra + Inside(c),
                         strength |-> cut.masses[c].strength
                                        + NextCommit.unit * StrengthOf(Count(c), k)]]
           kept == accumulation.eligible
<1>1. /\ stage = "layout" /\ folded < Len(kept) /\ folded' = folded + 1
      /\ cut' = [masses |-> masses, intra |-> cut.intra + SumFunction(inside)]
      /\ asked' = asked /\ stage' = stage /\ accumulation' = accumulation
      /\ support' = support
  BY DEF AddCommit
<1>2. asked \in MassInputs /\ asked.analysis = "layout" /\ HistoryKept /\ StagesKept
  BY <1>1, InputIs DEF MassInv, HistoryKept, StagesKept
<1>3. CutKept
  BY <1>2 DEF MassInv
<1>4. F \in EligibleSets /\ NextCommit.unit = UnitMass(F)
  BY <1>1, NextIs
<1>5. \A c \in Directories :
        /\ KeptSum(WithinIn(c), kept, folded) \in Int /\ Inside(c) \in Int
        /\ KeptSum(WithinIn(c), kept, folded + 1)
             = KeptSum(WithinIn(c), kept, folded) + Inside(c)
        /\ KeptSum(StrengthIn(c), kept, folded + 1)
             = KeptSum(StrengthIn(c), kept, folded) + NextCommit.unit * StrengthOf(Count(c), k)
  <2> TAKE c \in Directories
  <2>1. WithinIn(c) \in [EligibleSets -> Int] /\ StrengthIn(c) \in [EligibleSets -> Int]
    BY <1>2, TermsAre
  <2>2. /\ WithinIn(c)[F] = Inside(c)
        /\ StrengthIn(c)[F] = NextCommit.unit * StrengthOf(Count(c), k)
    BY <1>4 DEF WithinIn, StrengthIn
  <2> HIDE DEF Inside, Count, F, k, kept
  <2> QED BY <1>1, <2>1, <2>2, NextIs DEF kept, F
<1>6. \A c \in Directories :
        /\ cut'.masses[c].intra = cut.masses[c].intra + Inside(c)
        /\ cut'.masses[c].strength
             = cut.masses[c].strength + NextCommit.unit * StrengthOf(Count(c), k)
        /\ inside[c] = Inside(c)
  BY <1>1
<1>7. DOMAIN inside = Directories /\ cut'.intra = cut.intra + SumFunction(inside)
  BY <1>1
<1> HIDE DEF F, k, Count, Inside, inside, masses, kept
<1>8. \A c \in Directories :
        /\ cut'.masses[c].intra = KeptSum(WithinIn(c), kept, folded + 1)
        /\ cut'.masses[c].strength = KeptSum(StrengthIn(c), kept, folded + 1)
        /\ cut.masses[c].intra \in Int
  BY <1>3, <1>5, <1>6 DEF CutKept, kept
<1>9. cut'.intra = Sum([c \in Directories |-> cut'.masses[c].intra], Directories)
  <2> DEFINE old == [c \in Directories |-> cut.masses[c].intra]
             new == [c \in Directories |-> cut'.masses[c].intra]
  <2>1. cut.intra = Sum(old, Directories)
    BY <1>3 DEF CutKept
  <2>2. \A c \in Directories : /\ old[c] \in Int /\ inside[c] \in Int
                               /\ new[c] = old[c] + inside[c]
    BY <1>5, <1>6, <1>8
  <2> HIDE DEF old, new
  <2>3. Sum(new, Directories) = Sum(old, Directories) + Sum(inside, Directories)
    BY <1>2, <2>2, DirectoriesFinite, SumPlus
  <2>4. SumFunction(inside) = Sum(inside, Directories)
    BY <1>2, <1>7, DirectoriesFinite, SumFunctionIsSum
  <2>5. cut'.intra = Sum(new, Directories)
    BY <1>7, <2>1, <2>3, <2>4
  <2> QED BY <2>5 DEF new
<1>10. CutKept'
  <2>1. /\ Directories' = Directories
        /\ \A c : WithinIn(c)' = WithinIn(c) /\ StrengthIn(c)' = StrengthIn(c)
    BY <1>1, AskedStays
  <2>2. accumulation'.eligible = kept /\ folded' = folded + 1
    BY <1>1 DEF kept
  <2> QED BY <1>8, <1>9, <2>1, <2>2 DEF CutKept
<1>11. StagesKept'
  <2>1. folded + 1 \in 0 .. Len(accumulation.eligible)
    BY <1>1, NextIs DEF kept
  <2> QED BY <1>1, <1>2, <2>1 DEF StagesKept
<1> QED BY <1>1, <1>2, <1>10, <1>11, HistoryStays DEF MassInv

LEMMA PairsKeep ==
  MassInv /\ AddPairs => MassInv'
<1> SUFFICES ASSUME MassInv, AddPairs
             PROVE  MassInv'
  OBVIOUS
<1> DEFINE F == NextCommit.members
           unit == NextCommit.unit
           pairs == support.pairs
           added == UnorderedPairs(F)
           Before(e) == IF e \in DOMAIN pairs THEN pairs[e] ELSE NoHistory
           After(e) == [mass |-> Before(e).mass + unit,
                        cooccurrence |-> Before(e).cooccurrence + 1]
           commits == [f \in asked.universe |-> support.commits[f] + IF f \in F THEN 1 ELSE 0]
           more == [e \in DOMAIN pairs \cup added |->
                      IF e \in added THEN After(e) ELSE pairs[e]]
           kept == accumulation.eligible
           MassSum(e, n) == KeptSum(MassIn(e), kept, n)
           CountSum(e, n) == KeptSum(CountIn(e), kept, n)
<1>1. /\ stage = "support" /\ folded < Len(kept) /\ folded' = folded + 1
      /\ support' = [commits |-> commits, pairs |-> more]
      /\ asked' = asked /\ stage' = stage /\ accumulation' = accumulation
      /\ cut' = cut
  BY DEF AddPairs
<1>2. asked \in MassInputs /\ asked.analysis = "support" /\ HistoryKept /\ StagesKept
  BY <1>1, InputIs DEF MassInv, HistoryKept, StagesKept
<1>3. SupportKept
  BY <1>2 DEF MassInv
<1>4. F \in EligibleSets /\ unit = UnitMass(F) /\ unit \in Int
  <2>1. F \in EligibleSets /\ unit = UnitMass(F)
    BY <1>1, NextIs
  <2> QED BY <1>2, <2>1, EligibleAre
<1>5. \A e : /\ MassSum(e, folded) \in Int /\ CountSum(e, folded) \in Int
             /\ MassSum(e, folded + 1) = MassSum(e, folded) + IF e \subseteq F THEN unit ELSE 0
             /\ CountSum(e, folded + 1) = CountSum(e, folded) + IF e \subseteq F THEN 1 ELSE 0
  <2> TAKE e
  <2>1. MassIn(e) \in [EligibleSets -> Int] /\ CountIn(e) \in [EligibleSets -> Int]
    BY <1>2, TermsAre
  <2>2. /\ MassIn(e)[F] = IF e \subseteq F THEN unit ELSE 0
        /\ CountIn(e)[F] = IF e \subseteq F THEN 1 ELSE 0
    BY <1>4 DEF MassIn, CountIn
  <2> HIDE DEF F, unit, kept
  <2> QED BY <1>1, <2>1, <2>2, NextIs DEF kept, F
<1>6. added \subseteq AllPairs /\ \A e \in AllPairs : e \in added <=> e \subseteq F
  <2>1. F \subseteq asked.universe
    BY <1>2, <1>4, EligibleAre
  <2> HIDE DEF F
  <2> QED BY <2>1 DEF AllPairs, UnorderedPairs
<1>7. /\ \A f \in asked.universe :
           support.commits[f] = CountSum({f}, folded)
      /\ DOMAIN pairs \subseteq AllPairs
      /\ \A e \in DOMAIN pairs :
           /\ pairs[e] = [mass |-> MassSum(e, folded), cooccurrence |-> CountSum(e, folded)]
           /\ CountSum(e, folded) >= 1
      /\ \A e \in AllPairs \ DOMAIN pairs : MassSum(e, folded) = 0 /\ CountSum(e, folded) = 0
  BY <1>3 DEF SupportKept
<1>8. support'.commits = commits /\ support'.pairs = more /\ DOMAIN more = DOMAIN pairs \cup added
  BY <1>1
<1>9. \A e \in added : more[e] = After(e)
  OBVIOUS
<1>10. \A e \in DOMAIN pairs : e \notin added => more[e] = pairs[e]
  OBVIOUS
<1>11. \A f \in asked.universe : commits[f] = support.commits[f] + IF f \in F THEN 1 ELSE 0
  OBVIOUS
<1>12. \A e \in AllPairs :
         /\ Before(e).mass = MassSum(e, folded) /\ Before(e).cooccurrence = CountSum(e, folded)
         /\ CountSum(e, folded) >= 0
  <2> TAKE e \in AllPairs
  <2>1. /\ e \in DOMAIN pairs => Before(e) = pairs[e]
        /\ e \notin DOMAIN pairs => Before(e) = NoHistory
    OBVIOUS
  <2> HIDE DEF Before, MassSum, CountSum, pairs
  <2>2. CASE e \in DOMAIN pairs
    <3>1. /\ Before(e) = [mass |-> MassSum(e, folded), cooccurrence |-> CountSum(e, folded)]
          /\ CountSum(e, folded) >= 1
      BY <1>7, <2>1, <2>2
    <3> QED BY <1>5, <3>1
  <2>3. CASE e \notin DOMAIN pairs
    BY <1>7, <2>1, <2>3 DEF NoHistory
  <2> QED BY <2>2, <2>3
<1>13. \A e : After(e) = [mass |-> Before(e).mass + unit,
                          cooccurrence |-> Before(e).cooccurrence + 1]
  OBVIOUS
<1> HIDE DEF F, unit, added, Before, After, commits, more, kept, MassSum, CountSum
<1>14. \A f \in asked.universe : commits[f] = CountSum({f}, folded + 1)
  <2> TAKE f \in asked.universe
  <2>1. {f} \subseteq F <=> f \in F
    OBVIOUS
  <2>2. /\ CountSum({f}, folded) \in Int
        /\ CountSum({f}, folded + 1) = CountSum({f}, folded) + IF {f} \subseteq F THEN 1 ELSE 0
    BY <1>5
  <2>3. support.commits[f] = CountSum({f}, folded)
    BY <1>7
  <2> QED BY <1>11, <2>1, <2>2, <2>3
<1>15. \A e \in DOMAIN more :
         /\ more[e] = [mass |-> MassSum(e, folded + 1), cooccurrence |-> CountSum(e, folded + 1)]
         /\ CountSum(e, folded + 1) >= 1
  <2> TAKE e \in DOMAIN more
  <2>1. /\ e \in AllPairs /\ MassSum(e, folded) \in Int /\ CountSum(e, folded) \in Int
        /\ MassSum(e, folded + 1) = MassSum(e, folded) + IF e \subseteq F THEN unit ELSE 0
        /\ CountSum(e, folded + 1) = CountSum(e, folded) + IF e \subseteq F THEN 1 ELSE 0
    BY <1>5, <1>6, <1>7, <1>8
  <2>2. CASE e \in added
    <3>1. e \subseteq F
      BY <1>6, <2>1, <2>2
    <3>2. /\ MassSum(e, folded + 1) = MassSum(e, folded) + unit
          /\ CountSum(e, folded + 1) = CountSum(e, folded) + 1
      BY <2>1, <3>1
    <3>3. /\ Before(e).mass = MassSum(e, folded) /\ Before(e).cooccurrence = CountSum(e, folded)
          /\ CountSum(e, folded) >= 0
      BY <1>12, <2>1
    <3>4. more[e] = [mass |-> Before(e).mass + unit, cooccurrence |-> Before(e).cooccurrence + 1]
      BY <1>9, <1>13, <2>2
    <3> QED BY <2>1, <3>2, <3>3, <3>4
  <2>3. CASE e \notin added
    <3>1. ~(e \subseteq F) /\ e \in DOMAIN pairs
      BY <1>6, <1>8, <2>1, <2>3
    <3>2. /\ MassSum(e, folded + 1) = MassSum(e, folded)
          /\ CountSum(e, folded + 1) = CountSum(e, folded)
      BY <2>1, <3>1
    <3> QED BY <1>7, <1>10, <2>3, <3>1, <3>2
  <2> QED BY <2>2, <2>3
<1>16. \A e \in AllPairs \ DOMAIN more : MassSum(e, folded + 1) = 0 /\ CountSum(e, folded + 1) = 0
  <2> TAKE e \in AllPairs \ DOMAIN more
  <2>1. ~(e \subseteq F) /\ e \in AllPairs \ DOMAIN pairs
    BY <1>6, <1>8
  <2>2. MassSum(e, folded) = 0 /\ CountSum(e, folded) = 0
    BY <1>7, <2>1
  <2> QED BY <1>5, <2>1, <2>2
<1>17. SupportKept'
  <2>1. /\ AllPairs' = AllPairs
        /\ \A e : MassIn(e)' = MassIn(e) /\ CountIn(e)' = CountIn(e)
    BY <1>1, AskedStays
  <2>2. accumulation'.eligible = kept /\ folded' = folded + 1
    BY <1>1 DEF kept
  <2>3. DOMAIN more \subseteq AllPairs
    BY <1>6, <1>7, <1>8
  <2> HIDE DEF pairs
  <2> QED BY <1>1, <1>8, <1>14, <1>15, <1>16, <2>1, <2>2, <2>3
          DEF SupportKept, MassSum, CountSum
<1>18. StagesKept'
  <2>1. folded + 1 \in 0 .. Len(accumulation.eligible)
    BY <1>1, NextIs DEF kept
  <2> QED BY <1>1, <1>2, <2>1 DEF StagesKept
<1> QED BY <1>1, <1>2, <1>17, <1>18, HistoryStays DEF MassInv

-----------------------------------------------------------------------------
(* Sums over a whole history are masses of pairs.                           *)

Whole(g) == ToldSum(g, Len(asked.commits))

LEMMA WholeIs ==
  ASSUME asked \in MassInputs, NEW g
  PROVE  /\ Told(Len(asked.commits)) = Telling
         /\ Whole(g) = Sum(ToldTerms(g), Telling)
         /\ \A i \in Telling : CommitFiles(i) \in EligibleSets /\ ToldTerms(g)[i] = g[CommitFiles(i)]
<1>1. Told(Len(asked.commits)) = Telling
  BY InputIs DEF Told
<1>2. \A i \in Telling : CommitFiles(i) \in EligibleSets
  BY InputIs DEF EligibleSets
<1> QED BY <1>1, <1>2 DEF Whole, ToldSum, ToldTerms

LEMMA WholeIsMass ==
  ASSUME asked \in MassInputs, NEW E \in SUBSET AllPairs, NEW g,
         \A i \in Telling :
           g[CommitFiles(i)] = UnitMass(CommitFiles(i)) * Cardinality(PairsIn(E, i))
  PROVE  Whole(g) = MassOfAll(E) /\ MassOfAll(E) \in Nat
<1> DEFINE t == ToldTerms(g)
<1>1. \A i \in Telling : t[i] = UnitMass(CommitFiles(i)) * Cardinality(PairsIn(E, i))
  BY WholeIs
<1> HIDE DEF t
<1>2. MassOfAll(E) = Sum(t, Telling) /\ MassOfAll(E) \in Nat
  BY <1>1, MassByCommit
<1>3. Whole(g) = Sum(t, Telling)
  BY WholeIs DEF t
<1> QED BY <1>2, <1>3

(* Pairs of a commit among those of the universe.                           *)
LEMMA PairsOfCommit ==
  ASSUME asked \in MassInputs, NEW i \in Telling
  PROVE  /\ PairsIn(AllPairs, i) = UnorderedPairs(CommitFiles(i))
         /\ \A c : /\ PairsIn(PairsWithin(c), i)
                        = {e \in UnorderedPairs(CommitFiles(i)) : e \subseteq FilesOf(c)}
                   /\ PairsIn(PairsLeaving(c), i)
                        = {e \in UnorderedPairs(CommitFiles(i)) :
                             e \cap FilesOf(c) # {} /\ ~(e \subseteq FilesOf(c))}
<1>1. CommitFiles(i) \subseteq asked.universe
  BY InputIs
<1>2. \A e : e \in AllPairs /\ e \subseteq CommitFiles(i) <=> e \in UnorderedPairs(CommitFiles(i))
  BY <1>1 DEF AllPairs, UnorderedPairs
<1> QED BY <1>2 DEF PairsIn, PairsWithin, PairsLeaving

LEMMA TotalTrue ==
  ASSUME asked \in MassInputs
  PROVE  Whole(TotalIn) = MassOfAll(AllPairs) /\ MassOfAll(AllPairs) \in Nat
<1>1. ASSUME NEW i \in Telling
      PROVE  TotalIn[CommitFiles(i)]
               = UnitMass(CommitFiles(i)) * Cardinality(PairsIn(AllPairs, i))
  <2>1. CommitFiles(i) \in EligibleSets /\ IsFiniteSet(CommitFiles(i))
    BY InputIs, WholeIs
  <2>2. Cardinality(PairsIn(AllPairs, i)) = Half(Cardinality(CommitFiles(i)))
    BY <2>1, PairsOfCommit, PairsCounted
  <2> QED BY <2>1, <2>2 DEF TotalIn
<1> QED BY <1>1, WholeIsMass

LEMMA WithinTrue ==
  ASSUME asked \in MassInputs, NEW c
  PROVE  /\ Whole(WithinIn(c)) = MassOfAll(PairsWithin(c))
         /\ MassOfAll(PairsWithin(c)) \in Nat
<1>1. ASSUME NEW i \in Telling
      PROVE  WithinIn(c)[CommitFiles(i)]
               = UnitMass(CommitFiles(i)) * Cardinality(PairsIn(PairsWithin(c), i))
  <2>1. CommitFiles(i) \in EligibleSets /\ IsFiniteSet(CommitFiles(i))
    BY InputIs, WholeIs
  <2>2. Cardinality(PairsIn(PairsWithin(c), i)) = Half(Cardinality(CommitFiles(i) \cap FilesOf(c)))
    BY <2>1, PairsOfCommit, PairsSplit
  <2> QED BY <2>1, <2>2 DEF WithinIn
<1>2. PairsWithin(c) \in SUBSET AllPairs
  BY DEF PairsWithin
<1> QED BY <1>1, <1>2, WholeIsMass

(* What crosses the border of a community is its strength less twice what   *)
(* is within.                                                               *)
LEMMA LeavingTrue ==
  ASSUME asked \in MassInputs, NEW c
  PROVE  /\ Whole(StrengthIn(c)) = MassOfAll(PairsLeaving(c)) + 2 * MassOfAll(PairsWithin(c))
         /\ MassOfAll(PairsLeaving(c)) \in Nat
<1> DEFINE Leave(F) ==
             UnitMass(F) * (StrengthOf(Cardinality(F \cap FilesOf(c)), Cardinality(F))
                              - 2 * Half(Cardinality(F \cap FilesOf(c))))
           leaving == [F \in EligibleSets |-> Leave(F)]
           w == ToldTerms(WithinIn(c))
           s == ToldTerms(StrengthIn(c))
           l == ToldTerms(leaving)
           both == [i \in Telling |-> l[i] + w[i]]
<1>1. \A F \in EligibleSets : /\ Leave(F) \in Int /\ WithinIn(c)[F] \in Int
                              /\ StrengthIn(c)[F] = Leave(F) + 2 * WithinIn(c)[F]
  <2> TAKE F \in EligibleSets
  <2> DEFINE u == UnitMass(F)
             n == Cardinality(F \cap FilesOf(c))
             k == Cardinality(F)
             h == Half(n)
             p == StrengthOf(n, k)
  <2>1. u \in Nat /\ n \in Nat /\ k \in Nat /\ h \in Nat
    BY EligibleAre
  <2>2. p \in Int
    BY <2>1 DEF StrengthOf
  <2>3. WithinIn(c)[F] = u * h /\ StrengthIn(c)[F] = u * p /\ Leave(F) = u * (p - 2 * h)
    BY DEF WithinIn, StrengthIn
  <2> HIDE DEF u, n, k, h, p, Leave
  <2>4. u * h \in Int /\ u * (p - 2 * h) \in Int /\ u * p = u * (p - 2 * h) + 2 * (u * h)
    BY <2>1, <2>2
  <2> QED BY <2>3, <2>4
<1>2. \A F \in EligibleSets : leaving[F] = Leave(F)
  OBVIOUS
<1>3. ASSUME NEW i \in Telling
      PROVE  leaving[CommitFiles(i)]
               = UnitMass(CommitFiles(i)) * Cardinality(PairsIn(PairsLeaving(c), i))
  <2>1. CommitFiles(i) \in EligibleSets /\ IsFiniteSet(CommitFiles(i))
    BY InputIs, WholeIs
  <2>2. Cardinality(PairsIn(PairsLeaving(c), i))
          = StrengthOf(Cardinality(CommitFiles(i) \cap FilesOf(c)), Cardinality(CommitFiles(i)))
              - 2 * Half(Cardinality(CommitFiles(i) \cap FilesOf(c)))
    BY <2>1, PairsOfCommit, PairsSplit DEF StrengthOf
  <2> QED BY <1>2, <2>1, <2>2
<1>4. Whole(leaving) = MassOfAll(PairsLeaving(c)) /\ MassOfAll(PairsLeaving(c)) \in Nat
  <2>1. PairsLeaving(c) \in SUBSET AllPairs
    BY DEF PairsLeaving
  <2> HIDE DEF leaving
  <2> QED BY <1>3, <2>1, WholeIsMass
<1>5. \A i \in Telling : /\ w[i] \in Int /\ l[i] \in Int /\ both[i] = l[i] + w[i]
                         /\ both[i] \in Int /\ s[i] = both[i] + w[i]
  <2> TAKE i \in Telling
  <2>1. /\ CommitFiles(i) \in EligibleSets
        /\ w[i] = WithinIn(c)[CommitFiles(i)] /\ s[i] = StrengthIn(c)[CommitFiles(i)]
        /\ l[i] = leaving[CommitFiles(i)]
    BY WholeIs
  <2>2. both[i] = l[i] + w[i]
    OBVIOUS
  <2> HIDE DEF w, s, l, leaving, both, Leave
  <2> QED BY <1>1, <1>2, <2>1, <2>2
<1>6. /\ Whole(StrengthIn(c)) = Sum(s, Telling) /\ Whole(WithinIn(c)) = Sum(w, Telling)
      /\ Whole(leaving) = Sum(l, Telling) /\ IsFiniteSet(Telling)
  BY WholeIs, InputIs
<1> HIDE DEF w, s, l, both, leaving, Leave
<1>7. Sum(s, Telling) = Sum(both, Telling) + Sum(w, Telling)
  BY <1>5, <1>6, SumPlus
<1>8. Sum(both, Telling) = Sum(l, Telling) + Sum(w, Telling)
  BY <1>5, <1>6, SumPlus
<1> QED BY <1>4, <1>6, <1>7, <1>8, WithinTrue

-----------------------------------------------------------------------------
LEMMA LossTrue ==
  ASSUME MassInv, stage # "reading"
  PROVE  LossBounded
<1> DEFINE n == Cardinality(Telling)
           half == [i \in Telling |-> Half(Cardinality(Members(asked.commits[i])))]
           mass == ToldTerms(TotalIn)
           scale == [i \in Telling |-> WeightScale]
           most == [i \in Telling |-> WeightScale + 1]
           sum == [i \in Telling |-> mass[i] + half[i]]
           lost == accumulation.ideal - accumulation.total
<1>1. /\ asked \in MassInputs /\ accumulation.read = Len(asked.commits)
      /\ accumulation.total = Whole(TotalIn)
      /\ accumulation.ideal = WeightScale * Cardinality(Told(Len(asked.commits)))
  BY DEF MassInv, HistoryKept, StagesKept, Whole
<1>2. accumulation.ideal = WeightScale * n /\ IsFiniteSet(Telling) /\ n \in Nat
  BY <1>1, WholeIs, InputIs, FS_CardinalityType
<1>3. accumulation.total = MassOfAll(AllPairs) /\ accumulation.total = Sum(mass, Telling)
  BY <1>1, TotalTrue, WholeIs
<1>4. \A i \in Telling :
        /\ mass[i] \in Int /\ half[i] \in Nat /\ mass[i] <= WeightScale
        /\ WeightScale + 1 <= mass[i] + half[i]
  <2> TAKE i \in Telling
  <2> DEFINE F == CommitFiles(i)
             u == UnitMass(F)
             h == Half(Cardinality(F))
  <2>1. F \in EligibleSets /\ IsFiniteSet(F) /\ Cardinality(F) >= 2
    BY <1>1, InputIs, WholeIs
  <2>2. u \in Nat /\ h \in Nat /\ u * h <= WeightScale /\ WeightScale - u * h + 1 <= h
    BY <2>1, UnitIs
  <2>3. mass[i] = u * h /\ half[i] = h
    BY <1>1, <2>1, WholeIs DEF TotalIn, CommitFiles
  <2> HIDE DEF F, u, h, mass, half
  <2>4. u * h \in Int
    BY <2>2
  <2> QED BY <2>2, <2>3, <2>4, WeightAssumption
<1>5. DOMAIN half = Telling
  OBVIOUS
<1>6. \A i \in Telling : scale[i] = WeightScale /\ most[i] = WeightScale + 1
                         /\ sum[i] = mass[i] + half[i]
  OBVIOUS
<1>7. WeightScale \in Int /\ WeightScale + 1 \in Int
  BY WeightAssumption
<1> HIDE DEF n, half, mass, scale, most, sum
<1>8. Sum(scale, Telling) = WeightScale * n /\ Sum(most, Telling) = (WeightScale + 1) * n
  BY <1>2, <1>6, <1>7, SumConstant DEF n
<1>9. Sum(mass, Telling) <= Sum(scale, Telling)
  BY <1>2, <1>4, <1>6, <1>7, SumMonotone
<1>10. Sum(most, Telling) <= Sum(sum, Telling)
  <2>1. \A i \in Telling : most[i] \in Int /\ sum[i] \in Int /\ most[i] <= sum[i]
    BY <1>4, <1>6, <1>7
  <2> QED BY <1>2, <2>1, SumMonotone
<1>11. Sum(sum, Telling) = Sum(mass, Telling) + Sum(half, Telling)
  BY <1>2, <1>4, <1>6, SumPlus
<1>12. Sum(mass, Telling) \in Int /\ Sum(half, Telling) \in Int
  BY <1>2, <1>4, SumStep
<1>13. (WeightScale + 1) * n = WeightScale * n + n /\ WeightScale * n \in Int
  BY <1>2, <1>7
<1>14. SumFunction(half) = Sum(half, Telling)
  BY <1>2, <1>5, SumFunctionIsSum
<1>15. 0 <= lost /\ lost + n <= SumFunction(half)
  <2> DEFINE p == WeightScale * n
  <2>1. p \in Int /\ accumulation.ideal = p /\ (WeightScale + 1) * n = p + n
    BY <1>2, <1>13
  <2> HIDE DEF p
  <2> QED BY <1>2, <1>3, <1>8, <1>9, <1>10, <1>11, <1>12, <1>14, <2>1 DEF p
<1> QED BY <1>2, <1>3, <1>15 DEF LossBounded, n, half

-----------------------------------------------------------------------------
(* The mass of some pairs, among all.                                       *)
LEMMA MassAmong ==
  ASSUME asked \in MassInputs, NEW E \in SUBSET AllPairs,
         NEW g, \A e \in AllPairs : g[e] = IF e \in E THEN MassOf(e) ELSE 0
  PROVE  MassOfAll(E) = Sum(g, AllPairs)
<1> DEFINE mass == [e \in E |-> MassOf(e)]
<1>1. IsFiniteSet(E) /\ IsFiniteSet(AllPairs)
  BY InputIs, FS_Subset
<1>2. MassOfAll(E) = SumFunction(mass) /\ DOMAIN mass = E
  BY DEF MassOfAll
<1>3. \A e \in E : mass[e] \in Int /\ g[e] = mass[e]
  BY MassIs
<1>4. \A e \in AllPairs \ E : g[e] = 0
  OBVIOUS
<1> HIDE DEF mass
<1>5. SumFunction(mass) = Sum(mass, E)
  BY <1>1, <1>2, SumFunctionIsSum
<1>6. Sum(g, AllPairs) = Sum(mass, E)
  BY <1>1, <1>3, <1>4, SumOfPart
<1> QED BY <1>2, <1>5, <1>6

(* Summed over communities, a pair counts once for each that it is of.      *)
MassesOf(g, P) == \A c \in Directories : P[c] \in SUBSET AllPairs /\ g[c] = MassOfAll(P[c])

MassesTimes(h, P) ==
  \A e \in AllPairs : h[e] = MassOf(e) * Cardinality({c \in Directories : e \in P[c]})

LEMMA MassByCommunity ==
  ASSUME asked \in MassInputs, NEW P, NEW g, NEW h, MassesOf(g, P), MassesTimes(h, P)
  PROVE  Sum(g, Directories) = Sum(h, AllPairs)
<1> DEFINE f == [c \in Directories |-> [e \in AllPairs |-> IF e \in P[c] THEN MassOf(e) ELSE 0]]
           t == [e \in AllPairs |-> [c \in Directories |-> IF e \in P[c] THEN MassOf(e) ELSE 0]]
<1>1. IsFiniteSet(Directories) /\ IsFiniteSet(AllPairs)
  BY DirectoriesFinite, InputIs
<1>2. \A e : MassOf(e) \in Int
  BY MassIs
<1>3. Transposed(f, t, Directories, AllPairs)
  BY <1>2 DEF Transposed
<1>4. \A c \in Directories : \A e \in AllPairs :
        /\ f[c][e] = IF e \in P[c] THEN MassOf(e) ELSE 0
        /\ t[e][c] = IF e \in P[c] THEN MassOf(e) ELSE 0
  OBVIOUS
<1> HIDE DEF f, t
<1>5. RowSums(g, f, Directories, AllPairs)
  <2> SUFFICES ASSUME NEW c \in Directories
               PROVE  g[c] = Sum(f[c], AllPairs)
    BY DEF RowSums
  <2>1. P[c] \in SUBSET AllPairs /\ g[c] = MassOfAll(P[c])
    BY DEF MassesOf
  <2> QED BY <1>4, <2>1, MassAmong
<1>6. RowSums(h, t, AllPairs, Directories)
  <2> SUFFICES ASSUME NEW e \in AllPairs
               PROVE  h[e] = Sum(t[e], Directories)
    BY DEF RowSums
  <2> DEFINE D == {c \in Directories : e \in P[c]}
  <2>1. D \in SUBSET Directories /\ \A c \in Directories : c \in D <=> e \in P[c]
    OBVIOUS
  <2>2. \A c \in Directories : t[e][c] = IF c \in D THEN MassOf(e) ELSE 0
    BY <1>4, <2>1
  <2>3. h[e] = MassOf(e) * Cardinality(D)
    BY DEF MassesTimes
  <2> HIDE DEF D
  <2>4. Sum(t[e], Directories) = MassOf(e) * Cardinality(D)
    BY <1>1, <1>2, <2>1, <2>2, SumOfShares
  <2> QED BY <2>3, <2>4
<1> QED BY <1>1, <1>3, <1>5, <1>6, SumExchange

(* A pair of files is within one community, or leaves each of two.          *)
LEMMA PairCommunities ==
  ASSUME asked \in MassInputs, NEW e \in AllPairs
  PROVE  /\ e \in PairsDivided =>
              /\ Cardinality({c \in Directories : e \in PairsWithin(c)}) = 0
              /\ Cardinality({c \in Directories : e \in PairsLeaving(c)}) = 2
         /\ e \notin PairsDivided =>
              /\ Cardinality({c \in Directories : e \in PairsWithin(c)}) = 1
              /\ Cardinality({c \in Directories : e \in PairsLeaving(c)}) = 0
<1>1. PICK f \in asked.universe, g \in asked.universe : f # g /\ e = {f, g}
  BY InputIs, PairIs DEF AllPairs
<1> DEFINE b == asked.community[f]
           d == asked.community[g]
           within == {c \in Directories : e \in PairsWithin(c)}
           leaving == {c \in Directories : e \in PairsLeaving(c)}
<1>2. b \in Directories /\ d \in Directories
  BY DEF Directories
<1>3. \A c : /\ e \in PairsWithin(c) <=> c = b /\ c = d
             /\ e \in PairsLeaving(c) <=> (c = b \/ c = d) /\ b # d
  BY <1>1 DEF PairsWithin, PairsLeaving, FilesOf
<1>4. e \in PairsDivided <=> b # d
  BY <1>2, <1>3 DEF PairsDivided, PairsWithin
<1> HIDE DEF b, d
<1>5. CASE b # d
  <2>1. within = {} /\ leaving = {b} \cup {d} /\ d \notin {b}
    BY <1>2, <1>3, <1>5
  <2>2. IsFiniteSet({b}) /\ Cardinality({b}) = 1
    BY FS_Singleton
  <2>3. Cardinality({b} \cup {d}) = Cardinality({b}) + 1
    BY <2>1, <2>2, FS_AddElement
  <2> HIDE DEF within, leaving
  <2>4. Cardinality(leaving) = 1 + 1
    BY <2>1, <2>2, <2>3
  <2>5. Cardinality(within) = 0
    BY <2>1, FS_EmptySet
  <2> QED BY <1>4, <1>5, <2>4, <2>5 DEF within, leaving
<1>6. CASE b = d
  <2>1. within = {b} /\ leaving = {}
    BY <1>2, <1>3, <1>6
  <2> QED BY <1>4, <1>6, <2>1, FS_EmptySet, FS_Singleton
<1> QED BY <1>5, <1>6

LEMMA DividedIs ==
  ASSUME asked \in MassInputs,
         NEW w, \A c \in Directories : w[c] = MassOfAll(PairsWithin(c)),
         NEW l, \A c \in Directories : l[c] = MassOfAll(PairsLeaving(c))
  PROVE  /\ MassOfAll(PairsDivided) \in Nat
         /\ MassOfAll(AllPairs) = Sum(w, Directories) + MassOfAll(PairsDivided)
         /\ Sum(l, Directories) = 2 * MassOfAll(PairsDivided)
<1> DEFINE mass == [e \in AllPairs |-> MassOf(e)]
           divided == [e \in AllPairs |-> IF e \in PairsDivided THEN MassOf(e) ELSE 0]
           whole == [e \in AllPairs |-> IF e \in PairsDivided THEN 0 ELSE MassOf(e)]
           double == [e \in AllPairs |-> IF e \in PairsDivided THEN MassOf(e) * 2 ELSE 0]
           withins == [c \in Directories |-> PairsWithin(c)]
           leavings == [c \in Directories |-> PairsLeaving(c)]
<1>1. /\ PairsDivided \in SUBSET AllPairs /\ AllPairs \in SUBSET AllPairs
      /\ \A c : PairsWithin(c) \in SUBSET AllPairs /\ PairsLeaving(c) \in SUBSET AllPairs
      /\ IsFiniteSet(AllPairs) /\ \A e : MassOf(e) \in Nat
  BY InputIs, MassIs DEF PairsDivided, PairsWithin, PairsLeaving
<1>2. \A e \in AllPairs :
        /\ mass[e] \in Nat /\ divided[e] \in Nat /\ whole[e] \in Nat /\ double[e] \in Nat
        /\ mass[e] = whole[e] + divided[e] /\ double[e] = divided[e] + divided[e]
        /\ mass[e] = IF e \in AllPairs THEN MassOf(e) ELSE 0
        /\ divided[e] = IF e \in PairsDivided THEN MassOf(e) ELSE 0
  BY <1>1
<1>3. \A c \in Directories : withins[c] = PairsWithin(c) /\ leavings[c] = PairsLeaving(c)
  OBVIOUS
<1>4. ASSUME NEW e \in AllPairs
      PROVE  /\ whole[e] = MassOf(e) * Cardinality({c \in Directories : e \in withins[c]})
             /\ double[e] = MassOf(e) * Cardinality({c \in Directories : e \in leavings[c]})
  <2> DEFINE W == {c \in Directories : e \in withins[c]}
             L == {c \in Directories : e \in leavings[c]}
  <2>1. /\ W = {c \in Directories : e \in PairsWithin(c)}
        /\ L = {c \in Directories : e \in PairsLeaving(c)}
    BY <1>3
  <2>2. /\ e \in PairsDivided => whole[e] = 0 /\ double[e] = MassOf(e) * 2
        /\ e \notin PairsDivided => whole[e] = MassOf(e) /\ double[e] = 0
    OBVIOUS
  <2>3. MassOf(e) \in Int
    BY <1>1
  <2>4. /\ e \in PairsDivided => Cardinality(W) = 0 /\ Cardinality(L) = 2
        /\ e \notin PairsDivided => Cardinality(W) = 1 /\ Cardinality(L) = 0
    BY <2>1, PairCommunities
  <2> HIDE DEF W, L, whole, double
  <2> QED BY <2>2, <2>3, <2>4 DEF W, L
<1> HIDE DEF mass, divided, whole, double, withins, leavings
<1>5. MassOfAll(AllPairs) = Sum(mass, AllPairs)
  BY <1>1, <1>2, MassAmong
<1>6. MassOfAll(PairsDivided) = Sum(divided, AllPairs) /\ Sum(divided, AllPairs) \in Nat
  BY <1>1, <1>2, MassAmong, SumNat
<1>7. Sum(mass, AllPairs) = Sum(whole, AllPairs) + Sum(divided, AllPairs)
  BY <1>1, <1>2, SumPlus
<1>8. Sum(double, AllPairs) = Sum(divided, AllPairs) + Sum(divided, AllPairs)
  BY <1>1, <1>2, SumPlus
<1>9. Sum(w, Directories) = Sum(whole, AllPairs)
  <2>1. MassesOf(w, withins) /\ MassesTimes(whole, withins)
    BY <1>1, <1>3, <1>4 DEF MassesOf, MassesTimes
  <2> QED BY <2>1, MassByCommunity
<1>10. Sum(l, Directories) = Sum(double, AllPairs)
  <2>1. MassesOf(l, leavings) /\ MassesTimes(double, leavings)
    BY <1>1, <1>3, <1>4 DEF MassesOf, MassesTimes
  <2> QED BY <2>1, MassByCommunity
<1> QED BY <1>5, <1>6, <1>7, <1>8, <1>9, <1>10

LEMMA CutIsTrue ==
  ASSUME MassInv, asked.analysis = "layout", stage # "reading",
         folded = Len(accumulation.eligible)
  PROVE  CutTrue /\ PartitionCloses
<1> DEFINE w == [c \in Directories |-> cut.masses[c].intra]
           l == [c \in Directories |-> Crossing(c)]
<1>1. /\ asked \in MassInputs /\ CutKept
      /\ accumulation.read = Len(asked.commits)
      /\ \A g \in [EligibleSets -> Int] :
           KeptSum(g, accumulation.eligible, folded) = Whole(g)
  BY DEF MassInv, HistoryKept, StagesKept, Whole
<1>2. \A c \in Directories :
        /\ cut.masses[c].intra = MassOfAll(PairsWithin(c)) /\ MassOfAll(PairsWithin(c)) \in Nat
        /\ cut.masses[c].strength = MassOfAll(PairsLeaving(c)) + 2 * MassOfAll(PairsWithin(c))
        /\ MassOfAll(PairsLeaving(c)) \in Nat
  BY <1>1, TermsAre, WithinTrue, LeavingTrue DEF CutKept
<1>3. \A c \in Directories : Crossing(c) = MassOfAll(PairsLeaving(c)) /\ Crossing(c) >= 0
  <2> TAKE c \in Directories
  <2> DEFINE m == MassOfAll(PairsWithin(c))
             o == MassOfAll(PairsLeaving(c))
  <2>1. cut.masses[c].intra = m /\ m \in Nat /\ cut.masses[c].strength = o + 2 * m /\ o \in Nat
    BY <1>2
  <2> HIDE DEF m, o
  <2> QED BY <2>1 DEF Crossing, o
<1>4. accumulation.total = MassOfAll(AllPairs) /\ MassOfAll(AllPairs) \in Nat
  BY <1>1, TotalTrue, LossTrue DEF LossBounded
<1>5. /\ \A c \in Directories : w[c] = MassOfAll(PairsWithin(c)) /\ w[c] \in Int
      /\ \A c \in Directories : l[c] = MassOfAll(PairsLeaving(c))
  BY <1>2, <1>3
<1>6. cut.intra = Sum(w, Directories)
  BY <1>1 DEF CutKept
<1>7. DOMAIN l = Directories
  OBVIOUS
<1>8. IsFiniteSet(Directories)
  BY <1>1, DirectoriesFinite
<1> HIDE DEF w, l
<1>9. /\ MassOfAll(PairsDivided) \in Nat
      /\ MassOfAll(AllPairs) = Sum(w, Directories) + MassOfAll(PairsDivided)
      /\ Sum(l, Directories) = 2 * MassOfAll(PairsDivided)
  BY <1>1, <1>5, DividedIs
<1>10. Sum(w, Directories) \in Int
  BY <1>5, <1>8, SumStep
<1>11. Cross = MassOfAll(PairsDivided) /\ Cross >= 0
  BY <1>4, <1>6, <1>9, <1>10 DEF Cross
<1>12. SumFunction(l) = 2 * Cross
  BY <1>7, <1>8, <1>9, <1>11, SumFunctionIsSum
<1>13. ModularityNumerator =
         SumFunction([c \in Directories |->
           4 * MassOfAll(AllPairs) * MassOfAll(PairsWithin(c)) - DegreeOf(c) * DegreeOf(c)])
  <2>1. \A c \in Directories : cut.masses[c].strength = DegreeOf(c)
    <3> TAKE c \in Directories
    <3> QED BY <1>2 DEF DegreeOf
  <2>2. \A c \in Directories :
          4 * accumulation.total * cut.masses[c].intra
              - cut.masses[c].strength * cut.masses[c].strength
            = 4 * MassOfAll(AllPairs) * MassOfAll(PairsWithin(c)) - DegreeOf(c) * DegreeOf(c)
    BY <1>2, <1>4, <2>1, Zenon
  <2>3. [c \in Directories |->
           4 * accumulation.total * cut.masses[c].intra
             - cut.masses[c].strength * cut.masses[c].strength]
        = [c \in Directories |->
             4 * MassOfAll(AllPairs) * MassOfAll(PairsWithin(c)) - DegreeOf(c) * DegreeOf(c)]
    BY <2>2, Zenon
  <2> QED BY <2>3 DEF ModularityNumerator
<1>14. SumFunction([c \in Directories |-> Crossing(c)]) = 2 * Cross
  BY <1>12 DEF l
<1> QED BY <1>2, <1>3, <1>11, <1>13, <1>14 DEF CutTrue, PartitionCloses

-----------------------------------------------------------------------------
LEMMA SharesTrue ==
  ASSUME asked \in MassInputs, NEW e
  PROVE  /\ Whole(MassIn(e)) = MassOf(e) /\ MassOf(e) \in Nat
         /\ Whole(CountIn(e)) = Cardinality(Sharing(e))
         /\ IsFiniteSet(Sharing(e)) /\ Cardinality(Sharing(e)) \in Nat
         /\ Sharing(e) = {} <=> Cardinality(Sharing(e)) = 0
         /\ Sharing(e) = {} => MassOf(e) = 0
<1> DEFINE m == ToldTerms(MassIn(e))
           n == ToldTerms(CountIn(e))
<1>1. \A i \in Telling :
        /\ m[i] = ShareOf(e)[i] /\ ShareOf(e)[i] \in Int
        /\ n[i] = IF i \in Sharing(e) THEN 1 ELSE 0
  <2> TAKE i \in Telling
  <2>1. CommitFiles(i) \in EligibleSets /\ UnitMass(CommitFiles(i)) \in Int
    BY WholeIs, InputIs
  <2>2. m[i] = MassIn(e)[CommitFiles(i)] /\ n[i] = CountIn(e)[CommitFiles(i)]
    BY WholeIs
  <2>3. i \in Sharing(e) <=> e \subseteq CommitFiles(i)
    BY DEF Sharing, CommitFiles
  <2> HIDE DEF m, n
  <2> QED BY <2>1, <2>2, <2>3 DEF MassIn, CountIn, ShareOf
<1>2. IsFiniteSet(Telling) /\ Sharing(e) \in SUBSET Telling
  BY InputIs, MassIs
<1>3. Whole(MassIn(e)) = Sum(m, Telling) /\ Whole(CountIn(e)) = Sum(n, Telling)
  BY WholeIs
<1> HIDE DEF m, n
<1>4. Sum(ShareOf(e), Telling) = Sum(m, Telling)
  BY <1>1, <1>2, SumSame
<1>5. Sum(n, Telling) = 1 * Cardinality(Sharing(e))
  BY <1>1, <1>2, SumOfShares
<1>6. /\ MassOf(e) = Sum(ShareOf(e), Telling) /\ MassOf(e) \in Nat /\ IsFiniteSet(Sharing(e))
      /\ Sharing(e) = {} => MassOf(e) = 0
  BY MassIs
<1>7. Cardinality(Sharing(e)) \in Nat /\ (Sharing(e) = {} <=> Cardinality(Sharing(e)) = 0)
  BY <1>6, FS_CardinalityType, FS_EmptySet
<1> QED BY <1>3, <1>4, <1>5, <1>6, <1>7

(* The commits with either file are those with one, and with the other, less*)
(* those with both.                                                         *)
LEMMA JaccardTrue ==
  ASSUME MassInv, asked.analysis = "support", stage # "reading",
         folded = Len(accumulation.eligible),
         NEW e \in AllPairs, support.pairs[e].cooccurrence = Cardinality(Sharing(e))
  PROVE  /\ JaccardOf(e)[1] = Cardinality(Sharing(e))
         /\ JaccardOf(e)[2] = Cardinality({i \in Telling : e \cap Members(asked.commits[i]) # {}})
         /\ Cardinality(Sharing(e)) <= JaccardOf(e)[2] /\ JaccardOf(e)[2] \in Nat
<1> DEFINE n == [f \in e |-> support.commits[f]]
           either == {i \in Telling : e \cap Members(asked.commits[i]) # {}}
           both == Cardinality(Sharing(e))
<1>1. /\ asked \in MassInputs
      /\ accumulation.read = Len(asked.commits)
      /\ \A g \in [EligibleSets -> Int] :
           KeptSum(g, accumulation.eligible, folded) = Whole(g)
      /\ \A f \in asked.universe :
           support.commits[f] = KeptSum(CountIn({f}), accumulation.eligible, folded)
  BY DEF MassInv, HistoryKept, StagesKept, SupportKept, Whole
<1>2. \A f \in asked.universe : support.commits[f] = Cardinality(Sharing({f}))
  BY <1>1, TermsAre, SharesTrue
<1>3. PICK f \in asked.universe, g \in asked.universe : f # g /\ e = {f, g}
  BY <1>1, InputIs, PairIs DEF AllPairs
<1>4. /\ Sharing({f}) \cup Sharing({g}) = either
      /\ Sharing({f}) \cap Sharing({g}) = Sharing(e)
  BY <1>3 DEF Sharing
<1>5. /\ IsFiniteSet(Sharing({f})) /\ Cardinality(Sharing({f})) \in Nat
      /\ IsFiniteSet(Sharing({g})) /\ Cardinality(Sharing({g})) \in Nat
      /\ IsFiniteSet(Sharing(e)) /\ both \in Nat
  BY <1>1, SharesTrue
<1>6. /\ IsFiniteSet(either)
      /\ Cardinality(either) = Cardinality(Sharing({f})) + Cardinality(Sharing({g})) - both
  <2> DEFINE F == Sharing({f})
             G == Sharing({g})
  <2>1. IsFiniteSet(F) /\ IsFiniteSet(G) /\ F \cup G = either /\ F \cap G = Sharing(e)
    BY <1>4, <1>5
  <2> HIDE DEF F, G, either
  <2>2. /\ IsFiniteSet(F \cup G)
        /\ Cardinality(F \cup G) = Cardinality(F) + Cardinality(G) - Cardinality(F \cap G)
    BY <2>1, FS_Union
  <2> QED BY <2>1, <2>2 DEF F, G
<1>7. both <= Cardinality(either) /\ Cardinality(either) \in Nat
  <2>1. Sharing(e) \in SUBSET either
    BY <1>4
  <2> QED BY <1>6, <2>1, FS_Subset, FS_CardinalityType
<1>8. SumFunction(n) = Cardinality(Sharing({f})) + Cardinality(Sharing({g}))
  <2>1. /\ n[f] = Cardinality(Sharing({f})) /\ n[g] = Cardinality(Sharing({g}))
        /\ DOMAIN n = {f, g}
    BY <1>2, <1>3
  <2>2. n[f] \in Int /\ n[g] \in Int
    BY <1>5, <2>1
  <2> HIDE DEF n
  <2> QED BY <1>3, <2>1, <2>2, SumOfTwo
<1>9. JaccardOf(e)[1] = both /\ JaccardOf(e)[2] = SumFunction(n) - both
  BY DEF JaccardOf
<1> HIDE DEF n, either, both
<1>10. JaccardOf(e)[2] = Cardinality(either)
  BY <1>5, <1>6, <1>8, <1>9
<1> QED BY <1>7, <1>9, <1>10 DEF either, both

LEMMA PairsAreTrue ==
  ASSUME MassInv, asked.analysis = "support", stage # "reading",
         folded = Len(accumulation.eligible)
  PROVE  PairsTrue /\ PairsClose
<1> DEFINE found == DOMAIN support.pairs
           mass == [e \in found |-> support.pairs[e].mass]
           all == [e \in AllPairs |-> MassOf(e)]
<1>1. /\ asked \in MassInputs /\ SupportKept
      /\ \A g \in [EligibleSets -> Int] :
           KeptSum(g, accumulation.eligible, folded) = Whole(g)
  BY DEF MassInv, HistoryKept, StagesKept, Whole
<1>2. \A e : /\ KeptSum(MassIn(e), accumulation.eligible, folded) = MassOf(e)
             /\ KeptSum(CountIn(e), accumulation.eligible, folded) = Cardinality(Sharing(e))
  BY <1>1, TermsAre, SharesTrue
<1>3. /\ found \subseteq AllPairs
      /\ \A e \in found : /\ support.pairs[e].mass = MassOf(e)
                          /\ support.pairs[e].cooccurrence = Cardinality(Sharing(e))
                          /\ Cardinality(Sharing(e)) >= 1
      /\ \A e \in AllPairs \ found : Cardinality(Sharing(e)) = 0
  <2>1. /\ found \subseteq AllPairs
        /\ \A e \in found :
             /\ support.pairs[e] =
                  [mass |-> KeptSum(MassIn(e), accumulation.eligible, folded),
                   cooccurrence |-> KeptSum(CountIn(e), accumulation.eligible, folded)]
             /\ KeptSum(CountIn(e), accumulation.eligible, folded) >= 1
        /\ \A e \in AllPairs \ found : KeptSum(CountIn(e), accumulation.eligible, folded) = 0
    BY <1>1 DEF SupportKept
  <2> HIDE DEF found
  <2>2. ASSUME NEW e \in found
        PROVE  /\ support.pairs[e].mass = MassOf(e)
               /\ support.pairs[e].cooccurrence = Cardinality(Sharing(e))
               /\ Cardinality(Sharing(e)) >= 1
    <3>1. /\ support.pairs[e] = [mass |-> MassOf(e), cooccurrence |-> Cardinality(Sharing(e))]
          /\ Cardinality(Sharing(e)) >= 1
      BY <1>2, <2>1
    <3> QED BY <3>1
  <2>3. \A e \in AllPairs \ found : Cardinality(Sharing(e)) = 0
    BY <1>2, <2>1
  <2> QED BY <2>1, <2>2, <2>3
<1>4. \A e : /\ Sharing(e) = {} <=> Cardinality(Sharing(e)) = 0
             /\ Sharing(e) = {} => MassOf(e) = 0
             /\ MassOf(e) \in Nat /\ Cardinality(Sharing(e)) \in Nat
  BY <1>1, SharesTrue
<1>5. found = {e \in AllPairs : Sharing(e) # {}}
  BY <1>3, <1>4
<1>6. \A e \in found : /\ JaccardOf(e)[1] = Cardinality(Sharing(e))
                       /\ JaccardOf(e)[1] \in 1 .. JaccardOf(e)[2]
                       /\ JaccardOf(e)[2] \in Nat
                       /\ JaccardOf(e)[2] =
                            Cardinality({i \in Telling : e \cap Members(asked.commits[i]) # {}})
  <2> TAKE e \in found
  <2> DEFINE n == Cardinality(Sharing(e))
             u == JaccardOf(e)[2]
             o == JaccardOf(e)[1]
  <2>1. e \in AllPairs /\ support.pairs[e].cooccurrence = n /\ n >= 1 /\ n \in Nat
    BY <1>3, <1>4
  <2>2. /\ o = n /\ n <= u /\ u \in Nat
        /\ u = Cardinality({i \in Telling : e \cap Members(asked.commits[i]) # {}})
    BY <2>1, JaccardTrue
  <2>3. o \in 1 .. u
    <3> HIDE DEF n, u, o
    <3> QED BY <2>1, <2>2
  <2> QED BY <2>2, <2>3
<1>7. PairsTrue
  BY <1>3, <1>5, <1>6 DEF PairsTrue
<1>8. SumFunction(mass) = accumulation.total
  <2>1. /\ \A e \in found : mass[e] \in Int /\ all[e] = mass[e]
        /\ \A e \in AllPairs \ found : all[e] = 0
        /\ \A e \in AllPairs : all[e] = IF e \in AllPairs THEN MassOf(e) ELSE 0
        /\ DOMAIN mass = found
    BY <1>3, <1>4
  <2>2. IsFiniteSet(AllPairs) /\ IsFiniteSet(found) /\ found \in SUBSET AllPairs
    BY <1>1, <1>3, InputIs, FS_Subset
  <2> HIDE DEF mass, all, found
  <2>3. SumFunction(mass) = Sum(mass, found)
    BY <2>1, <2>2, SumFunctionIsSum
  <2>4. Sum(all, AllPairs) = Sum(mass, found)
    BY <2>1, <2>2, SumOfPart
  <2>5. MassOfAll(AllPairs) = Sum(all, AllPairs)
    BY <1>1, <2>1, MassAmong
  <2>6. accumulation.total = MassOfAll(AllPairs)
    BY LossTrue DEF LossBounded
  <2> QED BY <2>3, <2>4, <2>5, <2>6
<1>9. PairsClose
  <2>1. \A e \in DOMAIN support.pairs : JaccardOf(e)[2] >= 0
    <3> TAKE e \in found
    <3>1. JaccardOf(e)[2] \in Nat
      BY <1>6
    <3> QED BY <3>1
  <2> QED BY <1>8, <2>1 DEF PairsClose
<1> QED BY <1>7, <1>9

-----------------------------------------------------------------------------
LEMMA PartitionKeeps ==
  MassInv /\ FinishPartition => MassInv'
<1> SUFFICES ASSUME MassInv, FinishPartition
             PROVE  MassInv'
  OBVIOUS
<1>1. /\ stage = "layout" /\ folded = Len(accumulation.eligible)
      /\ stage' = IF PartitionCloses THEN "partitioned" ELSE "invariant"
      /\ asked' = asked /\ accumulation' = accumulation /\ folded' = folded /\ cut' = cut
      /\ support' = support
  BY DEF FinishPartition
<1>2. HistoryKept /\ StagesKept /\ asked \in MassInputs /\ asked.analysis = "layout"
  BY <1>1, InputIs DEF MassInv, HistoryKept, StagesKept
<1>3. PartitionCloses
  BY <1>1, <1>2, CutIsTrue
<1>4. StagesKept'
  BY <1>1, <1>2, <1>3 DEF StagesKept
<1>5. CutKept'
  BY <1>1, <1>2, CutStays DEF MassInv
<1> QED BY <1>1, <1>2, <1>4, <1>5, HistoryStays DEF MassInv

LEMMA SupportKeeps ==
  MassInv /\ FinishPairs => MassInv'
<1> SUFFICES ASSUME MassInv, FinishPairs
             PROVE  MassInv'
  OBVIOUS
<1>1. /\ stage = "support" /\ folded = Len(accumulation.eligible)
      /\ stage' = IF PairsClose THEN "supported" ELSE "invariant"
      /\ asked' = asked /\ accumulation' = accumulation /\ folded' = folded /\ cut' = cut
      /\ support' = support
  BY DEF FinishPairs
<1>2. HistoryKept /\ StagesKept /\ asked \in MassInputs /\ asked.analysis = "support"
  BY <1>1, InputIs DEF MassInv, HistoryKept, StagesKept
<1>3. PairsClose
  BY <1>1, <1>2, PairsAreTrue
<1>4. StagesKept'
  BY <1>1, <1>2, <1>3 DEF StagesKept
<1>5. SupportKept'
  BY <1>1, <1>2, SupportStays DEF MassInv
<1> QED BY <1>1, <1>2, <1>4, <1>5, HistoryStays DEF MassInv

LEMMA NothingKeeps ==
  MassInv /\ UNCHANGED massVars => MassInv'
<1> SUFFICES ASSUME MassInv, UNCHANGED massVars
             PROVE  MassInv'
  OBVIOUS
<1>1. /\ asked' = asked /\ accumulation' = accumulation /\ folded' = folded /\ cut' = cut
      /\ support' = support /\ stage' = stage
  BY DEF massVars
<1>2. HistoryKept /\ StagesKept /\ asked \in MassInputs
  BY DEF MassInv, HistoryKept
<1>3. StagesKept'
  BY <1>1, <1>2 DEF StagesKept
<1>4. (asked.analysis = "layout" => CutKept') /\ (asked.analysis = "support" => SupportKept')
  BY <1>1, <1>2, CutStays, SupportStays DEF MassInv
<1> QED BY <1>1, <1>2, <1>3, <1>4, HistoryStays DEF MassInv

(* The mass of the commits that are kept is neither made nor lost but by    *)
(* cutting off shares, and the checks the analyses make of their own sums   *)
(* never fail, for every history: the loop counts each commit once, and     *)
(* each sum over kept commits is the sum over the history of what it takes  *)
(* from a commit's files (accumulate, add_commit, finish and                *)
(* analyze_cochange_support).                                               *)
THEOREM MassIsKept == MassSpec => []MassKept
<1>1. MassInit(MassInputs) => MassInv
  BY MassBegins
<1>2. MassInv /\ [MassNext]_massVars => MassInv'
  BY ReadKeeps, EndKeeps, AddKeeps, PartitionKeeps, PairsKeep, SupportKeeps, NothingKeeps
     DEF MassNext
<1>3. MassInv => MassKept
  <2> SUFFICES ASSUME MassInv
               PROVE  MassKept
    OBVIOUS
  <2>1. /\ stage \in {"reading", asked.analysis, "partitioned", "supported"}
        /\ asked.analysis \in {"layout", "support"}
        /\ stage = "partitioned" =>
             asked.analysis = "layout" /\ folded = Len(accumulation.eligible)
        /\ stage = "supported" =>
             asked.analysis = "support" /\ folded = Len(accumulation.eligible)
    BY InputIs DEF MassInv, HistoryKept, StagesKept
  <2>2. stage # "invariant"
    BY <2>1
  <2>3. stage # "reading" => LossBounded
    BY LossTrue
  <2>4. stage = "partitioned" => CutTrue
    BY <2>1, CutIsTrue
  <2>5. stage = "supported" => PairsTrue
    BY <2>1, PairsAreTrue
  <2> QED BY <2>2, <2>3, <2>4, <2>5 DEF MassKept
<1> QED BY <1>1, <1>2, <1>3, PTL DEF MassSpec

-----------------------------------------------------------------------------
(* What manifests declare, and what speaks for it.                          *)

Ecosystems == {"cargo", "npm", "go", "python"}

Statuses == {"Used", "MentionedOnly", "UnusedCandidate", "Unmappable"}

(* The rows of a manifest: finitely many, of the ecosystems the formats     *)
(* have.                                                                    *)
LEMMA RowsAre ==
  ASSUME NEW m, IsFiniteSet(m.entries)
  PROVE  /\ IsFiniteSet(RowsOf(m))
         /\ \A r \in RowsOf(m) : r.ecosystem \in Ecosystems
         /\ \A r \in RowsOf(m) : \E e \in m.entries : r.name = e.name
<1> DEFINE kept == {x \in m.entries : ~(x.table = "poetry" /\ x.name = <<"python">>)}
           row == [e \in kept |->
                     [manifest |-> m.path, ecosystem |-> EcosystemOf(m.format),
                      scope |-> ScopeOf(m.format, e.table), name |-> e.name,
                      source |-> SourceOf(m.format, e)]]
<1>1. IsFiniteSet(kept)
  BY FS_Subset
<1>2. RowsOf(m) = {row[e] : e \in kept}
  BY DEF RowsOf
<1>3. EcosystemOf(m.format) \in Ecosystems
  BY DEF EcosystemOf, Ecosystems
<1>4. \A e \in kept : /\ row[e].ecosystem = EcosystemOf(m.format)
                      /\ e \in m.entries /\ row[e].name = e.name
  OBVIOUS
<1> HIDE DEF kept, row
<1>5. IsFiniteSet({row[e] : e \in kept})
  BY <1>1, FiniteImage
<1> QED BY <1>2, <1>3, <1>4, <1>5

(* Rows of one package have the same declarations.                          *)
LEMMA OnePackage ==
  ASSUME NEW r, NEW s, r.ecosystem = s.ecosystem, r.name = s.name, NEW D
  PROVE  Matching(r, D) = Matching(s, D)
<1>1. Roots(r) = Roots(s)
  BY DEF Roots
<1>2. \A d : Names(r, d) = Names(s, d)
  BY <1>1 DEF Names
<1> QED BY <1>2 DEF Matching

LEMMA TokensFinite ==
  ASSUME NEW r, r.ecosystem \in Ecosystems
  PROVE  IsFiniteSet(Tokens(r))
<1>1. \A a, b : IsFiniteSet({a}) /\ IsFiniteSet({a, b})
  <2> TAKE a, b
  <2>1. IsFiniteSet({a})
    BY FS_Singleton
  <2>2. IsFiniteSet({a} \cup {b}) /\ {a} \cup {b} = {a, b}
    BY <2>1, FS_AddElement
  <2> QED BY <2>1, <2>2
<1>2. Roots(r) = {Spelling("_", r.name), Spelling("", r.name)} \/ r.ecosystem # "cargo"
  BY DEF Roots
<1>3. \E a, b : Tokens(r) = {a, b} \/ Tokens(r) = {a}
  BY <1>2 DEF Tokens, Ecosystems
<1> QED BY <1>1, <1>3

(* No mention is counted only when there is none to count.                  *)
LEMMA UnmentionedIs ==
  ASSUME NEW r, r.ecosystem \in Ecosystems, NEW files, IsFiniteSet(files)
  PROVE  /\ Mentions(r, files) \in Nat
         /\ Mentions(r, files) = 0 =>
              \A f \in files : Speaks(f) => \A t \in Tokens(r) : ~Says(f, t)
<1> DEFINE Written == {p \in LexicalScanFiles(files) \X Tokens(r) : Says(p[1], p[2])}
<1>1. Mentions(r, files) = Cardinality(Written)
  BY DEF Mentions
<1>2. IsFiniteSet(LexicalScanFiles(files))
  BY FS_Subset DEF LexicalScanFiles
<1>3. IsFiniteSet(LexicalScanFiles(files) \X Tokens(r))
  BY <1>2, TokensFinite, FS_Product
<1>4. IsFiniteSet(Written)
  BY <1>3, FS_Subset
<1>5. Cardinality(Written) = 0 => Written = {}
  BY <1>4, FS_EmptySet
<1>6. ASSUME Written = {}, NEW f \in files, Speaks(f), NEW t \in Tokens(r), Says(f, t)
      PROVE  FALSE
  <2>1. f \in LexicalScanFiles(files)
    BY <1>6 DEF LexicalScanFiles, Speaks
  <2>2. <<f, t>> \in Written
    BY <1>6, <2>1
  <2> QED BY <1>6, <2>2
<1>7. Cardinality(Written) \in Nat
  BY <1>4, FS_CardinalityType
<1> HIDE DEF Written
<1> QED BY <1>1, <1>5, <1>6, <1>7

(* Names and words are sequences of words, of at least one.                 *)
IsName(name) == name \in Seq(Range(name)) \ {<<>>}

(* A text that says a path says its last word.                              *)
LEMMA LastIsSaid ==
  ASSUME NEW f, NEW name, IsName(name), \A w \in f.words : IsName(w[2]),
         Says(f, Spelling("/", name))
  PROVE  Says(f, Spelling("", <<Last(name)>>))
<1>1. PICK w \in f.words : Spelling("/", name) \in Subwords(w)
  BY DEF Says
<1>2. /\ name \in Seq(Range(name)) /\ Len(name) \in Nat \ {0}
      /\ w[2] \in Seq(Range(w[2]))
      /\ Len(name) = 1 => name = <<name[1]>>
  BY DEF IsName
<1>3. CASE Len(name) = 1
  BY <1>1, <1>2, <1>3 DEF Spelling, Says, Last
<1>4. CASE Len(name) # 1
  <2>1. Spelling("/", name) = <<"/", name>>
    BY <1>4 DEF Spelling
  <2>2. CASE w[1] \notin {"-", "/"}
    <3>1. w = <<"/", name>>
      BY <1>1, <2>1, <2>2 DEF Subwords
    <3>2. w[1] = "/"
      BY <3>1
    <3> QED BY <2>2, <3>2
  <2>3. CASE w[1] \in {"-", "/"}
    <3>1. PICK i, j \in DOMAIN w[2] : <<"/", name>> = Spelling(w[1], SubSeq(w[2], i, j))
      BY <1>1, <2>1, <2>3 DEF Subwords
    <3>2. w[1] = "/" /\ name = SubSeq(w[2], i, j)
      BY <3>1, <1>4 DEF Spelling
    <3>9. i <= j
      BY <1>2, <3>1, <3>2
    <3>3. /\ i \in Nat /\ j \in Nat /\ 1 <= i /\ j <= Len(w[2])
          /\ SubSeq(w[2], i, j) = [k \in 1 .. (j - i + 1) |-> w[2][i + k - 1]]
          /\ SubSeq(w[2], j, j) = [k \in 1 .. 1 |-> w[2][j + k - 1]]
      BY <1>2, <3>1
    <3>4. Len(name) = j - i + 1 /\ name[j - i + 1] = w[2][j]
      BY <3>1, <3>2, <3>3, <3>9
    <3>5. Last(name) = w[2][j]
      BY <3>4 DEF Last
    <3>6. SubSeq(w[2], j, j) = <<w[2][j]>>
      BY <1>2, <3>1, <3>3
    <3>7. Spelling(w[1], SubSeq(w[2], j, j)) = Spelling("", <<Last(name)>>)
      BY <3>5, <3>6 DEF Spelling
    <3>8. Spelling(w[1], SubSeq(w[2], j, j)) \in Subwords(w)
      <4>1. Subwords(w) = {Spelling(w[1], SubSeq(w[2], k, l)) : k, l \in DOMAIN w[2]}
        BY <2>3 DEF Subwords
      <4> QED BY <3>1, <4>1
    <3> QED BY <3>7, <3>8 DEF Says
  <2> QED BY <2>2, <2>3
<1> QED BY <1>3, <1>4

(* A text that spells a package says what the code looks for.               *)
LEMMA SpellingsAreSought ==
  ASSUME NEW r, r.ecosystem \in Ecosystems, IsName(r.name),
         NEW f, \A w \in f.words : IsName(w[2]),
         \A t \in Tokens(r) : ~Says(f, t)
  PROVE  \A join \in TextJoins(r.ecosystem) : ~Says(f, Spelling(join, r.name))
<1>1. CASE r.ecosystem = "cargo"
  BY <1>1 DEF TextJoins, Tokens, Roots
<1>2. CASE r.ecosystem = "npm"
  BY <1>2 DEF TextJoins, Tokens
<1>3. CASE r.ecosystem = "go"
  <2>1. TextJoins(r.ecosystem) = {"/"}
    BY <1>3 DEF TextJoins
  <2>2. Tokens(r) = {Spelling("", <<Last(r.name)>>)}
    BY <1>3 DEF Tokens
  <2> QED BY <2>1, <2>2, LastIsSaid
<1>4. CASE r.ecosystem = "python"
  BY <1>4 DEF TextJoins, Tokens
<1> QED BY <1>1, <1>2, <1>3, <1>4 DEF Ecosystems

(* Files that do not speak are not read.                                    *)
LEMMA SpeakersAreRead ==
  ASSUME NEW files
  PROVE  LexicalScanFiles({f \in files : Speaks(f)}) = LexicalScanFiles(files)
BY DEF LexicalScanFiles, Speaks

(* Files that declare have no part in a status.                             *)
LEMMA UsageOfSpeakers ==
  ASSUME NEW rows, NEW D, NEW files
  PROVE  Usage(rows, D, {f \in files : Speaks(f)}) = Usage(rows, D, files)
<1>1. \A r : Mentions(r, {f \in files : Speaks(f)}) = Mentions(r, files)
  BY SpeakersAreRead DEF Mentions
<1>2. \A r : RowStatus(r, D, {f \in files : Speaks(f)}) = RowStatus(r, D, files)
  BY <1>1 DEF RowStatus
<1> QED BY <1>2 DEF Usage

(* The status of a row, whether or not its workspace is fixed.              *)
LEMMA StatusIs ==
  ASSUME NEW rows, NEW D, NEW files, IsFiniteSet(files), NEW r \in rows,
         \A s \in rows : s.ecosystem \in Ecosystems
  PROVE  LET u == Usage(rows, D, files)
         IN  /\ u[r] \in Statuses
             /\ u[r] = "Used" <=> Matching(r, D) # {}
             /\ u[r] \in {"UnusedCandidate", "Unmappable"} => Mentions(r, files) = 0
             /\ u[r] = "UnusedCandidate" => MappingReliable(r)
<1> DEFINE u == Usage(rows, D, files)
           fixed == r.scope = "workspace"
                    /\ \E s \in rows : /\ Matching(s, D) # {}
                                       /\ s.ecosystem = r.ecosystem /\ s.name = r.name
<1>1. u[r] = IF fixed THEN "Used" ELSE RowStatus(r, D, files)
  BY DEF Usage
<1>2. fixed => Matching(r, D) # {}
  BY OnePackage
<1>3. Matching(r, D) # {} => RowStatus(r, D, files) = "Used"
  BY DEF RowStatus
<1>4. u[r] = RowStatus(r, D, files)
  BY <1>1, <1>2, <1>3
<1>5. Mentions(r, files) \in Nat
  BY UnmentionedIs
<1> QED BY <1>4, <1>5 DEF RowStatus, Statuses

(* Each row has one status, so that the counts add up.                      *)
LEMMA CountsClose ==
  ASSUME NEW rows, IsFiniteSet(rows), DOMAIN usage = rows,
         \A r \in rows : usage[r] \in Statuses
  PROVE  SumFunction(StatusCounts) = Cardinality(rows)
<1> DEFINE Having == [s \in Statuses |-> {r \in rows : usage[r] = s}]
<1>1. IsFiniteSet(Statuses)
  <2>1. IsFiniteSet({"Used"})
    BY FS_Singleton
  <2>2. IsFiniteSet({"Used"} \cup {"MentionedOnly"})
    BY <2>1, FS_AddElement
  <2>3. IsFiniteSet(({"Used"} \cup {"MentionedOnly"}) \cup {"UnusedCandidate"})
    BY <2>2, FS_AddElement
  <2>4. IsFiniteSet((({"Used"} \cup {"MentionedOnly"}) \cup {"UnusedCandidate"})
                      \cup {"Unmappable"})
    BY <2>3, FS_AddElement
  <2>5. (({"Used"} \cup {"MentionedOnly"}) \cup {"UnusedCandidate"}) \cup {"Unmappable"}
          = Statuses
    BY DEF Statuses
  <2> QED BY <2>4, <2>5
<1>2. \A s \in Statuses : IsFiniteSet(Having[s])
  BY FS_Subset
<1>3. \A s, t \in Statuses : s # t => Having[s] \cap Having[t] = {}
  OBVIOUS
<1>4. UNION {Having[s] : s \in Statuses} = rows
  OBVIOUS
<1>5. StatusCounts = [s \in Statuses |-> Cardinality(Having[s])]
  BY DEF StatusCounts, Statuses
<1> HIDE DEF Having
<1>6. Cardinality(rows) = Sum(StatusCounts, Statuses)
  BY <1>1, <1>2, <1>3, <1>4, <1>5, SumOfSizes
<1>7. SumFunction(StatusCounts) = Sum(StatusCounts, Statuses)
  BY <1>1, <1>5, SumFunctionIsSum
<1> QED BY <1>6, <1>7

-----------------------------------------------------------------------------
(* The survey of a tree                                                     *)

RowsUpTo(n) ==
  UNION {RowsOf(declared.manifests[i]) : i \in {j \in 1 .. n : Readable(declared.manifests[j])}}

Paths == {m.path : m \in Range(declared.manifests)}

UsageInv ==
  /\ declared \in UsageInputs
  /\ inventory = [read |-> inventory.read, rows |-> inventory.rows,
                  analyzed |-> inventory.analyzed, unreadable |-> inventory.unreadable]
  /\ inventory.read \in 0 .. Len(declared.manifests)
  /\ inventory.rows = RowsUpTo(inventory.read) /\ IsFiniteSet(inventory.rows)
  /\ \A r \in inventory.rows : r.ecosystem \in Ecosystems /\ IsName(r.name)
  /\ inventory.analyzed \in Nat /\ inventory.unreadable \in Seq(Paths)
  /\ inventory.analyzed + Len(inventory.unreadable) = inventory.read
  /\ survey = "done" => usage = Usage(inventory.rows, declared.imports, declared.files)

(* Each action keeps the invariant.                                         *)
LEMMA ReadKeepsUsage ==
  ASSUME UsageInv, ReadManifest
  PROVE  UsageInv'
<1> DEFINE n == inventory.read
           m == declared.manifests[n + 1]
<1>1. /\ declared.manifests \in Seq(Range(declared.manifests))
      /\ \A x \in Range(declared.manifests) :
           IsFiniteSet(x.entries) /\ \A e \in x.entries : IsName(e.name)
  BY UsageAssumption DEF UsageInv, IsName
<1>2. /\ Len(declared.manifests) \in Nat /\ n \in Nat /\ n < Len(declared.manifests)
      /\ n + 1 \in DOMAIN declared.manifests
  BY <1>1 DEF UsageInv, ReadManifest
<1>3. IsFiniteSet(m.entries) /\ \A e \in m.entries : IsName(e.name)
  BY <1>1, <1>2 DEF Range
<1>4. RowsUpTo(n + 1) = IF Readable(m) THEN RowsUpTo(n) \cup RowsOf(m) ELSE RowsUpTo(n)
  <2>1. 1 .. (n + 1) = (1 .. n) \cup {n + 1}
    BY <1>2
  <2> QED BY <2>1 DEF RowsUpTo
<1>5. declared' = declared /\ survey' = survey /\ usage' = usage /\ survey = "manifests"
  BY DEF ReadManifest
<1>6. \A k : RowsUpTo(k)' = RowsUpTo(k')
  BY <1>5 DEF RowsUpTo
<1>7. /\ inventory'.read = n + 1
      /\ inventory' = [read |-> inventory'.read, rows |-> inventory'.rows,
                       analyzed |-> inventory'.analyzed, unreadable |-> inventory'.unreadable]
      /\ Readable(m) => /\ inventory'.rows = inventory.rows \cup RowsOf(m)
                        /\ inventory'.analyzed = inventory.analyzed + 1
                        /\ inventory'.unreadable = inventory.unreadable
      /\ ~Readable(m) => /\ inventory'.rows = inventory.rows
                         /\ inventory'.analyzed = inventory.analyzed
                         /\ inventory'.unreadable = Append(inventory.unreadable, m.path)
  <2> DEFINE one == [inventory EXCEPT !.read = @ + 1]
  <2>1. inventory' = IF Readable(m)
                     THEN [one EXCEPT !.rows = @ \cup RowsOf(m), !.analyzed = @ + 1]
                     ELSE [one EXCEPT !.unreadable = Append(@, m.path)]
    BY DEF ReadManifest
  <2>2. one = [read |-> n + 1, rows |-> inventory.rows, analyzed |-> inventory.analyzed,
               unreadable |-> inventory.unreadable]
    BY DEF UsageInv
  <2> HIDE DEF one, n, m
  <2>3. CASE Readable(m)
    BY <2>1, <2>2, <2>3
  <2>4. CASE ~Readable(m)
    BY <2>1, <2>2, <2>4
  <2> QED BY <2>3, <2>4
<1>8. IsFiniteSet(inventory.rows \cup RowsOf(m))
  BY <1>3, RowsAre, FS_Union DEF UsageInv
<1>9. /\ m.path \in Paths /\ inventory.unreadable \in Seq(Paths)
      /\ Len(inventory.unreadable) \in Nat
  BY <1>1, <1>2 DEF UsageInv, Paths, Range
<1>10. /\ inventory'.unreadable \in Seq(Paths) /\ inventory'.analyzed \in Nat
       /\ inventory'.analyzed + Len(inventory'.unreadable) = n + 1
  <2> HIDE DEF n, m
  <2>1. /\ Append(inventory.unreadable, m.path) \in Seq(Paths)
        /\ Len(Append(inventory.unreadable, m.path)) = Len(inventory.unreadable) + 1
    BY <1>9
  <2>2. inventory.analyzed \in Nat /\ inventory.analyzed + Len(inventory.unreadable) = n
    BY DEF UsageInv, n
  <2>3. CASE Readable(m)
    BY <1>2, <1>7, <1>9, <2>2, <2>3
  <2>4. CASE ~Readable(m)
    <3>1. /\ inventory'.unreadable = Append(inventory.unreadable, m.path)
          /\ inventory'.analyzed = inventory.analyzed
      BY <1>7, <2>4
    <3>2. Len(inventory'.unreadable) = Len(inventory.unreadable) + 1
      BY <2>1, <3>1
    <3> QED BY <1>2, <1>9, <2>1, <2>2, <3>1, <3>2
  <2> QED BY <2>3, <2>4
<1>11. /\ inventory'.rows = RowsUpTo(n + 1) /\ IsFiniteSet(inventory'.rows)
       /\ \A r \in inventory'.rows : r.ecosystem \in Ecosystems /\ IsName(r.name)
  <2>1. \A r \in RowsOf(m) : r.ecosystem \in Ecosystems /\ IsName(r.name)
    BY <1>3, RowsAre
  <2> HIDE DEF n, m
  <2> QED BY <1>4, <1>7, <1>8, <2>1 DEF UsageInv, n
<1>12. Paths' = Paths
  BY <1>5 DEF Paths
<1>13. inventory'.read \in 0 .. Len(declared.manifests)
  BY <1>2, <1>7
<1> HIDE DEF n, m
<1> QED BY <1>5, <1>6, <1>7, <1>10, <1>11, <1>12, <1>13 DEF UsageInv

LEMMA JoinKeepsUsage ==
  ASSUME UsageInv, JoinUsage
  PROVE  UsageInv'
BY DEF UsageInv, JoinUsage, RowsUpTo, Paths

(* What the invariant says of the end.                                      *)
LEMMA StatusesAreTrue ==
  ASSUME UsageInv, survey = "done"
  PROVE  StatusesTrue
<1> DEFINE rows == inventory.rows
           D == declared.imports
           files == declared.files
<1>1. IsFiniteSet(files)
  BY UsageAssumption DEF UsageInv
<1>2. \A r \in rows : r.ecosystem \in Ecosystems /\ IsName(r.name)
  BY DEF UsageInv
<1>3. usage = Usage(rows, D, files) /\ DOMAIN usage = rows
  BY DEF UsageInv, Usage
<1>4. \A r \in rows :
        /\ usage[r] \in Statuses
        /\ usage[r] = "Used" <=> Matching(r, D) # {}
        /\ usage[r] \in {"UnusedCandidate", "Unmappable"} => Mentions(r, files) = 0
        /\ usage[r] = "UnusedCandidate" => MappingReliable(r)
  BY <1>1, <1>2, <1>3, StatusIs
<1>5. \A r \in rows : usage[r] \in {"UnusedCandidate", "Unmappable"} => Unspoken(r)
  <2> TAKE r \in rows
  <2> HAVE usage[r] \in {"UnusedCandidate", "Unmappable"}
  <2>1. Matching(r, D) = {}
    BY <1>4
  <2>2. \A f \in files : Speaks(f) => \A t \in Tokens(r) : ~Says(f, t)
    BY <1>1, <1>2, <1>4, UnmentionedIs
  <2>3. \A f \in files : \A w \in f.words : IsName(w[2])
    BY UsageAssumption DEF UsageInv, IsName
  <2>4. \A f \in files : Speaks(f) =>
          \A join \in TextJoins(r.ecosystem) : ~Says(f, Spelling(join, r.name))
    BY <1>2, <2>2, <2>3, SpellingsAreSought
  <2> QED BY <2>1, <2>4 DEF Unspoken, Matching
<1>6. \A r \in rows : usage[r] = "UnusedCandidate" => r.ecosystem # "python"
  BY <1>4 DEF MappingReliable
<1>7. \A r, s \in rows : r.ecosystem = s.ecosystem /\ r.name = s.name =>
        (usage[r] = "Used" <=> usage[s] = "Used")
  BY <1>4, OnePackage
<1>8. usage = Usage(rows, D, {f \in files : Speaks(f)})
  BY <1>3, UsageOfSpeakers
<1>9. SumFunction(StatusCounts) = Cardinality(rows)
  BY <1>3, <1>4, CountsClose DEF UsageInv
<1> QED BY <1>5, <1>6, <1>7, <1>8, <1>9 DEF StatusesTrue

(* For any tree, a package called unused is imported nowhere and spelled in *)
(* no text that was read, by its whole name or, for a crate, as identifiers *)
(* spell it; and no manifest is passed over in silence.  That a workspace's *)
(* rows are given the use of its members' changes no status, since rows of  *)
(* one package match the same imports (inventory_manifests, manifest_usage). *)
THEOREM UsageIsRight == UsageSpec => []UsageRight
<1>1. UsageInit(UsageInputs) => UsageInv
  <2> SUFFICES ASSUME UsageInit(UsageInputs)
               PROVE  UsageInv
    OBVIOUS
  <2>1. declared.manifests \in Seq(Range(declared.manifests))
    BY UsageAssumption DEF UsageInit
  <2>2. Len(declared.manifests) \in Nat
    BY <2>1
  <2>3. RowsUpTo(0) = {}
    BY DEF RowsUpTo
  <2> QED BY <2>2, <2>3, FS_EmptySet DEF UsageInit, UsageInv
<1>2. UsageInv /\ [UsageNext]_usageVars => UsageInv'
  <2>1. UsageInv /\ UNCHANGED usageVars => UsageInv'
    BY DEF usageVars, UsageInv, RowsUpTo, Paths
  <2> QED BY <2>1, ReadKeepsUsage, JoinKeepsUsage DEF UsageNext
<1>3. UsageInv => UsageRight
  BY StatusesAreTrue DEF UsageRight, InventoryTrue, UsageInv, RowsUpTo
<1> QED BY <1>1, <1>2, <1>3, PTL DEF UsageSpec

-----------------------------------------------------------------------------
(* Neighbors and classes                                                   *)

Imports(files, links) ==
  IsFiniteSet(files) /\ files \subseteq Nat /\ links \subseteq files \X files

Proper(links) == {e \in links : e[1] # e[2]}

(* Neighbor sets are those of the edges between two files.                  *)
LEMMA NeighborsAre ==
  ASSUME NEW files, NEW links, Imports(files, links), NEW f
  PROVE  /\ InSet(links, f) \subseteq files /\ OutSet(links, f) \subseteq files
         /\ \A g : /\ g \in InSet(links, f) <=> <<g, f>> \in Proper(links)
                   /\ g \in OutSet(links, f) <=> <<f, g>> \in Proper(links)
         /\ f \notin InSet(links, f) /\ f \notin OutSet(links, f)
<1>1. \A e \in links : e = <<e[1], e[2]>> /\ e[1] \in files /\ e[2] \in files
  BY DEF Imports
<1> QED BY <1>1 DEF InSet, OutSet, Proper

(* Two files are in one group exactly when they have one key.               *)
LEMMA GroupedAre ==
  ASSUME NEW S, IsFiniteSet(S), NEW key, DOMAIN key = S
  PROVE  /\ \A f, g \in S : f # g =>
              ((\E c \in Grouped(key) : {f, g} \subseteq c) <=> key[f] = key[g])
         /\ \A c \in Grouped(key) :
              /\ c \subseteq S /\ IsFiniteSet(c) /\ Cardinality(c) >= 2
              /\ \A f \in c : c = {h \in S : key[h] = key[f]}
         /\ IsFiniteSet(Grouped(key))
<1> DEFINE class == [h \in S |-> {f \in S : key[f] = key[h]}]
<1>1. Grouped(key) = {g \in {class[h] : h \in S} : Cardinality(g) >= 2}
  BY DEF Grouped
<1>2. IsFiniteSet({class[h] : h \in S})
  <2> HIDE DEF class
  <2> QED BY FiniteImage
<1>3. \A h \in S : IsFiniteSet(class[h])
  BY FS_Subset
<1>4. \A f, g \in S : f # g /\ key[f] = key[g] => Cardinality(class[f]) >= 2
  <2> TAKE f, g \in S
  <2> HAVE f # g /\ key[f] = key[g]
  <2>1. IsFiniteSet({f}) /\ Cardinality({f}) = 1
    BY FS_Singleton
  <2>2. Cardinality({f} \cup {g}) = 2
    BY <2>1, FS_AddElement
  <2>3. {f} \cup {g} \subseteq class[f]
    OBVIOUS
  <2>4. Cardinality({f} \cup {g}) <= Cardinality(class[f])
    BY <1>3, <2>3, FS_Subset
  <2>5. Cardinality(class[f]) \in Nat
    BY <1>3, FS_CardinalityType
  <2> QED BY <2>2, <2>4, <2>5
<1>5. IsFiniteSet(Grouped(key))
  BY <1>1, <1>2, FS_Subset
<1>6. \A f, g \in S : f # g =>
        ((\E c \in Grouped(key) : {f, g} \subseteq c) <=> key[f] = key[g])
  <2> TAKE f, g \in S
  <2> HAVE f # g
  <2>1. ASSUME NEW c \in Grouped(key), {f, g} \subseteq c
        PROVE  key[f] = key[g]
    <3>1. PICK h \in S : c = class[h]
      BY <1>1
    <3> QED BY <2>1, <3>1
  <2>2. ASSUME key[f] = key[g]
        PROVE  \E c \in Grouped(key) : {f, g} \subseteq c
    <3>1. Cardinality(class[f]) >= 2
      BY <1>4, <2>2
    <3>2. class[f] \in Grouped(key)
      BY <1>1, <3>1
    <3>3. {f, g} \subseteq class[f]
      BY <2>2
    <3> QED BY <3>2, <3>3
  <2> QED BY <2>1, <2>2
<1>7. ASSUME NEW c \in Grouped(key)
      PROVE  /\ c \subseteq S /\ IsFiniteSet(c) /\ Cardinality(c) >= 2
             /\ \A f \in c : c = {h \in S : key[h] = key[f]}
  BY <1>1, <1>3
<1> QED BY <1>5, <1>6, <1>7

OpenKey(files, links) ==
  [f \in NonIsolated(files, links) |-> <<InSet(links, f), OutSet(links, f)>>]

ClosedKey(files, links) ==
  [f \in NonIsolated(files, links) |-> <<InSet(links, f) \cup {f}, OutSet(links, f) \cup {f}>>]

(* Equal keys, in the graph.                                                *)
OpenTwins(links, f, g) ==
  InSet(links, f) = InSet(links, g) /\ OutSet(links, f) = OutSet(links, g)

ClosedTwins(links, f, g) ==
  /\ InSet(links, f) \cup {f} = InSet(links, g) \cup {g}
  /\ OutSet(links, f) \cup {f} = OutSet(links, g) \cup {g}

Together(classes, f, g) == \E c \in classes : {f, g} \subseteq c

(* Classes are the files with equal keys; no pair is of both kinds.         *)
LEMMA ClassesAre ==
  ASSUME NEW files, NEW links, Imports(files, links)
  PROVE  LET open == OpenGroups(files, links)
             closed == ClosedGroups(files, links)
             scanned == NonIsolated(files, links)
         IN  /\ IsFiniteSet(scanned) /\ scanned \subseteq files
             /\ IsFiniteSet(open) /\ IsFiniteSet(closed) /\ open \cap closed = {}
             /\ \A c \in open \cup closed : IsFiniteSet(c) /\ Cardinality(c) >= 2 /\ c \subseteq scanned
             /\ \A f, g \in scanned : f # g =>
                  /\ Together(open, f, g) <=> OpenTwins(links, f, g)
                  /\ Together(closed, f, g) <=> ClosedTwins(links, f, g)
<1> DEFINE open == OpenGroups(files, links)
           closed == ClosedGroups(files, links)
           scanned == NonIsolated(files, links)
           k == OpenKey(files, links)
           l == ClosedKey(files, links)
<1>1. IsFiniteSet(scanned) /\ scanned \subseteq files
  BY FS_Subset DEF Imports, NonIsolated
<1>2. open = Grouped(k) /\ closed = Grouped(l) \ Grouped(k)
  BY DEF OpenGroups, ClosedGroups, OpenKey, ClosedKey
<1>3. DOMAIN k = scanned /\ DOMAIN l = scanned
  BY DEF OpenKey, ClosedKey
<1>4. \A f, g \in scanned :
        /\ k[f] = k[g] <=> OpenTwins(links, f, g)
        /\ l[f] = l[g] <=> ClosedTwins(links, f, g)
  BY DEF OpenKey, ClosedKey, OpenTwins, ClosedTwins
<1>5. \A f, g \in scanned : f # g => ~ (OpenTwins(links, f, g) /\ ClosedTwins(links, f, g))
  BY NeighborsAre DEF OpenTwins, ClosedTwins
<1> HIDE DEF k, l, scanned, open, closed
<1>6. /\ IsFiniteSet(Grouped(k)) /\ IsFiniteSet(Grouped(l))
      /\ \A c \in Grouped(k) \cup Grouped(l) :
           c \subseteq scanned /\ IsFiniteSet(c) /\ Cardinality(c) >= 2
      /\ \A f, g \in scanned : f # g =>
           /\ Together(Grouped(k), f, g) <=> k[f] = k[g]
           /\ Together(Grouped(l), f, g) <=> l[f] = l[g]
      /\ \A c \in Grouped(k) : \A f \in c : c = {h \in scanned : k[h] = k[f]}
  BY <1>1, <1>3, GroupedAre DEF Together
<1>7. ASSUME NEW f \in scanned, NEW g \in scanned, f # g, l[f] = l[g]
      PROVE  Together(closed, f, g)
  <2>1. PICK c \in Grouped(l) : {f, g} \subseteq c
    BY <1>6, <1>7 DEF Together
  <2>2. c \notin Grouped(k)
    <3> SUFFICES ASSUME c \in Grouped(k)
                 PROVE  FALSE
      OBVIOUS
    <3>1. k[g] = k[f]
      BY <1>6, <2>1
    <3>2. OpenTwins(links, f, g)
      BY <1>4, <3>1
    <3>3. ClosedTwins(links, f, g)
      BY <1>4, <1>7
    <3> QED BY <1>5, <1>7, <3>2, <3>3
  <2> QED BY <1>2, <2>1, <2>2 DEF Together
<1>8. \A f, g \in scanned : f # g => (Together(closed, f, g) <=> l[f] = l[g])
  <2> TAKE f, g \in scanned
  <2> HAVE f # g
  <2>1. Together(closed, f, g) => Together(Grouped(l), f, g)
    BY <1>2 DEF Together
  <2> QED BY <1>6, <1>7, <2>1
<1>9. IsFiniteSet(closed)
  BY <1>2, <1>6, FS_Subset
<1>10. /\ IsFiniteSet(open) /\ open \cap closed = {}
       /\ \A c \in open \cup closed : IsFiniteSet(c) /\ Cardinality(c) >= 2 /\ c \subseteq scanned
  BY <1>2, <1>6
<1>11. \A f, g \in scanned : f # g =>
         /\ Together(open, f, g) <=> OpenTwins(links, f, g)
         /\ Together(closed, f, g) <=> ClosedTwins(links, f, g)
  <2> TAKE f, g \in scanned
  <2> HAVE f # g
  <2>1. Together(open, f, g) <=> k[f] = k[g]
    BY <1>2, <1>6
  <2>2. k[f] = k[g] <=> OpenTwins(links, f, g)
    BY <1>4
  <2>3. l[f] = l[g] <=> ClosedTwins(links, f, g)
    BY <1>4
  <2>4. Together(closed, f, g) <=> l[f] = l[g]
    BY <1>8
  <2> QED BY <2>1, <2>2, <2>3, <2>4
<1> QED BY <1>1, <1>9, <1>10, <1>11 DEF open, closed, scanned

-----------------------------------------------------------------------------
(* Twins are files that may be exchanged.                                   *)

Other(f, g, x) == IF x = f THEN g ELSE IF x = g THEN f ELSE x

Exchangeable(links, f, g) ==
  \A x, y : <<x, y>> \in Proper(links) <=> <<Other(f, g, x), Other(f, g, y)>> \in Proper(links)

(* That exchange maps edges onto edges, point by point.                     *)
LEMMA ExchangedIs ==
  ASSUME NEW files, NEW links, Imports(files, links), NEW f, NEW g
  PROVE  Exchanged(Proper(links), f, g) = Proper(links) <=> Exchangeable(links, f, g)
<1> DEFINE P == Proper(links)
<1>1. \A e \in P : e = <<e[1], e[2]>>
  BY DEF Proper, Imports
<1>2. \A x : Other(f, g, Other(f, g, x)) = x
  BY DEF Other
<1>3. Exchanged(P, f, g) = {<<Other(f, g, e[1]), Other(f, g, e[2])>> : e \in P}
  BY DEF Exchanged, Other
<1> DEFINE Q == {<<Other(f, g, e[1]), Other(f, g, e[2])>> : e \in P}
<1>4. \A x, y : <<x, y>> \in Q <=> <<Other(f, g, x), Other(f, g, y)>> \in P
  <2> TAKE x, y
  <2>1. ASSUME <<x, y>> \in Q
        PROVE  <<Other(f, g, x), Other(f, g, y)>> \in P
    <3>1. PICK e \in P : <<x, y>> = <<Other(f, g, e[1]), Other(f, g, e[2])>>
      BY <2>1
    <3>2. x = Other(f, g, e[1]) /\ y = Other(f, g, e[2])
      BY <3>1
    <3>3. Other(f, g, x) = e[1] /\ Other(f, g, y) = e[2]
      BY <1>2, <3>2
    <3> QED BY <1>1, <3>3
  <2>2. ASSUME <<Other(f, g, x), Other(f, g, y)>> \in P
        PROVE  <<x, y>> \in Q
    <3> DEFINE e == <<Other(f, g, x), Other(f, g, y)>>
    <3>1. <<Other(f, g, e[1]), Other(f, g, e[2])>> = <<x, y>>
      BY <1>2
    <3>2. <<Other(f, g, e[1]), Other(f, g, e[2])>> \in Q
      BY <2>2
    <3> QED BY <3>1, <3>2
  <2> QED BY <2>1, <2>2
<1>5. \A e \in Q : e = <<e[1], e[2]>>
  OBVIOUS
<1> HIDE DEF P, Q
<1>6. Q = P <=> \A x, y : <<x, y>> \in Q <=> <<x, y>> \in P
  BY <1>1, <1>5
<1>7. Q = P <=> \A x, y : <<x, y>> \in P <=> <<Other(f, g, x), Other(f, g, y)>> \in P
  BY <1>4, <1>6
<1> QED BY <1>3, <1>7 DEF P, Q, Exchangeable

LEMMA TwinsAreExchangeable ==
  ASSUME NEW files, NEW links, Imports(files, links), NEW f, NEW g, f # g
  PROVE  /\ OpenTwins(links, f, g) \/ ClosedTwins(links, f, g) <=> Exchangeable(links, f, g)
         /\ ClosedTwins(links, f, g) => <<f, g>> \in links /\ <<g, f>> \in links
         /\ OpenTwins(links, f, g) => <<f, g>> \notin links /\ <<g, f>> \notin links
<1> DEFINE E(x, y) == <<x, y>> \in Proper(links)
<1>1. \A x, y : E(x, y) => x # y
  BY DEF Proper
<1>2. \A x, y : x # y => (E(x, y) <=> <<x, y>> \in links)
  BY DEF Proper
<1>3. \A h, x : (x \in InSet(links, h) <=> E(x, h)) /\ (x \in OutSet(links, h) <=> E(h, x))
  BY NeighborsAre
<1> HIDE DEF E
<1>4. OpenTwins(links, f, g) <=> \A x : (E(x, f) <=> E(x, g)) /\ (E(f, x) <=> E(g, x))
  BY <1>3 DEF OpenTwins
<1>5. ClosedTwins(links, f, g) <=>
        \A x : /\ (E(x, f) \/ x = f) <=> (E(x, g) \/ x = g)
               /\ (E(f, x) \/ x = f) <=> (E(g, x) \/ x = g)
  BY <1>3 DEF ClosedTwins
<1>6. Exchangeable(links, f, g) <=> \A x, y : E(x, y) <=> E(Other(f, g, x), Other(f, g, y))
  BY DEF Exchangeable, E
<1>7. /\ Other(f, g, f) = g /\ Other(f, g, g) = f
      /\ \A x : x # f /\ x # g => Other(f, g, x) = x
  BY DEF Other
<1>8. OpenTwins(links, f, g) => Exchangeable(links, f, g)
  <2> HAVE OpenTwins(links, f, g)
  <2>1. \A x : (E(x, f) <=> E(x, g)) /\ (E(f, x) <=> E(g, x))
    BY <1>4
  <2>2. ~E(f, g) /\ ~E(g, f) /\ ~E(f, f) /\ ~E(g, g)
    BY <1>1, <2>1
  <2>3. \A x, y : E(x, y) <=> E(Other(f, g, x), Other(f, g, y))
    BY <1>7, <2>1, <2>2
  <2> QED BY <1>6, <2>3
<1>9. ClosedTwins(links, f, g) => E(f, g) /\ E(g, f)
  BY <1>5
<1>10. ClosedTwins(links, f, g) => Exchangeable(links, f, g)
  <2> HAVE ClosedTwins(links, f, g)
  <2>1. \A x : x # f /\ x # g => (E(x, f) <=> E(x, g)) /\ (E(f, x) <=> E(g, x))
    BY <1>5
  <2>2. E(f, g) /\ E(g, f) /\ ~E(f, f) /\ ~E(g, g)
    BY <1>1, <1>9
  <2>3. \A x, y : E(x, y) <=> E(Other(f, g, x), Other(f, g, y))
    BY <1>7, <2>1, <2>2
  <2> QED BY <1>6, <2>3
<1>11. Exchangeable(links, f, g) => OpenTwins(links, f, g) \/ ClosedTwins(links, f, g)
  <2> HAVE Exchangeable(links, f, g)
  <2>1. \A x : x # f /\ x # g => (E(x, f) <=> E(x, g)) /\ (E(f, x) <=> E(g, x))
    BY <1>6, <1>7
  <2>2. (E(f, g) <=> E(g, f)) /\ ~E(f, f) /\ ~E(g, g)
    BY <1>1, <1>6, <1>7
  <2>3. CASE E(f, g)
    BY <1>5, <2>1, <2>2, <2>3
  <2>4. CASE ~E(f, g)
    BY <1>4, <2>1, <2>2, <2>4
  <2> QED BY <2>3, <2>4
<1>12. OpenTwins(links, f, g) => ~E(f, g) /\ ~E(g, f)
  BY <1>1, <1>4
<1> QED BY <1>2, <1>8, <1>9, <1>10, <1>11, <1>12

-----------------------------------------------------------------------------
(* A sorted list has every element of its set.                              *)

(* Products with a positive number.                                         *)
LEMMA Cancelled ==
  ASSUME NEW a \in Int, NEW b \in Int, NEW c \in Nat \ {0}
  PROVE  (c * a >= c * b => a >= b) /\ (c * a > c * b => a > b)
         /\ (a >= b => c * a >= c * b) /\ (a > b => c * a > c * b)
OBVIOUS

(* A set that lacks an element is smaller.                                  *)
LEMMA ProperSubset ==
  ASSUME NEW S, IsFiniteSet(S), NEW T \in SUBSET S, NEW x \in S, x \notin T
  PROVE  Cardinality(T) < Cardinality(S)
<1>1. /\ IsFiniteSet(T) /\ Cardinality(T) <= Cardinality(S)
      /\ Cardinality(S) = Cardinality(T) => S = T
  BY FS_Subset
<1>2. Cardinality(T) \in Nat /\ Cardinality(S) \in Nat
  BY <1>1, FS_CardinalityType
<1> QED BY <1>1, <1>2

(* Pairs of files with how alike they are, the union not empty.             *)
Alike ==
  {p \in [left : Nat, right : Nat, intersection : Nat, union : Nat] : p.union > 0}

(* Order of fractions by cross products is transitive.                      *)
LEMMA SharesInOrder ==
  ASSUME NEW a \in Nat, NEW b \in Nat, NEW c \in Nat,
         NEW u \in Nat \ {0}, NEW v \in Nat \ {0}, NEW w \in Nat \ {0},
         a * v >= b * u, b * w >= c * v
  PROVE  /\ a * w >= c * u
         /\ a * v > b * u \/ b * w > c * v => a * w > c * u
<1>1. /\ a * v \in Int /\ b * u \in Int /\ b * w \in Int /\ c * v \in Int
      /\ a * w \in Int /\ c * u \in Int
  OBVIOUS
<1>2. /\ w * (a * v) = v * (a * w) /\ w * (b * u) = u * (b * w)
      /\ u * (c * v) = v * (c * u)
  OBVIOUS
<1>3. /\ w * (a * v) >= w * (b * u) /\ u * (b * w) >= u * (c * v)
      /\ a * v > b * u => w * (a * v) > w * (b * u)
      /\ b * w > c * v => u * (b * w) > u * (c * v)
  BY <1>1, Cancelled
<1>4. /\ v * (a * w) \in Int /\ u * (b * w) \in Int /\ v * (c * u) \in Int
      /\ v * (a * w) >= v * (c * u) => a * w >= c * u
      /\ v * (a * w) > v * (c * u) => a * w > c * u
  BY <1>1, Cancelled
<1> QED BY <1>2, <1>3, <1>4

(* So that pairs by ratio, size and names are in a strict total order.      *)
LEMMA PairsInOrder ==
  /\ \A p \in Alike : ~PairBefore(p, p)
  /\ \A p, q, r \in Alike : PairBefore(p, q) /\ PairBefore(q, r) => PairBefore(p, r)
  /\ \A p, q \in Alike :
       p.left # q.left \/ p.right # q.right => PairBefore(p, q) \/ PairBefore(q, p)
<1>1. \A p \in Alike : /\ p.left \in Nat /\ p.right \in Nat /\ p.intersection \in Nat
                       /\ p.union \in Nat \ {0}
  BY DEF Alike
<1>2. \A p, q \in Alike :
        p.intersection * q.union \in Int /\ q.intersection * p.union \in Int
  BY <1>1
<1>3. \A p \in Alike : ~PairBefore(p, p)
  BY <1>1, <1>2 DEF PairBefore
<1>4. ASSUME NEW p \in Alike, NEW q \in Alike, NEW r \in Alike,
             PairBefore(p, q), PairBefore(q, r)
      PROVE  PairBefore(p, r)
  <2> DEFINE x == p.intersection * q.union
             y == q.intersection * p.union
             z == q.intersection * r.union
             t == r.intersection * q.union
             m == p.intersection * r.union
             n == r.intersection * p.union
  <2>1. /\ x > y \/ x = y
        /\ x >= y
        /\ z > t \/ z = t
        /\ z >= t
    BY <1>2, <1>4 DEF PairBefore
  <2>2. m >= n /\ (x > y \/ z > t => m > n)
    BY <1>1, <1>2, <2>1, SharesInOrder
  <2>3. m \in Int /\ n \in Int /\ x \in Int /\ y \in Int /\ z \in Int /\ t \in Int
    BY <1>2
  <2>4. PairBefore(p, q) <=> \/ x > y
                             \/ x = y /\ p.union > q.union
                             \/ x = y /\ p.union = q.union /\ p.left < q.left
                             \/ x = y /\ p.union = q.union /\ p.left = q.left /\ p.right < q.right
    BY DEF PairBefore
  <2>5. PairBefore(q, r) <=> \/ z > t
                             \/ z = t /\ q.union > r.union
                             \/ z = t /\ q.union = r.union /\ q.left < r.left
                             \/ z = t /\ q.union = r.union /\ q.left = r.left /\ q.right < r.right
    BY DEF PairBefore
  <2>6. PairBefore(p, r) <=> \/ m > n
                             \/ m = n /\ p.union > r.union
                             \/ m = n /\ p.union = r.union /\ p.left < r.left
                             \/ m = n /\ p.union = r.union /\ p.left = r.left /\ p.right < r.right
    BY DEF PairBefore
  <2> HIDE DEF x, y, z, t, m, n
  <2>7. CASE m > n
    BY <2>6, <2>7
  <2>8. CASE ~(m > n)
    <3>1. m = n /\ ~(x > y) /\ ~(z > t)
      BY <2>2, <2>3, <2>8
    <3> QED BY <1>1, <1>4, <2>4, <2>5, <2>6, <3>1
  <2> QED BY <2>7, <2>8
<1>5. ASSUME NEW p \in Alike, NEW q \in Alike, p.left # q.left \/ p.right # q.right
      PROVE  PairBefore(p, q) \/ PairBefore(q, p)
  BY <1>1, <1>2, <1>5 DEF PairBefore
<1> QED BY <1>3, <1>4, <1>5

(* Sorting a set of pairs loses none.                                       *)
LEMMA OrderedHasAll ==
  ASSUME NEW S \in SUBSET Alike, IsFiniteSet(S),
         \A p, q \in S : p # q => p.left # q.left \/ p.right # q.right
  PROVE  LET list == InOrder(S, PairBefore)
         IN  /\ Cardinality(S) \in Nat /\ DOMAIN list = 1 .. Cardinality(S)
             /\ list \in Seq({list[i] : i \in 1 .. Cardinality(S)})
             /\ Len(list) = Cardinality(S)
             /\ \A p \in S : \E i \in 1 .. Cardinality(S) : list[i] = p
<1> DEFINE list == InOrder(S, PairBefore)
           before == [p \in S |-> {q \in S : PairBefore(q, p)}]
           rank == [p \in S |-> Cardinality(before[p])]
<1>1. \A p \in S : IsFiniteSet(before[p]) /\ rank[p] \in Nat
  BY FS_Subset, FS_CardinalityType
<1>2. \A p \in S : rank[p] < Cardinality(S)
  <2> TAKE p \in S
  <2>1. before[p] \in SUBSET S /\ p \notin before[p]
    BY PairsInOrder
  <2>2. rank[p] = Cardinality(before[p])
    OBVIOUS
  <2> HIDE DEF before, rank
  <2> QED BY <2>1, <2>2, ProperSubset
<1>3. Cardinality(S) \in Nat
  BY FS_CardinalityType
<1>4. \A p, q \in S : PairBefore(p, q) => rank[p] < rank[q]
  <2> TAKE p, q \in S
  <2> HAVE PairBefore(p, q)
  <2>1. p \in before[q] /\ p \notin before[p]
    BY PairsInOrder
  <2>2. before[p] \in SUBSET before[q]
    BY PairsInOrder
  <2>3. rank[p] = Cardinality(before[p]) /\ rank[q] = Cardinality(before[q])
    OBVIOUS
  <2> HIDE DEF before, rank
  <2> QED BY <1>1, <2>1, <2>2, <2>3, ProperSubset
<1>5. \A p, q \in S : rank[p] = rank[q] => p = q
  <2> TAKE p, q \in S
  <2> HAVE rank[p] = rank[q]
  <2> SUFFICES ASSUME p # q
               PROVE  FALSE
    OBVIOUS
  <2>1. PairBefore(p, q) \/ PairBefore(q, p)
    BY PairsInOrder
  <2> HIDE DEF before, rank
  <2>2. rank[p] < rank[q] \/ rank[q] < rank[p]
    BY <1>4, <2>1
  <2>3. rank[p] \in Nat /\ rank[q] \in Nat
    BY <1>1
  <2> QED BY <2>2, <2>3
<1>6. \A p \in S : rank[p] = Cardinality({q \in S : PairBefore(q, p)})
  OBVIOUS
<1> HIDE DEF before, rank
<1>7. ASSUME NEW p \in S
      PROVE  rank[p] + 1 \in 1 .. Cardinality(S) /\ list[rank[p] + 1] = p
  <2> DEFINE i == rank[p] + 1
  <2>1. i \in 1 .. Cardinality(S) /\ i - 1 = rank[p]
    BY <1>1, <1>2, <1>3
  <2>2. list[i] = CHOOSE x \in S : Cardinality({y \in S : PairBefore(y, x)}) = i - 1
    BY <2>1 DEF InOrder
  <2>3. Cardinality({y \in S : PairBefore(y, p)}) = i - 1
    BY <1>6, <2>1
  <2>4. \A x \in S : Cardinality({y \in S : PairBefore(y, x)}) = i - 1 => x = p
    BY <1>5, <1>6, <2>1
  <2> HIDE DEF i
  <2>5. list[i] \in S /\ Cardinality({y \in S : PairBefore(y, list[i])}) = i - 1
    BY <2>2, <2>3
  <2>6. list[i] = p
    BY <2>4, <2>5
  <2> QED BY <2>1, <2>6 DEF i
<1>8. DOMAIN list = 1 .. Cardinality(S)
  BY DEF InOrder
<1>9. list = [i \in 1 .. Cardinality(S) |-> list[i]]
  <2> DEFINE At(i) == CHOOSE x \in S : Cardinality({y \in S : PairBefore(y, x)}) = i - 1
  <2>1. list = [i \in 1 .. Cardinality(S) |-> At(i)]
    BY DEF InOrder
  <2> HIDE DEF list, At
  <2> QED BY <2>1
<1> HIDE DEF list
<1>10. list \in Seq({list[i] : i \in 1 .. Cardinality(S)}) /\ Len(list) = Cardinality(S)
  BY <1>3, <1>8, <1>9
<1> QED BY <1>3, <1>7, <1>8, <1>10 DEF list

-----------------------------------------------------------------------------
(* What is reported of twins                                               *)

Configs == [near : Nat, minShared : Nat, maxPairs : Nat, minClass : Nat]

Shown(files, links, config) ==
  {c \in OpenGroups(files, links) \cup ClosedGroups(files, links) :
     SharedDistinct(links, c) >= config.minClass}

Qualifying(files, links, config) ==
  {p \in {Overlap(links, q[1], q[2]) :
            q \in {r \in NonIsolated(files, links) \X NonIsolated(files, links) :
                    /\ r[1] < r[2]
                    /\ {r[1], r[2]} \notin Partners(Shown(files, links, config),
                         OpenGroups(files, links) \cup ClosedGroups(files, links))}} :
     Qualifies(config, p)}

Sorted(files, links, config) == InOrder(Qualifying(files, links, config), PairBefore)

Reports(r, files, links, config, shown) ==
  LET open == OpenGroups(files, links)
      closed == ClosedGroups(files, links)
      sorted == Sorted(files, links, config)
  IN  /\ r.open = open \cap shown /\ r.closed = closed \cap shown
      /\ r.suppressed = Cardinality((open \cup closed) \ shown)
      /\ r.suppressedMembers = (UNION ((open \cup closed) \ shown)) \ (UNION shown)
      /\ r.members = UNION shown
      /\ r.scan = "Complete" /\ ~r.censored =>
           /\ ~ Len(sorted) > config.maxPairs
           /\ r.pairs = SubSeq(sorted, 1, IF Len(sorted) < config.maxPairs
                                        THEN Len(sorted) ELSE config.maxPairs)

(* The parts of a report, by name.                                          *)
LEMMA AnalysisIs ==
  ASSUME NEW files, NEW links, NEW config, NEW r, r = AnalyzeTwins(files, links, config)
  PROVE  Reports(r, files, links, config, Shown(files, links, config))
BY DEF AnalyzeTwins, Shown, Qualifying, Sorted, Reports

(* Overlap is the same from both sides but for the names.                   *)
LEMMA OverlapIs ==
  ASSUME NEW files, NEW links, Imports(files, links), NEW f, NEW g
  PROVE  /\ IsFiniteSet(Tagged(links, f, g))
         /\ Overlap(links, f, g).intersection \in Nat /\ Overlap(links, f, g).union \in Nat
         /\ Overlap(links, f, g).left = f /\ Overlap(links, f, g).right = g
         /\ Overlap(links, f, g).union = Overlap(links, g, f).union
         /\ Overlap(links, f, g) = [left |-> f, right |-> g,
                                   intersection |-> Overlap(links, f, g).intersection,
                                   union |-> Overlap(links, f, g).union]
<1>1. \A h, k : IsFiniteSet(Tagged(links, h, k))
  <2> TAKE h, k
  <2> DEFINE in == InSet(links, h) \ {k}
             out == OutSet(links, h) \ {k}
             entering == [x \in in |-> <<"in", x>>]
             leaving == [x \in out |-> <<"out", x>>]
  <2>1. in \in SUBSET files /\ out \in SUBSET files /\ IsFiniteSet(files)
    BY NeighborsAre DEF Imports
  <2>2. IsFiniteSet(in) /\ IsFiniteSet(out)
    <3> HIDE DEF in, out
    <3> QED BY <2>1, FS_Subset
  <2>3. Tagged(links, h, k) = {entering[x] : x \in in} \cup {leaving[x] : x \in out}
    BY DEF Tagged
  <2> HIDE DEF in, out, entering, leaving
  <2>4. IsFiniteSet({entering[x] : x \in in}) /\ IsFiniteSet({leaving[x] : x \in out})
    BY <2>2, FiniteImage
  <2> QED BY <2>3, <2>4, FS_Union
<1>2. /\ IsFiniteSet(Tagged(links, f, g) \cap Tagged(links, g, f))
      /\ IsFiniteSet(Tagged(links, f, g) \cup Tagged(links, g, f))
  <2>1. Tagged(links, f, g) \cap Tagged(links, g, f) \in SUBSET Tagged(links, f, g)
    OBVIOUS
  <2> QED BY <1>1, <2>1, FS_Subset, FS_Union
<1>3. Tagged(links, f, g) \cup Tagged(links, g, f) = Tagged(links, g, f) \cup Tagged(links, f, g)
  OBVIOUS
<1> QED BY <1>1, <1>2, <1>3, FS_CardinalityType DEF Overlap

(* Twins have all of their neighbors in common.                             *)
LEMMA TwinsOverlap ==
  ASSUME NEW files, NEW links, Imports(files, links), NEW f, NEW g,
         OpenTwins(links, f, g) \/ ClosedTwins(links, f, g)
  PROVE  Overlap(links, f, g).intersection = Overlap(links, f, g).union
<1>1. InSet(links, f) \ {g} = InSet(links, g) \ {f}
  BY NeighborsAre DEF OpenTwins, ClosedTwins
<1>2. OutSet(links, f) \ {g} = OutSet(links, g) \ {f}
  BY NeighborsAre DEF OpenTwins, ClosedTwins
<1>3. Tagged(links, f, g) = Tagged(links, g, f)
  BY <1>1, <1>2 DEF Tagged
<1>4. Tagged(links, f, g) \cap Tagged(links, g, f) = Tagged(links, f, g) \cup Tagged(links, g, f)
  BY <1>3
<1> QED BY <1>4 DEF Overlap

(* A complete list has every pair that qualifies.                           *)
LEMMA QualifyingListed ==
  ASSUME NEW files, NEW links, Imports(files, links), NEW config \in Configs,
         config.minShared > 0
  PROVE  LET all == Qualifying(files, links, config)
             sorted == InOrder(all, PairBefore)
         IN  /\ Len(sorted) \in Nat /\ DOMAIN sorted = 1 .. Len(sorted)
             /\ \A p \in all : \E i \in 1 .. Len(sorted) : sorted[i] = p
<1> DEFINE all == Qualifying(files, links, config)
           scanned == NonIsolated(files, links)
           overlap == [q \in scanned \X scanned |-> Overlap(links, q[1], q[2])]
<1>1. IsFiniteSet(scanned) /\ scanned \subseteq Nat
  BY ClassesAre DEF Imports
<1>2. all \in SUBSET {overlap[q] : q \in scanned \X scanned}
  BY DEF Qualifying
<1>3. IsFiniteSet(all)
  <2>1. IsFiniteSet(scanned \X scanned)
    BY <1>1, FS_Product
  <2>2. IsFiniteSet({overlap[q] : q \in scanned \X scanned})
    <3> HIDE DEF overlap, scanned
    <3> QED BY <2>1, FiniteImage
  <2> QED BY <1>2, <2>2, FS_Subset
<1>4. ASSUME NEW p \in all
      PROVE  /\ p \in Alike
             /\ p = Overlap(links, p.left, p.right)
  <2>1. PICK q \in scanned \X scanned : p = Overlap(links, q[1], q[2]) /\ Qualifies(config, p)
    BY DEF Qualifying
  <2>2. q[1] \in Nat /\ q[2] \in Nat
    BY <1>1, <2>1
  <2>3. p.left = q[1] /\ p.right = q[2]
    BY <2>1, OverlapIs
  <2>4. p.union >= config.minShared /\ config.minShared \in Nat
    BY <2>1 DEF Qualifies, Configs
  <2>5. /\ p = [left |-> q[1], right |-> q[2], intersection |-> p.intersection, union |-> p.union]
        /\ p.intersection \in Nat /\ p.union \in Nat
    BY <2>1, OverlapIs
  <2> QED BY <2>1, <2>2, <2>3, <2>4, <2>5 DEF Alike
<1>5. all \in SUBSET Alike
  BY <1>4
<1>6. \A p, q \in all : p # q => p.left # q.left \/ p.right # q.right
  BY <1>4
<1> HIDE DEF all
<1> QED BY <1>3, <1>5, <1>6, OrderedHasAll DEF all

(* A pair of twins that no class shows is among the pairs.                  *)
LEMMA TwinsListed ==
  ASSUME NEW files, NEW links, Imports(files, links), NEW config \in Configs,
         TwinsConfigError(config) = "ok",
         NEW f \in NonIsolated(files, links), NEW g \in NonIsolated(files, links), f < g,
         OpenTwins(links, f, g) \/ ClosedTwins(links, f, g),
         Overlap(links, f, g).union >= config.minShared,
         AnalyzeTwins(files, links, config).scan = "Complete",
         ~AnalyzeTwins(files, links, config).censored
  PROVE  LET r == AnalyzeTwins(files, links, config)
         IN  \/ Together(Shown(files, links, config), f, g)
             \/ \E i \in DOMAIN r.pairs : r.pairs[i].left = f /\ r.pairs[i].right = g
<1> DEFINE r == AnalyzeTwins(files, links, config)
           shown == Shown(files, links, config)
           classes == OpenGroups(files, links) \cup ClosedGroups(files, links)
           all == Qualifying(files, links, config)
           sorted == Sorted(files, links, config)
           p == Overlap(links, f, g)
<1>1. config.near \in 1 .. 100 /\ config.minShared \in Nat /\ config.minShared > 0
  BY DEF TwinsConfigError, Configs
<1>2. p.intersection = p.union /\ p.union \in Nat /\ p.left = f /\ p.right = g
  BY OverlapIs, TwinsOverlap
<1>3. Qualifies(config, p)
  <2> DEFINE u == p.union
             near == config.near
  <2>1. u \in Nat /\ near \in 1 .. 100 /\ u > 0
    BY <1>1, <1>2
  <2> HIDE DEF u, near
  <2>2. u * 100 >= near * u
    BY <2>1
  <2> QED BY <1>2, <2>1, <2>2 DEF Qualifies, u, near
<1>4. {f, g} \in Partners(shown, classes) => Together(shown, f, g)
  BY DEF Partners, Together
<1>5. {f, g} \notin Partners(shown, classes) => p \in all
  <2> HAVE {f, g} \notin Partners(shown, classes)
  <2>1. <<f, g>>[1] = f /\ <<f, g>>[2] = g
    OBVIOUS
  <2> QED BY <1>3, <2>1 DEF Qualifying
<1>6. /\ ~ Len(sorted) > config.maxPairs
      /\ r.pairs = SubSeq(sorted, 1, IF Len(sorted) < config.maxPairs
                                   THEN Len(sorted) ELSE config.maxPairs)
  <2>1. r.scan = "Complete" /\ ~r.censored
    OBVIOUS
  <2>2. r = AnalyzeTwins(files, links, config)
    OBVIOUS
  <2> HIDE DEF r, sorted
  <2>3. Reports(r, files, links, config, Shown(files, links, config))
    BY <2>2, AnalysisIs
  <2> QED BY <2>1, <2>3 DEF Reports, sorted
<1>7. /\ Len(sorted) \in Nat
      /\ p \in all => \E i \in 1 .. Len(sorted) : sorted[i] = p
  BY <1>1, QualifyingListed DEF Sorted
<1>8. config.maxPairs \in Nat
  BY DEF Configs
<1> HIDE DEF r, sorted, p, all
<1>9. r.pairs = SubSeq(sorted, 1, Len(sorted))
  BY <1>6, <1>7, <1>8
<1>10. DOMAIN r.pairs = 1 .. Len(sorted) /\ \A i \in 1 .. Len(sorted) : r.pairs[i] = sorted[i]
  BY <1>7, <1>9
<1> QED BY <1>2, <1>4, <1>5, <1>7, <1>10 DEF r

LEMMA SharedIsNat ==
  ASSUME NEW files, NEW links, Imports(files, links),
         NEW c \in OpenGroups(files, links) \cup ClosedGroups(files, links)
  PROVE  SharedDistinct(links, c) \in Nat
<1> DEFINE f == CHOOSE m \in c : TRUE
           around == (InSet(links, f) \cup OutSet(links, f)) \ c
<1>1. around \in SUBSET files /\ IsFiniteSet(files)
  BY NeighborsAre DEF Imports
<1>2. SharedDistinct(links, c) = Cardinality(around)
  BY DEF SharedDistinct
<1> HIDE DEF around
<1>3. IsFiniteSet(around)
  BY <1>1, FS_Subset
<1> QED BY <1>2, <1>3, FS_CardinalityType

(* Two files are reported as twins exactly when exchanging them leaves the  *)
(* graph as it was, as closed ones when they import each other, and no pair *)
(* is lost between the classes, the near twins and the ledger, for every    *)
(* graph and every valid configuration (analyze_twins).                     *)
THEOREM TwinsAreSound ==
  ASSUME NEW files, NEW links, Imports(files, links), NEW config \in Configs,
         TwinsConfigError(config) = "ok"
  PROVE  TwinsSound(files, links, config)
<1> DEFINE r == AnalyzeTwins(files, links, config)
           every == [config EXCEPT !.minClass = 0]
           full == AnalyzeTwins(files, links, every)
           open == OpenGroups(files, links)
           closed == ClosedGroups(files, links)
           shown == Shown(files, links, config)
           scanned == NonIsolated(files, links)
<1>1. Shown(files, links, every) = open \cup closed
  <2>1. every.minClass = 0
    BY DEF Configs
  <2>2. \A c \in open \cup closed : SharedDistinct(links, c) >= 0
    BY SharedIsNat
  <2> HIDE DEF every
  <2> QED BY <2>1, <2>2 DEF Shown
<1>2. /\ full.open = open /\ full.closed = closed /\ full.members = UNION (open \cup closed)
  <2>1. full = AnalyzeTwins(files, links, every)
    OBVIOUS
  <2> HIDE DEF every, full
  <2>2. Reports(full, files, links, every, open \cup closed)
    BY <1>1, <2>1, AnalysisIs
  <2> QED BY <2>2 DEF Reports
<1>3. /\ r.open = open \cap shown /\ r.closed = closed \cap shown
      /\ r.suppressed = Cardinality((open \cup closed) \ shown)
      /\ r.suppressedMembers = (UNION ((open \cup closed) \ shown)) \ (UNION shown)
      /\ r.members = UNION shown
  <2>1. r = AnalyzeTwins(files, links, config)
    OBVIOUS
  <2> HIDE DEF r
  <2>2. Reports(r, files, links, config, shown)
    BY <2>1, AnalysisIs
  <2> QED BY <2>2 DEF Reports
<1>4. shown \subseteq open \cup closed
  BY DEF Shown
<1>5. /\ IsFiniteSet(open) /\ IsFiniteSet(closed) /\ open \cap closed = {}
      /\ scanned \subseteq Nat
      /\ \A f, g \in scanned : f # g =>
           /\ Together(open, f, g) <=> OpenTwins(links, f, g)
           /\ Together(closed, f, g) <=> ClosedTwins(links, f, g)
  BY ClassesAre DEF Imports
<1>6. \A f, g \in scanned : f # g =>
        /\ Exchanged(Proper(links), f, g) = Proper(links)
              <=> OpenTwins(links, f, g) \/ ClosedTwins(links, f, g)
        /\ ClosedTwins(links, f, g) => <<f, g>> \in links /\ <<g, f>> \in links
        /\ OpenTwins(links, f, g) => <<f, g>> \notin links /\ <<g, f>> \notin links
  BY ExchangedIs, TwinsAreExchangeable
<1>7. ASSUME NEW f \in scanned, NEW g \in scanned, f # g,
             OpenTwins(links, f, g) \/ ClosedTwins(links, f, g),
             Overlap(links, f, g).union >= config.minShared,
             r.scan = "Complete", ~r.censored
      PROVE  \/ Together(shown, f, g)
             \/ \E i \in DOMAIN r.pairs : {r.pairs[i].left, r.pairs[i].right} = {f, g}
  <2>1. CASE f < g
    <3>1. \/ Together(shown, f, g)
          \/ \E i \in DOMAIN r.pairs : r.pairs[i].left = f /\ r.pairs[i].right = g
      BY <1>7, <2>1, TwinsListed
    <3> QED BY <3>1
  <2>2. CASE g < f
    <3>1. OpenTwins(links, g, f) \/ ClosedTwins(links, g, f)
      BY <1>7 DEF OpenTwins, ClosedTwins
    <3>2. Overlap(links, g, f).union >= config.minShared
      BY <1>7, OverlapIs
    <3>3. \/ Together(shown, g, f)
          \/ \E i \in DOMAIN r.pairs : r.pairs[i].left = g /\ r.pairs[i].right = f
      BY <1>7, <2>2, <3>1, <3>2, TwinsListed
    <3>4. Together(shown, g, f) => Together(shown, f, g)
      BY DEF Together
    <3> HIDE DEF r, shown
    <3> QED BY <3>3, <3>4
  <2> QED BY <1>5, <1>7, <2>1, <2>2
<1>8. Cardinality(full.open) + Cardinality(full.closed)
        = Cardinality(r.open) + Cardinality(r.closed) + r.suppressed
  <2> DEFINE a == open \cap shown
             b == closed \cap shown
             d == (open \cup closed) \ shown
  <2> HIDE DEF open, closed, shown
  <2>1. a \in SUBSET open /\ b \in SUBSET closed /\ IsFiniteSet(open \cup closed)
    BY <1>5, FS_Union
  <2>2. IsFiniteSet(a) /\ IsFiniteSet(b) /\ IsFiniteSet(d)
    BY <1>5, <2>1, FS_Subset
  <2>3. a \cap b = {} /\ (a \cup b) \cap d = {} /\ (a \cup b) \cup d = open \cup closed
    BY <1>5
  <2> HIDE DEF a, b, d
  <2>4. /\ IsFiniteSet(a \cup b) /\ Cardinality(a \cup b) = Cardinality(a) + Cardinality(b)
    BY <2>2, <2>3, SizeOfBoth
  <2>5. Cardinality((a \cup b) \cup d) = Cardinality(a \cup b) + Cardinality(d)
    BY <2>2, <2>3, <2>4, SizeOfBoth
  <2>6. Cardinality(open \cup closed) = Cardinality(open) + Cardinality(closed)
    BY <1>5, SizeOfBoth
  <2> QED BY <1>2, <1>3, <2>3, <2>4, <2>5, <2>6 DEF a, b, d
<1>9. /\ r.members \cup r.suppressedMembers = full.members
      /\ r.members \cap r.suppressedMembers = {}
  <2> HIDE DEF r, full, shown, open, closed
  <2> QED BY <1>2, <1>3, <1>4
<1>10. \A f, g \in scanned : f # g =>
         /\ Together(full.open \cup full.closed, f, g)
               <=> Exchanged(Proper(links), f, g) = Proper(links)
         /\ Together(full.closed, f, g) => <<f, g>> \in links /\ <<g, f>> \in links
         /\ Together(full.open, f, g) => ~(<<f, g>> \in links /\ <<g, f>> \in links)
  <2> TAKE f, g \in scanned
  <2> HAVE f # g
  <2>1. Together(open \cup closed, f, g) <=> Together(open, f, g) \/ Together(closed, f, g)
    BY DEF Together
  <2> HIDE DEF full, open, closed, scanned
  <2> QED BY <1>2, <1>5, <1>6, <2>1
<1>11. r.open \cup r.closed = shown
  <2> HIDE DEF r, shown, open, closed
  <2> QED BY <1>3, <1>4
<1>12. \A f, g \in scanned : f # g =>
         ((/\ Exchanged(Proper(links), f, g) = Proper(links)
           /\ Overlap(links, f, g).union >= config.minShared
           /\ r.scan = "Complete" /\ ~r.censored) =>
            \/ Together(r.open \cup r.closed, f, g)
            \/ \E i \in DOMAIN r.pairs : {r.pairs[i].left, r.pairs[i].right} = {f, g})
  <2> HIDE DEF r, shown, scanned
  <2> QED BY <1>6, <1>7, <1>11
<1>13. \A f, g \in scanned : f # g =>
         /\ Together(full.open \cup full.closed, f, g)
               <=> Exchanged(Proper(links), f, g) = Proper(links)
         /\ Together(full.closed, f, g) => <<f, g>> \in links /\ <<g, f>> \in links
         /\ Together(full.open, f, g) => ~(<<f, g>> \in links /\ <<g, f>> \in links)
         /\ ((/\ Exchanged(Proper(links), f, g) = Proper(links)
              /\ Overlap(links, f, g).union >= config.minShared
              /\ r.scan = "Complete" /\ ~r.censored) =>
               \/ Together(r.open \cup r.closed, f, g)
               \/ \E i \in DOMAIN r.pairs : {r.pairs[i].left, r.pairs[i].right} = {f, g})
  <2> HIDE DEF r, full, scanned
  <2> QED BY <1>10, <1>12
<1> HIDE DEF r, full, scanned
<1> QED BY <1>8, <1>9, <1>13, SMTT(30) DEF TwinsSound, Together, Proper, r, full, scanned
=============================================================================
