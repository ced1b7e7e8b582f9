-------------------------- MODULE GraphCertificates --------------------------
(* Exact certificates about the components of the file graph: a lower bound *)
(* on conductance (src/src/conductance.rs), trophic incoherence             *)
(* (src/src/trophic.rs) and bounds on a spectral radius                     *)
(* (src/src/spectral.rs).  A component is a set of files, a matrix is a     *)
(* function of its two indexes, and every number is an exact rational.      *)
(* What a computation refuses to certify is the set of no results.          *)
EXTENDS Integers, FiniteSets, FiniteSetsExt, Sequences

CONSTANTS
  NodeLimit,       \* CONDUCTANCE_, TROPHIC_ and SPECTRAL_NODE_LIMIT
  Power,           \* CONDUCTANCE_DENOMINATOR_POWER
  MaxIterations,   \* SPECTRAL_MAX_ITERATIONS
  Width            \* the width of bounds that ends the spectral iteration

ASSUME CertificateAssumption ==
  /\ NodeLimit \in Nat /\ Power \in Nat /\ MaxIterations \in Nat \ {0}
  /\ Width[1] \in Nat \ {0} /\ Width[2] \in Nat \ {0}

-----------------------------------------------------------------------------
(* Exact rationals, as the numerator and the positive denominator of a      *)
(* reduced fraction, so that equal numbers are equal values.                *)

Abs(n) == IF n < 0 THEN -n ELSE n

Gcd[a \in Nat, b \in Nat] == IF b = 0 THEN a ELSE Gcd[b, a % b]

Ratio(n, d) ==
  LET g == Gcd[Abs(n), Abs(d)]
      s == IF d < 0 THEN -1 ELSE 1
  IN  <<(s * n) \div g, (s * d) \div g>>

Whole(n) == <<n, 1>>

Plus(x, y)  == Ratio(x[1] * y[2] + y[1] * x[2], x[2] * y[2])
Minus(x, y) == Ratio(x[1] * y[2] - y[1] * x[2], x[2] * y[2])
Times(x, y) == Ratio(x[1] * y[1], x[2] * y[2])
Over(x, y)  == Ratio(x[1] * y[2], x[2] * y[1])

IsZero(x) == x[1] = 0
Below(x, y) == x[1] * y[2] < y[1] * x[2]
AtMost(x, y) == ~Below(y, x)

Total(S, F(_)) == MapThenFoldSet(Plus, Whole(0), F, LAMBDA T : CHOOSE x \in T : TRUE, S)
Largest(S) == CHOOSE x \in S : \A y \in S : AtMost(y, x)
Least(S) == CHOOSE x \in S : \A y \in S : AtMost(x, y)

-----------------------------------------------------------------------------
Denominator == 2 ^ Power

DegreeIn(edges, f) == Cardinality({e \in edges : f \in e})

(* Breadth first from every file that no component has.                     *)
ConnectedComponents(files, edges) ==
  LET Around(S) == S \cup UNION {e \in edges : e \cap S # {}}
      Grown[k \in Nat, f \in files] == IF k = 0 THEN {f} ELSE Around(Grown[k - 1, f])
  IN  {Grown[Cardinality(files), f] : f \in files}

-----------------------------------------------------------------------------
(* Conductance.                                                             *)

(* The pencil 2^b L - a D of the component's graph, at the probe a.         *)
Pencil(component, edges, a) ==
  [p \in component \X component |->
     IF p[1] = p[2] THEN Whole((Denominator - a) * DegreeIn(edges, p[1]))
     ELSE IF {p[1], p[2]} \in edges THEN Whole(-Denominator) ELSE Whole(0)]

(* The signs of the eigenvalues, by eliminating one index with a diagonal   *)
(* entry that is not zero, or two of which only the cross entry is not.     *)
NoInertia == [positive |-> 0, zero |-> 0, negative |-> 0]

RECURSIVE Inertia(_, _, _)
Inertia(matrix, left, found) ==
  LET diagonal == {i \in left : ~IsZero(matrix[i, i])}
      cross == {p \in left \X left : p[1] < p[2] /\ ~IsZero(matrix[p[1], p[2]])}
      Without(gone, Correction(_, _)) ==
        [p \in (left \ gone) \X (left \ gone) |->
           Minus(matrix[p], Correction(p[1], p[2]))]
  IN  IF diagonal # {}
      THEN LET k == Min(diagonal)
               sign == IF matrix[k, k][1] > 0 THEN "positive" ELSE "negative"
           IN  Inertia(Without({k}, LAMBDA i, j :
                         Over(Times(matrix[i, k], matrix[j, k]), matrix[k, k])),
                       left \ {k}, [found EXCEPT ![sign] = @ + 1])
      ELSE IF cross # {}
      THEN LET p == CHOOSE q \in cross :
                      \A r \in cross : q[1] < r[1] \/ (q[1] = r[1] /\ q[2] <= r[2])
           IN  Inertia(Without({p[1], p[2]}, LAMBDA i, j :
                         Over(Plus(Times(matrix[i, p[1]], matrix[j, p[2]]),
                                   Times(matrix[i, p[2]], matrix[j, p[1]])), matrix[p])),
                       left \ {p[1], p[2]},
                       [found EXCEPT !.positive = @ + 1, !.negative = @ + 1])
      ELSE [found EXCEPT !.zero = @ + Cardinality(left)]

PencilInertia(component, edges, a) ==
  Inertia(Pencil(component, edges, a), component, NoInertia)

CertifiesProbe(negative) == negative = 1

(* The bisection, with the probes it has counted so far: their counts must  *)
(* not fall.                                                                *)
RECURSIVE Bisect(_, _, _, _, _)
Bisect(component, edges, certified, rejected, probes) ==
  LET probe == certified + (rejected - certified) \div 2
      negative == PencilInertia(component, edges, probe).negative
      counted == [a \in DOMAIN probes \cup {probe} |->
                    IF a = probe THEN negative ELSE probes[a]]
  IN  IF rejected - certified <= 1 THEN {certified}
      ELSE IF negative = 0 \/ \E a, b \in DOMAIN counted :
                                a < b /\ counted[a] > counted[b] THEN {}
      ELSE IF CertifiesProbe(negative)
           THEN Bisect(component, edges, probe, rejected, counted)
           ELSE Bisect(component, edges, certified, probe, counted)

BisectLambda2(component, edges, negativeAtZero) ==
  LET most == 2 * Denominator
      atMost == PencilInertia(component, edges, most).negative
  IN  IF atMost <= 1 THEN {}
      ELSE Bisect(component, edges, 0, most,
                  [a \in {0, most} |-> IF a = 0 THEN negativeAtZero ELSE atMost])

ConductanceCertificate(component, edges) ==
  LET inside == {e \in edges : e \subseteq component}
      atZero == PencilInertia(component, inside, 0)
      expected == [positive |-> Cardinality(component) - 1, zero |-> 1, negative |-> 0]
      bound == BisectLambda2(component, inside, atZero.negative)
  IN  IF Cardinality(component) > NodeLimit
      THEN [status |-> "SizeLimit", numerator |-> {}]
      ELSE IF atZero # expected THEN [status |-> "Failed", numerator |-> {}]
      ELSE IF Cardinality(component) < 3
      THEN [status |-> "TrivialSmall", numerator |-> {}]
      ELSE [status |-> IF bound = {} THEN "Failed" ELSE "Certified", numerator |-> bound]

-----------------------------------------------------------------------------
(* Trophic incoherence.                                                     *)

(* Gaussian elimination with the first row that has a pivot, then back      *)
(* substitution; no solution when a pivot is missing.  Rows are counted.    *)
RECURSIVE Eliminated(_, _)
Eliminated(rows, k) ==
  LET n == Len(rows)
      pivots == {i \in k..n : ~IsZero(rows[i][k])}
      at == Min(pivots)
      swapped == [rows EXCEPT ![k] = rows[at], ![at] = rows[k]]
      Reduced(i) ==
        LET factor == Over(swapped[i][k], swapped[k][k])
        IN  [j \in DOMAIN rows[i] |-> Minus(swapped[i][j], Times(factor, swapped[k][j]))]
  IN  IF k > n THEN {rows}
      ELSE IF pivots = {} THEN {}
      ELSE Eliminated([i \in 1..n |-> IF i <= k THEN swapped[i] ELSE Reduced(i)], k + 1)

(* The last column of a row is its right-hand side.                         *)
SolveExactLinearSystem(rows) ==
  LET n == Len(rows)
      Solved(r) ==
        LET x[i \in 1..n] ==
              Over(Minus(r[i][n + 1], Total((i + 1)..n, LAMBDA j : Times(r[i][j], x[j]))),
                   r[i][i])
        IN  [i \in 1..n |-> x[i]]
  IN  {Solved(r) : r \in Eliminated(rows, 1)}

(* The Laplacian of the directed edges, counted without their direction,    *)
(* and the imbalance of edges in over edges out.                            *)
Laplacian(edges, f, g) ==
  IF f = g THEN Cardinality({e \in edges : e[1] # e[2] /\ f \in {e[1], e[2]}})
  ELSE -Cardinality({e \in edges : e \in {<<f, g>>, <<g, f>>}})

Imbalance(edges, f) ==
  Cardinality({e \in edges : e[2] = f}) - Cardinality({e \in edges : e[1] = f})

(* Levels, the first file's being zero.  An edge that climbs one level has  *)
(* no error; without the unit step the error would be of levels alone.      *)
Levels(component, edges) ==
  LET Nth(i) == CHOOSE f \in component : Cardinality({g \in component : g < f}) = i
      n == Cardinality(component) - 1
      rows == [i \in 1..n |-> [j \in 1..(n + 1) |->
                 Whole(IF j = n + 1 THEN Imbalance(edges, Nth(i))
                       ELSE Laplacian(edges, Nth(i), Nth(j)))]]
  IN  {[f \in component |->
          LET i == Cardinality({g \in component : g < f})
          IN  IF i = 0 THEN Whole(0) ELSE x[i]] : x \in SolveExactLinearSystem(rows)}

EdgeError_NoStep(levels, e) == Minus(levels[e[2]], levels[e[1]])

EdgeError(levels, e) == Minus(Minus(levels[e[2]], levels[e[1]]), Whole(1))

SquaredError(levels, edges) ==
  Total(edges, LAMBDA e : Times(EdgeError(levels, e), EdgeError(levels, e)))

ResidualFree(levels, component, edges) ==
  \A f \in component :
    Total(component, LAMBDA g : Times(Whole(Laplacian(edges, f, g)), levels[g]))
      = Whole(Imbalance(edges, f))

TrophicComponent(component, edges) ==
  LET inside == {e \in edges : e[1] \in component /\ e[2] \in component}
      m == Cardinality(inside)
      F0(levels) == Over(SquaredError(levels, inside), Whole(m))
      sound == {x \in Levels(component, inside) :
                  /\ ResidualFree(x, component, inside)
                  /\ AtMost(F0(x), Whole(1))
                  /\ (Cardinality(component) = 2 /\ m = 1) => IsZero(F0(x))}
  IN  IF m = 0 THEN [status |-> "TrivialNoEdges", edges |-> 0, levels |-> {}]
      ELSE IF Cardinality(component) > NodeLimit
      THEN [status |-> "SizeLimit", edges |-> m, levels |-> {}]
      ELSE [status |-> IF sound = {} THEN "Failed" ELSE "Computed",
            edges |-> m, levels |-> sound]

(* The mean over all edges, unless one component is too large for it.       *)
TrophicIncoherence(files, edges) ==
  LET undirected == {{e[1], e[2]} : e \in {x \in edges : x[1] # x[2]}}
      rows == [c \in ConnectedComponents(files, undirected) |-> TrophicComponent(c, edges)]
      Error(c) == Total(rows[c].levels, LAMBDA x :
                    SquaredError(x, {e \in edges : e[1] \in c}))
      limited == \E c \in DOMAIN rows : rows[c].status = "SizeLimit"
  IN  [status |-> IF edges = {} THEN "TrivialNoEdges"
                  ELSE IF \E c \in DOMAIN rows : rows[c].status = "Failed" THEN "Failed"
                  ELSE IF limited THEN "SizeLimit" ELSE "Computed",
       rows |-> rows,
       f0 |-> IF edges = {} \/ limited THEN {}
              ELSE {Over(Total(DOMAIN rows, Error), Whole(Cardinality(edges)))}]

-----------------------------------------------------------------------------
(* Spectral radius of a strongly connected component, from the ratios of a  *)
(* positive vector and its image under the adjacency shifted by one.        *)

MultiplyShifted(edges, vector) ==
  [f \in DOMAIN vector |->
     Plus(vector[f], Total({e[2] : e \in {x \in edges : x[1] = f}}, LAMBDA g : vector[g]))]

CollatzBounds(vector, image) ==
  LET ratios == {Minus(Over(image[f], vector[f]), Whole(1)) : f \in DOMAIN vector}
  IN  [lower |-> Least(ratios), upper |-> Largest(ratios)]

NormalizePositive(vector) ==
  LET most == Largest({vector[f] : f \in DOMAIN vector})
  IN  [f \in DOMAIN vector |-> Over(vector[f], most)]

Narrower(a, b) == Below(Minus(a.upper, a.lower), Minus(b.upper, b.lower))

(* The narrowest bounds of all iterations are kept, the first of equal ones.*)
RECURSIVE Iterate(_, _, _, _)
Iterate(edges, vector, best, iteration) ==
  LET image == MultiplyShifted(edges, vector)
      bounds == CollatzBounds(vector, image)
      kept == IF best = {} \/ \E b \in best : Narrower(bounds, b) THEN {bounds} ELSE best
  IN  IF Below(bounds.lower, Whole(1)) THEN {}
      ELSE IF \/ Below(Minus(bounds.upper, bounds.lower), Width)
              \/ iteration = MaxIterations
      THEN kept
      ELSE Iterate(edges, NormalizePositive(image), kept, iteration + 1)

SpectralCertificate(component, edges) ==
  LET inside == {e \in edges : e[1] \in component /\ e[2] \in component}
      stuck == {f \in component : \A e \in inside : e[1] # f}
      bounds == Iterate(inside, [f \in component |-> Whole(1)], {}, 1)
      twoCycle == Cardinality(component) = 2 /\ Cardinality(inside) = 2
      exact == twoCycle => \A b \in bounds : b.lower = Whole(1) /\ b.upper = Whole(1)
  IN  IF Cardinality(component) < 2 THEN [status |-> "TrivialSmall", bounds |-> {}]
      ELSE IF Cardinality(component) > NodeLimit
      THEN [status |-> "SizeLimit", bounds |-> {}]
      ELSE IF stuck # {} \/ bounds = {} \/ ~exact
      THEN [status |-> "Failed", bounds |-> {}]
      ELSE [status |-> "Certified", bounds |-> bounds]

-----------------------------------------------------------------------------
(* What the certificates say.                                               *)

(* No cut of the component has less conductance than certified, and the     *)
(* bound is the best of its denominator where the eigenvalue is known.      *)
ConductanceSound(component, edges) ==
  LET c == ConductanceCertificate(component, edges)
      Volume(S) == MapThenSumSet(LAMBDA f : DegreeIn(edges, f), S)
      Cut(S) == Cardinality({e \in edges : e \cap S # {} /\ e \cap (component \ S) # {}})
      n == Cardinality(component)
      complete == \A f, g \in component : f # g => {f, g} \in edges
  IN  /\ c.status # "Failed"
      /\ \A a \in c.numerator :
           /\ \A S \in (SUBSET component) \ {{}, component} :
                2 * Denominator * Cut(S)
                  >= a * (IF Volume(S) < Volume(component \ S) THEN Volume(S)
                          ELSE Volume(component \ S))
           /\ complete => a = (n * Denominator) \div (n - 1)

(* The levels found leave the least squared error there is: none exactly    *)
(* when the component is layered, all of it when every file imports as many *)
(* files as import it.                                                      *)
TrophicSound(component, edges) ==
  LET c == TrophicComponent(component, edges)
      whole == [component -> 0..(Cardinality(component) - 1)]
  IN  /\ c.status # "Failed"
      /\ \A x \in c.levels :
           LET error == SquaredError(x, edges)
           IN  /\ \A y \in whole :
                    AtMost(error, SquaredError([f \in component |-> Whole(y[f])], edges))
               /\ IsZero(error) <=>
                    \E y \in whole : \A e \in edges : y[e[2]] = y[e[1]] + 1
               /\ error = Whole(c.edges) <=> \A f \in component : Imbalance(edges, f) = 0

(* Whatever vector another reader tries, its bounds and the certified ones  *)
(* have a number in common: both enclose the same radius.                   *)
SpectralSound(component, edges) ==
  LET c == SpectralCertificate(component, edges)
      inside == {e \in edges : e[1] \in component /\ e[2] \in component}
      Tried(v) == LET x == [f \in component |-> Whole(v[f])]
                  IN  [lower |-> Minus(Least({Over(MultiplyShifted(inside, x)[f], x[f]) :
                                                f \in component}), Whole(1)),
                       upper |-> Minus(Largest({Over(MultiplyShifted(inside, x)[f], x[f]) :
                                                  f \in component}), Whole(1))]
  IN  /\ c.status # "Failed"
      /\ \A b \in c.bounds : \A v \in [component -> 1..2] :
           AtMost(Tried(v).lower, b.upper) /\ AtMost(b.lower, Tried(v).upper)
=============================================================================
