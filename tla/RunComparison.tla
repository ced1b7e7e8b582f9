---------------------------- MODULE RunComparison ----------------------------
(* The comparison of two complete evaluation runs, number by number         *)
(* (src/src/compare.rs).                                                    *)
(*                                                                          *)
(* A JSON value has a type; a number is an integer, or a float; a key is a  *)
(* sequence of characters.  Differences are exact here and refused beyond   *)
(* LargestFloat, where the code's would not be finite.                      *)
EXTENDS Integers, Sequences, FiniteSets, SequencesExt

CONSTANTS
  Significand,  \* bits of a float's significand: 53 in the code
  LargestFloat       \* the largest finite float

ASSUME FloatAssumption == Significand \in Nat \ {0} /\ LargestFloat \in Nat

Magnitude(n) == IF n < 0 THEN -n ELSE n

(* Whether a float has room for an integer.                                 *)
Exact(n) ==
  \E k \in 0..Significand : Magnitude(n) % 2 ^ k = 0 /\ Magnitude(n) \div 2 ^ k < 2 ^ Significand

FiniteExact(v) == Magnitude(v.value) <= LargestFloat /\ (v.float \/ Exact(v.value))

(* "~" is written "~0" and "/" is written "~1", so that no key looks like a *)
(* path of two; "~" goes first, or the "~" of a "~1" would be escaped too.  *)
ReplaceCharacter(token, c, by) ==
  FoldLeft(LAMBDA out, x : out \o (IF x = c THEN by ELSE <<x>>), <<>>, token)

EscapePointerToken_SlashFirst(token) ==
  ReplaceCharacter(ReplaceCharacter(token, "/", <<"~", "1">>), "~", <<"~", "0">>)

EscapePointerToken(token) ==
  ReplaceCharacter(ReplaceCharacter(token, "~", <<"~", "0">>), "/", <<"~", "1">>)

PointerPath(path, token) == path \o <<"/">> \o token

Digit == <<"0", "1", "2", "3", "4", "5", "6", "7", "8", "9">>

(* The numeric leaves of a value, in order: pairs of a path and a number.   *)
RECURSIVE LeavesAt(_, _)
LeavesAt(value, path) ==
  CASE value.type = "number" -> << <<path, value>> >>
    [] value.type = "array"  ->
         FoldLeft(LAMBDA out, i :
                    out \o LeavesAt(value.items[i], PointerPath(path, <<Digit[i]>>)),
                  <<>>, [i \in DOMAIN value.items |-> i])
    [] value.type = "object" ->
         FoldLeft(LAMBDA out, m :
                    out \o LeavesAt(m[2], PointerPath(path, EscapePointerToken(m[1]))),
                  <<>>, value.members)
    [] OTHER -> <<>>

(* The first leaf that is no exact number, or whose path is there already,  *)
(* ends the collection.                                                     *)
LeafError(leaves) ==
  LET bad == {i \in DOMAIN leaves : ~FiniteExact(leaves[i][2])}
      twice == {i \in DOMAIN leaves : \E j \in 1..(i - 1) : leaves[i][1] = leaves[j][1]}
      first == CHOOSE i \in bad \cup twice : \A j \in bad \cup twice : i <= j
  IN  IF bad \cup twice = {} THEN "ok"
      ELSE IF first \in bad THEN "InvalidNumericValue" ELSE "DuplicateNumericPath"

Paths(leaves) == {leaves[i][1] : i \in DOMAIN leaves}

At(leaves, path) == (CHOOSE i \in DOMAIN leaves : leaves[i][1] = path)

DescriptorFields == <<"id", "version", "criterion", "epistemicClass", "deterministic">>

Difference(path, left, right) ==
  [path |-> path, left |-> left, right |-> right, rightMinusLeft |-> right - left,
   relativeChange |-> IF left = 0 THEN {} ELSE {<<right - left, Magnitude(left)>>}]

(* The differences of one step, or why there are none.                      *)
CompareStep(left, right) ==
  LET Step(error, differences) ==
        [error |-> error,
         program |-> IF error = "ok" THEN [id |-> left.program.id,
                                           criterion |-> left.program.criterion,
                                           differences |-> differences]
                     ELSE [id |-> left.program.id]]
      Error(l, r, differences) ==
        IF \E i \in DOMAIN DescriptorFields :
             left.program[DescriptorFields[i]] # right.program[DescriptorFields[i]]
        THEN "ProgramDescriptorMismatch"
        ELSE IF left.status # "Completed" \/ right.status # "Completed" THEN "IncompleteProgram"
        ELSE IF left.observation.type = "none" \/ right.observation.type = "none"
        THEN "MissingObservation"
        ELSE IF LeafError(l) # "ok" THEN LeafError(l)
        ELSE IF LeafError(r) # "ok" THEN LeafError(r)
        ELSE IF Paths(l) # Paths(r) THEN "UnmatchedNumericPaths"
        ELSE IF \E d \in differences : Magnitude(d.rightMinusLeft) > LargestFloat
        THEN "NonFiniteDifference" ELSE "ok"
      Differing(l, r, differences) == Step(Error(l, r, differences), differences)
      Leaves(l, r) ==
        Differing(l, r, {Difference(p, l[At(l, p)][2].value, r[At(r, p)][2].value) : p \in Paths(l)})
  IN  Leaves(LeavesAt(left.observation, <<>>), LeavesAt(right.observation, <<>>))

CompareEvaluationRuns(left, right) ==
  LET Programs(error, steps) ==
        [error |-> error,
         programs |-> IF error = "ok" THEN [i \in DOMAIN steps |-> steps[i].program] ELSE <<>>]
      Error(steps, failed) ==
        IF left.stoppedReason # "Complete" \/ right.stoppedReason # "Complete"
        THEN "IncompleteRun"
        ELSE IF left.artifact = right.artifact THEN "IdenticalArtifact"
        ELSE IF left.steps = <<>> /\ right.steps = <<>> THEN "EmptyProgramSequence"
        ELSE IF Len(left.steps) # Len(right.steps) THEN "ProgramCountMismatch"
        ELSE IF failed # 0 THEN steps[failed].error ELSE "ok"
      Steps(steps) ==
        Programs(Error(steps, SelectInSeq(steps, LAMBDA s : s.error # "ok")), steps)
  IN  Steps([i \in DOMAIN left.steps \cap DOMAIN right.steps |->
               CompareStep(left.steps[i], right.steps[i])])

-----------------------------------------------------------------------------
(* Where a number is, as the sequence of the keys that lead to it.          *)
RECURSIVE Located(_, _)
Located(value, keys) ==
  CASE value.type = "number" -> {<<keys, value.value>>}
    [] value.type = "array"  ->
         UNION {Located(value.items[i], Append(keys, <<Digit[i]>>)) : i \in DOMAIN value.items}
    [] value.type = "object" ->
         UNION {Located(value.members[i][2], Append(keys, value.members[i][1])) :
                  i \in DOMAIN value.members}
    [] OTHER -> {}

(* Two runs compare in one order exactly when they do in the other, the     *)
(* differences being the same but for their sign; every number of either    *)
(* run is compared, with the number at the same place and no other; and     *)
(* runs of complete programs that have their numbers at the same places,    *)
(* all of them exact, are never refused for them (compare_evaluation_runs). *)
ComparedSound(left, right, there, back) ==
  LET Places(run, i) == Located(run.steps[i].observation, <<>>)
      Keys(run, i) == {p[1] : p \in Places(run, i)}
      Fits(run, i) == \A p \in Places(run, i) : 2 * Magnitude(p[2]) <= LargestFloat /\ Exact(p[2])
  IN  /\ (there.error = "ok") <=> (back.error = "ok")
      /\ there.error = "ok" =>
           \A i \in DOMAIN left.steps :
             LET d == there.programs[i].differences
                 e == back.programs[i].differences
             IN  /\ {[x EXCEPT !.left = x.right, !.right = x.left,
                               !.rightMinusLeft = -x.rightMinusLeft, !.relativeChange = {}] :
                       x \in d} = {[x EXCEPT !.relativeChange = {}] : x \in e}
                 /\ Cardinality(d) = Cardinality(Places(left, i))
                 /\ Keys(left, i) = Keys(right, i)
                 /\ {<<x.left, x.right>> : x \in d}
                      = {<<p[2], (CHOOSE q \in Places(right, i) : q[1] = p[1])[2]>> :
                           p \in Places(left, i)}
      /\ \/ ~(\A i \in DOMAIN left.steps \cap DOMAIN right.steps :
                Keys(left, i) = Keys(right, i) /\ Fits(left, i) /\ Fits(right, i))
         \/ there.error \notin {"InvalidNumericValue", "DuplicateNumericPath",
                                "UnmatchedNumericPaths", "NonFiniteDifference"}

ComparisonSound(left, right) ==
  ComparedSound(left, right, CompareEvaluationRuns(left, right),
                CompareEvaluationRuns(right, left))
=============================================================================
