------------------------ MODULE MCCriterionPipeline ------------------------
(* Programs that use nothing, something, everything and too much.           *)
EXTENDS CriterionPipeline

CONSTANTS c1, c2

Use(usd, wall, invocations) ==
  [usd |-> usd, wall |-> wall, programs |-> invocations]

Vectors == {Use(0, 0, 0), Use(1, 1, 0), Use(2, 0, 0),
            Use(0, 2, 1), Use(-1, 0, 0), Use(0, 0, 3)}

Updates == {<<>>, <<[claim |-> c1, p |-> 1]>>, <<[claim |-> c2, p |-> 0]>>,
            <<[claim |-> c1, p |-> 2]>>,
            <<[claim |-> c1, p |-> 0], [claim |-> c1, p |-> 1]>>}

Decisions == {<<>>, <<c1>>, <<c1, c1>>}

Belief(S, p) == [probabilities |-> [c \in S |-> p], digests |-> <<>>]

Priors == {Belief({}, 0), Belief({c1, c2}, 0), Belief({c1}, 2)}

Budgets == {Use(1, 2, 2), Use(0, 2, 3), Use(2, 1, 1),
            Use(-1, 2, 2)}
=============================================================================
