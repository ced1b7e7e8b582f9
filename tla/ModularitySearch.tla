-------------------------- MODULE ModularitySearch --------------------------
(* What the detection of communities promises: from every file on its own,  *)
(* a partition of the files climbs in modularity, one group of files at a   *)
(* time changing its community, and no community is ever split by more than *)
(* that.                                                                    *)
EXTENDS Integers, FiniteSets, FiniteSetsExt

VARIABLES
  graph,      \* the undirected edges, sets of two files
  partition   \* the communities: a partition of the files

(* The numerator of modularity over 4m^2, as the layout reports it.         *)
Modularity(edges, blocks) ==
  LET Intra(b) == Cardinality({e \in edges : e \subseteq b})
      Degree(b) == MapThenSumSet(LAMBDA e : Cardinality(e \cap b), edges)
  IN  MapThenSumSet(
        LAMBDA b : 4 * Cardinality(edges) * Intra(b) - Degree(b) * Degree(b), blocks)

Init == partition = {{f} : f \in UNION partition}

(* A group leaves its community for another one that exists.                *)
Regroup ==
  \E home, host \in partition : \E group \in (SUBSET home) \ {{}} :
    /\ home # host
    /\ partition' = ((partition \ {home, host})
                       \cup {home \ group, host \cup group}) \ {{}}
    /\ Modularity(graph, partition') > Modularity(graph, partition)

Next == Regroup /\ UNCHANGED graph

Spec == Init /\ [][Next]_<<graph, partition>>
=============================================================================
