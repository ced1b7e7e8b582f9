------------------------------- MODULE Louvain -------------------------------
(* Detection of communities in the undirected file graph                    *)
(* (detected_louvain_partition, louvain_local_moves and                     *)
(* aggregate_louvain_graph, src/src/deps.rs).  Nodes are visited in         *)
(* ascending order and each moves to the neighboring community that gains   *)
(* most; passes repeat until one moves nothing, communities then become the *)
(* nodes of a smaller graph, and all of it repeats until nothing moves.     *)
EXTENDS Integers, FiniteSets, FiniteSetsExt, Functions

VARIABLES
  edges,     \* the undirected edges between files, sets of two
  nodes,     \* the current nodes: members, self_edges, degree, neighbors
  assigned,  \* the community of each node
  degrees,   \* the degree sum of each community
  pending,   \* the nodes this pass has yet to visit
  passMoved, \* this pass has moved a node
  moved,     \* this level has moved a node
  phase      \* "moving" or "done"

louvainVars ==
  <<edges, nodes, assigned, degrees, pending, passMoved, moved, phase>>

M == Cardinality(edges)

FileNode(e, f) ==
  [members |-> {f}, self |-> 0, degree |-> Cardinality({x \in e : f \in x}),
   neighbors |-> [g \in {h \in UNION e : {f, h} \in e /\ f # h} |-> 1]]

Singletons(n) == [i \in DOMAIN n |-> i]

DegreesOf(n) == [i \in DOMAIN n |-> n[i].degree]

LouvainInit(files, e) ==
  /\ edges = e
  /\ nodes = [f \in files |-> FileNode(e, f)]
  /\ assigned = Singletons(nodes) /\ degrees = DegreesOf(nodes)
  /\ pending = DOMAIN nodes
  /\ passMoved = FALSE /\ moved = FALSE
  /\ phase = "moving"

-----------------------------------------------------------------------------
(* One visit.                                                               *)

Links(id, community) ==
  MapThenSumSet(LAMBDA n : nodes[id].neighbors[n],
                {n \in DOMAIN nodes[id].neighbors : assigned[n] = community})

(* The change of the modularity numerator when the node changes community.  *)
(* Without the last term the node is counted in its own old community.      *)
MoveDelta_KeepsOwnDegree(id, candidate) ==
  LET current == assigned[id]
  IN  4 * M * (Links(id, candidate) - Links(id, current))
        + 2 * nodes[id].degree * (degrees[current] - degrees[candidate])

MoveDelta(id, candidate) ==
  LET current == assigned[id]
  IN  4 * M * (Links(id, candidate) - Links(id, current))
        + 2 * nodes[id].degree * (degrees[current] - degrees[candidate])
        - 2 * nodes[id].degree * nodes[id].degree

(* A gain of nothing is taken too.                                          *)
BestCommunity_TakesTies(id) ==
  LET around == {assigned[n] : n \in DOMAIN nodes[id].neighbors} \ {assigned[id]}
      best == Max({0} \cup {MoveDelta(id, c) : c \in around})
      winners == {c \in around : MoveDelta(id, c) = best}
  IN  IF winners = {} THEN assigned[id] ELSE Min(winners)

(* Gains must be positive; of equal gains the smallest community wins.      *)
BestCommunity(id) ==
  LET around == {assigned[n] : n \in DOMAIN nodes[id].neighbors} \ {assigned[id]}
      best == Max({0} \cup {MoveDelta(id, c) : c \in around})
  IN  IF best = 0 THEN assigned[id]
      ELSE Min({c \in around : MoveDelta(id, c) = best})

(* Without the first half the node's old community keeps its degree.        *)
Rehomed_KeepsOld(id, to) == [degrees EXCEPT ![to] = @ + nodes[id].degree]

Rehomed(id, to) ==
  [degrees EXCEPT ![assigned[id]] = @ - nodes[id].degree,
                  ![to] = @ + nodes[id].degree]

VisitNode ==
  /\ phase = "moving" /\ pending # {}
  /\ LET id == Min(pending)
         best == BestCommunity(id)
     IN  /\ pending' = pending \ {id}
         /\ IF best = assigned[id] THEN UNCHANGED <<assigned, degrees, passMoved, moved>>
            ELSE /\ assigned' = [assigned EXCEPT ![id] = best]
                 /\ degrees' = Rehomed(id, best)
                 /\ passMoved' = TRUE /\ moved' = TRUE
  /\ UNCHANGED <<edges, nodes, phase>>

(* A pass that moved something is followed by another.                      *)
NextPass ==
  /\ phase = "moving" /\ pending = {} /\ passMoved
  /\ pending' = DOMAIN nodes
  /\ passMoved' = FALSE
  /\ UNCHANGED <<edges, nodes, assigned, degrees, moved, phase>>

-----------------------------------------------------------------------------
(* A community becomes a node named after its least file; the edges inside  *)
(* it become edges to itself, once for each pair of old neighbors.          *)
AggregateNodes(old, home) ==
  LET MembersOf(c) == UNION {old[i].members : i \in {j \in DOMAIN old : home[j] = c}}
      NewId(i) == Min(MembersOf(home[i]))
      ids == {NewId(i) : i \in DOMAIN old}
      Olds(n) == {i \in DOMAIN old : NewId(i) = n}
      Weight(n, k) ==
        MapThenSumSet(LAMBDA p : old[p[1]].neighbors[p[2]],
          {p \in Olds(n) \X Olds(k) :
             p[2] \in DOMAIN old[p[1]].neighbors /\ (n = k => p[1] < p[2])})
      Self(n) == MapThenSumSet(LAMBDA i : old[i].self, Olds(n)) + Weight(n, n)
      Around(n) == {k \in ids \ {n} : Weight(n, k) > 0}
  IN  [n \in ids |->
         [members |-> UNION {old[i].members : i \in Olds(n)},
          self |-> Self(n),
          degree |-> 2 * Self(n) + MapThenSumSet(LAMBDA k : Weight(n, k), Around(n)),
          neighbors |-> [k \in Around(n) |-> Weight(n, k)]]]

Aggregate ==
  /\ phase = "moving" /\ pending = {} /\ ~passMoved /\ moved
  /\ nodes' = AggregateNodes(nodes, assigned)
  /\ assigned' = Singletons(nodes') /\ degrees' = DegreesOf(nodes')
  /\ pending' = DOMAIN nodes'
  /\ moved' = FALSE
  /\ UNCHANGED <<edges, passMoved, phase>>

Finish ==
  /\ phase = "moving" /\ pending = {} /\ ~passMoved /\ ~moved
  /\ phase' = "done"
  /\ UNCHANGED <<edges, nodes, assigned, degrees, pending, passMoved, moved>>

LouvainNext == VisitNode \/ NextPass \/ Aggregate \/ Finish

-----------------------------------------------------------------------------
(* The communities of files that the assignment stands for.                 *)
Communities ==
  {UNION {nodes[i].members : i \in {j \in DOMAIN nodes : assigned[j] = c}} :
     c \in Range(assigned)}

(* The detected community of each file, by its number in ascending order.   *)
Detected ==
  [f \in UNION {nodes[i].members : i \in DOMAIN nodes} |->
     LET home == CHOOSE i \in DOMAIN nodes : f \in nodes[i].members
     IN  Cardinality({i \in DOMAIN nodes : i <= home})]

(* The running degree sums are what a fresh count would give and edge ends  *)
(* survive aggregation, so that no subtraction wraps below zero             *)
(* (louvain_local_moves, aggregate_louvain_graph).                          *)
DegreesTrue ==
  /\ \A c \in DOMAIN degrees :
       degrees[c] = MapThenSumSet(LAMBDA i : nodes[i].degree,
                                  {i \in DOMAIN nodes : assigned[i] = c})
  /\ \A i \in DOMAIN nodes :
       nodes[i].degree = MapThenSumSet(LAMBDA e : Cardinality(e \cap nodes[i].members),
                                       edges)

Search == INSTANCE ModularitySearch WITH graph <- edges, partition <- Communities

(* Every step climbs the modularity of the file graph or leaves the         *)
(* communities alone, whatever level of aggregation computed its gain and   *)
(* from whatever running sums (louvain_move_delta, aggregate_louvain_graph).*)
ClimbsModularity == Search!Spec
=============================================================================
