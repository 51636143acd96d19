--------------------------- MODULE ImportCycles ---------------------------
(***************************************************************************)
(* detect_cycles of relon-analyzer/src/workspace_build.rs: the three       *)
(* colour depth-first search over the import graph of a workspace.  The    *)
(* graph is a map from modules to the lists of what they import; a target  *)
(* that is no key (an import that did not resolve) is a vertex without     *)
(* edges.  The search starts from the vertices in the order of a hash map, *)
(* so from any of them.                                                    *)
(***************************************************************************)
EXTENDS Integers, Sequences, FiniteSets

CONSTANT Vertex   \* canonical ids and unresolved paths

IsGraph(g) == DOMAIN g \subseteq Vertex /\ \A v \in DOMAIN g : g[v] \in Seq(Vertex)

VARIABLES graph,    \* WorkspaceTree::import_graph
          color,    \* the colour of every vertex
          stack,    \* the gray stack
          edge,     \* the edge each call of dfs on the stack is at
          emitted,  \* the chains reported as CircularImport
          rank,     \* history: when a vertex turned black
          clock     \* history: how many did

vars == <<graph, color, stack, edge, emitted, rank, clock>>

Targets(v) == IF v \in DOMAIN graph THEN graph[v] ELSE <<>>

EdgesOf(g, v) == {g[v][i] : i \in 1 .. Len(g[v])}

Nodes(g) == DOMAIN g \cup UNION {EdgesOf(g, v) : v \in DOMAIN g}

(* The search begins with every vertex white and nothing reported. *)
Begin(g) ==
  /\ color = [v \in Nodes(g) |-> "white"]
  /\ stack = <<>>
  /\ edge = <<>>
  /\ emitted = {}
  /\ rank = [v \in Nodes(g) |-> 0]
  /\ clock = 0

Init == IsGraph(graph) /\ Begin(graph)

Top == stack[Len(stack)]

At == edge[Len(edge)]

Unfinished == stack # <<>> /\ At <= Len(Targets(Top))

Target == Targets(Top)[At]

(* The loop of a call moves on to the next edge. *)
Advanced == [edge EXCEPT ![Len(edge)] = At + 1]

(* The outer loop enters a vertex it finds white. *)
Start(v) ==
  /\ stack = <<>>
  /\ color[v] = "white"
  /\ color' = [color EXCEPT ![v] = "gray"]
  /\ stack' = <<v>>
  /\ edge' = <<1>>
  /\ UNCHANGED <<graph, emitted, rank, clock>>

(* A search that colours a vertex black as soon as it enters it. *)
DescendBlack ==
  /\ Unfinished
  /\ color[Target] = "white"
  /\ color' = [color EXCEPT ![Target] = "black"]
  /\ stack' = Append(stack, Target)
  /\ edge' = Append(Advanced, 1)
  /\ UNCHANGED <<graph, emitted, rank, clock>>

Descend ==
  /\ Unfinished
  /\ color[Target] = "white"
  /\ color' = [color EXCEPT ![Target] = "gray"]
  /\ stack' = Append(stack, Target)
  /\ edge' = Append(Advanced, 1)
  /\ UNCHANGED <<graph, emitted, rank, clock>>

(* A chain with all of the gray stack, the way into the cycle included. *)
ChainWhole(from) ==
  Append(stack, Target)

(* The gray stack from the target of the back edge on, and the target. *)
Chain(from) ==
  Append(SubSeq(stack, from, Len(stack)), Target)

BackEdge ==
  /\ Unfinished
  /\ color[Target] = "gray"
  /\ \E k \in 1 .. Len(stack) :
       /\ stack[k] = Target
       /\ emitted' = emitted \cup {Chain(k)}
  /\ edge' = Advanced
  /\ UNCHANGED <<graph, color, stack, rank, clock>>

PassBlack ==
  /\ Unfinished
  /\ color[Target] = "black"
  /\ edge' = Advanced
  /\ UNCHANGED <<graph, color, stack, emitted, rank, clock>>

Leave ==
  /\ stack # <<>>
  /\ At > Len(Targets(Top))
  /\ color' = [color EXCEPT ![Top] = "black"]
  /\ stack' = SubSeq(stack, 1, Len(stack) - 1)
  /\ edge' = SubSeq(edge, 1, Len(edge) - 1)
  /\ clock' = clock + 1
  /\ rank' = [rank EXCEPT ![Top] = clock']
  /\ UNCHANGED <<graph, emitted>>

Step == Descend \/ BackEdge \/ PassBlack \/ Leave

Next == (\E v \in Nodes(graph) : Start(v)) \/ Step

Spec == Init /\ [][Next]_vars

Finished == stack = <<>> /\ \A v \in Nodes(graph) : color[v] = "black"

---------------------------------------------------------------------------

TypeOK ==
  /\ IsGraph(graph)
  /\ color \in [Nodes(graph) -> {"white", "gray", "black"}]
  /\ stack \in Seq(Nodes(graph))
  /\ edge \in Seq(Nat \ {0})
  /\ Len(edge) = Len(stack)
  /\ emitted \subseteq Seq(Nodes(graph))
  /\ rank \in [Nodes(graph) -> Nat]
  /\ clock \in Nat

IsCycle(chain) ==
  /\ Len(chain) >= 2
  /\ chain[1] = chain[Len(chain)]
  /\ \A i \in 1 .. Len(chain) - 1 :
       /\ chain[i] \in DOMAIN graph
       /\ chain[i + 1] \in EdgesOf(graph, chain[i])

(***************************************************************************)
(* Every CircularImport names a walk along import edges that ends where it *)
(* began: the slice of the gray stack that detect_cycles reports is one.   *)
(***************************************************************************)
ChainsAreCycles == \A chain \in emitted : IsCycle(chain)

(***************************************************************************)
(* A finite graph has a cycle exactly when some of its vertices each have  *)
(* an edge to one of them.                                                 *)
(***************************************************************************)
Trapped(S) == S # {} /\ \A v \in S : v \in DOMAIN graph /\ EdgesOf(graph, v) \cap S # {}

Cyclic == \E S \in SUBSET Nodes(graph) : Trapped(S)

(***************************************************************************)
(* When detect_cycles is through, it has reported a cycle if and only if   *)
(* there is one, whatever order the hash map gave the starting vertices.   *)
(***************************************************************************)
CyclesAreReported == Finished => (emitted # {} <=> Cyclic)

===========================================================================
