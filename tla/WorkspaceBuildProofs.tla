----------------------- MODULE WorkspaceBuildProofs -----------------------
(***************************************************************************)
(* For any workspace: detect_cycles is sound and complete on every import  *)
(* graph, and a build loads what imports reach, accounts for every import  *)
(* and reports the circles of imports of the files themselves.             *)
(***************************************************************************)
EXTENDS WorkspaceBuild, TLAPS, SequenceTheorems, FiniteSetTheorems

---------------------------------------------------------------------------
(* The search for cycles. *)

(* The stack holds the gray vertices, each once. *)
GrayIsStacked ==
  /\ \A i \in 1 .. Len(stack) : color[stack[i]] = "gray"
  /\ \A i, j \in 1 .. Len(stack) : stack[i] = stack[j] => i = j
  /\ \A v \in Cycles!Nodes(graph) :
       color[v] = "gray" => \E i \in 1 .. Len(stack) : stack[i] = v

(* It is a path: each call is past the edge to the call above it. *)
StackIsPath ==
  \A i \in 1 .. Len(stack) - 1 :
    /\ edge[i] - 1 \in 1 .. Len(Cycles!Targets(stack[i]))
    /\ Cycles!Targets(stack[i])[edge[i] - 1] = stack[i + 1]

EdgesInRange ==
  \A i \in 1 .. Len(stack) : edge[i] <= Len(Cycles!Targets(stack[i])) + 1

(* While nothing is reported, edges passed lead to black vertices. *)
PassedIsBlack ==
  emitted = {} =>
    \A i \in 1 .. Len(stack) :
      \A k \in 1 .. edge[i] - 1 :
        \/ color[Cycles!Targets(stack[i])[k]] = "black"
        \/ i < Len(stack) /\ k = edge[i] - 1

(* While nothing is reported, edges of black vertices lead down in rank. *)
BlackIsRanked ==
  emitted = {} =>
    \A v \in Cycles!Nodes(graph) :
      color[v] = "black" =>
        \A k \in 1 .. Len(Cycles!Targets(v)) :
          /\ color[Cycles!Targets(v)[k]] = "black"
          /\ rank[Cycles!Targets(v)[k]] < rank[v]

RankIsBounded == \A v \in Cycles!Nodes(graph) : rank[v] <= clock

SearchInv ==
  /\ Cycles!TypeOK
  /\ GrayIsStacked
  /\ StackIsPath
  /\ EdgesInRange
  /\ PassedIsBlack
  /\ BlackIsRanked
  /\ RankIsBounded
  /\ Cycles!ChainsAreCycles

---------------------------------------------------------------------------
LEMMA TargetsType ==
  ASSUME Cycles!IsGraph(graph), NEW v
  PROVE  /\ Len(Cycles!Targets(v)) \in Nat
         /\ \A k \in 1 .. Len(Cycles!Targets(v)) :
              /\ Cycles!Targets(v)[k] \in Cycles!Nodes(graph)
              /\ v \in DOMAIN graph
              /\ Cycles!Targets(v)[k] \in Cycles!EdgesOf(graph, v)
<1>1. CASE v \in DOMAIN graph
  <2>1. graph[v] \in Seq(Vertex) /\ Cycles!Targets(v) = graph[v]
    BY <1>1 DEF Cycles!IsGraph, Cycles!Targets
  <2>2. \A k \in 1 .. Len(graph[v]) : graph[v][k] \in Cycles!EdgesOf(graph, v)
    BY DEF Cycles!EdgesOf
  <2>3. Cycles!EdgesOf(graph, v) \subseteq Cycles!Nodes(graph)
    BY <1>1 DEF Cycles!Nodes
  <2> QED BY <1>1, <2>1, <2>2, <2>3
<1>2. CASE v \notin DOMAIN graph
  BY <1>2 DEF Cycles!Targets
<1> QED BY <1>1, <1>2

LEMMA TopType ==
  ASSUME Cycles!TypeOK, stack # <<>>
  PROVE  /\ Len(stack) \in Nat \ {0}
         /\ Len(edge) = Len(stack)
         /\ Len(stack) \in 1 .. Len(stack)
         /\ Cycles!Top \in Cycles!Nodes(graph)
         /\ Cycles!At \in Nat \ {0}
<1>1. Len(stack) \in Nat \ {0}
  BY EmptySeq DEF Cycles!TypeOK
<1> QED BY <1>1 DEF Cycles!TypeOK, Cycles!Top, Cycles!At

LEMMA TargetType ==
  ASSUME Cycles!TypeOK, Cycles!Unfinished
  PROVE  /\ stack # <<>>
         /\ Cycles!Target \in Cycles!Nodes(graph)
         /\ Cycles!Target \in Cycles!EdgesOf(graph, Cycles!Top)
         /\ Cycles!Top \in DOMAIN graph
         /\ Cycles!At \in 1 .. Len(Cycles!Targets(Cycles!Top))
<1>1. Cycles!At \in 1 .. Len(Cycles!Targets(Cycles!Top))
  BY TopType, TargetsType DEF Cycles!Unfinished, Cycles!TypeOK
<1> QED BY <1>1, TargetsType DEF Cycles!Target, Cycles!TypeOK, Cycles!Unfinished

LEMMA AdvancedType ==
  ASSUME Cycles!TypeOK, stack # <<>>
  PROVE  /\ Cycles!Advanced \in Seq(Nat \ {0})
         /\ Len(Cycles!Advanced) = Len(stack)
         /\ \A i \in 1 .. Len(stack) - 1 : Cycles!Advanced[i] = edge[i]
         /\ Cycles!Advanced[Len(stack)] = Cycles!At + 1
BY SMTT(60), TopType DEF Cycles!TypeOK, Cycles!Advanced, Cycles!At

LEMMA ChainType ==
  ASSUME Cycles!TypeOK, Cycles!Unfinished, NEW k \in 1 .. Len(stack)
  PROVE  /\ Cycles!Chain(k) \in Seq(Cycles!Nodes(graph))
         /\ Len(Cycles!Chain(k)) = Len(stack) - k + 2
         /\ \A i \in 1 .. Len(stack) - k + 1 : Cycles!Chain(k)[i] = stack[k + i - 1]
         /\ Cycles!Chain(k)[Len(stack) - k + 2] = Cycles!Target
<1>1. stack \in Seq(Cycles!Nodes(graph)) /\ Len(stack) \in Nat
  BY DEF Cycles!TypeOK
<1> DEFINE s == SubSeq(stack, k, Len(stack))
<1>2. /\ s \in Seq(Cycles!Nodes(graph))
      /\ Len(s) = Len(stack) - k + 1
      /\ \A i \in 1 .. Len(stack) - k + 1 : s[i] = stack[k + i - 1]
  BY <1>1, SubSeqProperties
<1>3. Cycles!Target \in Cycles!Nodes(graph)
  BY TargetType
<1> QED BY <1>1, <1>2, <1>3 DEF Cycles!Chain

---------------------------------------------------------------------------
LEMMA InitInv == Cycles!Init => SearchInv
<1> SUFFICES ASSUME Cycles!Init PROVE SearchInv
  OBVIOUS
<1>1. Cycles!IsGraph(graph)
  BY DEF Cycles!Init
<1>2. Cycles!TypeOK
  BY <1>1 DEF Cycles!Init, Cycles!Begin, Cycles!TypeOK
<1>3. Len(stack) = 0
  BY DEF Cycles!Init, Cycles!Begin
<1> QED BY <1>2, <1>3 DEF Cycles!Init, Cycles!Begin, SearchInv, GrayIsStacked, StackIsPath, EdgesInRange,
      PassedIsBlack, BlackIsRanked, RankIsBounded, Cycles!ChainsAreCycles

LEMMA GraphFixed ==
  ASSUME UNCHANGED graph
  PROVE  /\ Cycles!Nodes(graph') = Cycles!Nodes(graph)
         /\ \A v : Cycles!Targets(v)' = Cycles!Targets(v)
         /\ \A chain : Cycles!IsCycle(chain)' = Cycles!IsCycle(chain)
BY DEF Cycles!Targets, Cycles!IsCycle

LEMMA StartInv ==
  ASSUME SearchInv, NEW v \in Cycles!Nodes(graph), Cycles!Start(v)
  PROVE  SearchInv'
<1> USE DEF SearchInv
<1>0. UNCHANGED graph
  BY DEF Cycles!Start
<1>1. Len(stack) = 0 /\ Len(stack') = 1 /\ stack'[1] = v /\ edge'[1] = 1
  BY DEF Cycles!Start
<1>2. Cycles!TypeOK'
  BY <1>0, <1>1, GraphFixed DEF Cycles!Start, Cycles!TypeOK
<1>3. GrayIsStacked'
  BY <1>0, <1>1, GraphFixed DEF Cycles!Start, Cycles!TypeOK, GrayIsStacked
<1>4. StackIsPath' /\ EdgesInRange' /\ PassedIsBlack'
  BY <1>0, <1>1, GraphFixed, TargetsType DEF Cycles!TypeOK, StackIsPath, EdgesInRange, PassedIsBlack
<1>5. BlackIsRanked'
  <2> SUFFICES ASSUME emitted = {}, NEW u \in Cycles!Nodes(graph), color'[u] = "black",
                      NEW k \in 1 .. Len(Cycles!Targets(u))
               PROVE  color'[Cycles!Targets(u)[k]] = "black" /\ rank[Cycles!Targets(u)[k]] < rank[u]
    BY <1>0, GraphFixed DEF Cycles!Start, BlackIsRanked
  <2>1. color[u] = "black"
    BY DEF Cycles!Start, Cycles!TypeOK
  <2>2. color[Cycles!Targets(u)[k]] = "black" /\ rank[Cycles!Targets(u)[k]] < rank[u]
    BY <2>1 DEF BlackIsRanked
  <2> QED BY <2>2 DEF Cycles!Start, Cycles!TypeOK
<1>6. RankIsBounded' /\ Cycles!ChainsAreCycles'
  BY <1>0, GraphFixed DEF Cycles!Start, RankIsBounded, Cycles!ChainsAreCycles
<1> QED BY <1>2, <1>3, <1>4, <1>5, <1>6

LEMMA DescendInv ==
  ASSUME SearchInv, Cycles!Descend
  PROVE  SearchInv'
<1> USE DEF SearchInv
<1>0. UNCHANGED graph /\ Cycles!Unfinished
  BY DEF Cycles!Descend
<1>1. /\ stack # <<>>
      /\ Len(stack) \in Nat \ {0}
      /\ Cycles!Target \in Cycles!Nodes(graph)
      /\ Cycles!At \in 1 .. Len(Cycles!Targets(Cycles!Top))
  BY <1>0, TargetType, TopType
<1>2. /\ stack' \in Seq(Cycles!Nodes(graph))
      /\ Len(stack') = Len(stack) + 1
      /\ \A i \in 1 .. Len(stack) : stack'[i] = stack[i]
      /\ stack'[Len(stack) + 1] = Cycles!Target
  BY <1>1 DEF Cycles!Descend, Cycles!TypeOK
<1>3. /\ edge' \in Seq(Nat \ {0})
      /\ Len(edge') = Len(stack) + 1
      /\ \A i \in 1 .. Len(stack) - 1 : edge'[i] = edge[i]
      /\ edge'[Len(stack)] = Cycles!At + 1
      /\ edge'[Len(stack) + 1] = 1
  BY <1>1, AdvancedType DEF Cycles!Descend
<1>4. Cycles!TypeOK'
  BY SMTT(60), <1>0, <1>1, <1>2, <1>3, GraphFixed DEF Cycles!Descend, Cycles!TypeOK
<1>5. GrayIsStacked'
  <2>1. \A i \in 1 .. Len(stack) : stack[i] # Cycles!Target /\ stack[i] \in Cycles!Nodes(graph)
    BY DEF Cycles!Descend, GrayIsStacked, Cycles!TypeOK
  <2>2. \A i \in 1 .. Len(stack') : color'[stack'[i]] = "gray"
    BY <1>1, <1>2, <2>1 DEF Cycles!Descend, GrayIsStacked, Cycles!TypeOK
  <2>3. \A i, j \in 1 .. Len(stack') : stack'[i] = stack'[j] => i = j
    BY <1>1, <1>2, <2>1 DEF GrayIsStacked
  <2>4. ASSUME NEW v \in Cycles!Nodes(graph), color'[v] = "gray"
        PROVE  \E i \in 1 .. Len(stack') : stack'[i] = v
    <3>1. CASE v = Cycles!Target
      BY <1>1, <1>2, <3>1
    <3>2. CASE v # Cycles!Target
      <4>1. color[v] = "gray"
        BY <2>4, <3>2 DEF Cycles!Descend, Cycles!TypeOK
      <4>2. PICK i \in 1 .. Len(stack) : stack[i] = v
        BY <4>1 DEF GrayIsStacked
      <4> QED BY <1>1, <1>2, <4>2
    <3> QED BY <3>1, <3>2
  <2> QED BY <1>0, <2>2, <2>3, <2>4, GraphFixed DEF GrayIsStacked
<1>6. StackIsPath'
  <2> SUFFICES ASSUME NEW i \in 1 .. Len(stack)
               PROVE  /\ edge'[i] - 1 \in 1 .. Len(Cycles!Targets(stack'[i]))
                      /\ Cycles!Targets(stack'[i])[edge'[i] - 1] = stack'[i + 1]
    BY <1>0, <1>1, <1>2, GraphFixed DEF StackIsPath
  <2>1. CASE i = Len(stack)
    BY <1>1, <1>2, <1>3, <2>1 DEF Cycles!Top, Cycles!Target
  <2>2. CASE i \in 1 .. Len(stack) - 1
    <3>1. i \in 1 .. Len(stack) /\ i + 1 \in 1 .. Len(stack)
      BY <1>1, <2>2
    <3>2. stack'[i] = stack[i] /\ stack'[i + 1] = stack[i + 1] /\ edge'[i] = edge[i]
      BY SMTT(60), <1>2, <1>3, <2>2, <3>1
    <3> QED BY <2>2, <3>2 DEF StackIsPath
  <2> QED BY <1>1, <2>1, <2>2
<1>7. EdgesInRange'
  <2> SUFFICES ASSUME NEW i \in 1 .. Len(stack) + 1
               PROVE  edge'[i] <= Len(Cycles!Targets(stack'[i])) + 1
    BY <1>0, <1>1, <1>2, GraphFixed DEF EdgesInRange
  <2>1. CASE i = Len(stack) + 1
    BY <1>0, <1>1, <1>2, <1>3, <2>1, TargetsType DEF Cycles!TypeOK
  <2>2. CASE i = Len(stack)
    BY <1>1, <1>2, <1>3, <2>2 DEF Cycles!Top
  <2>3. CASE i \in 1 .. Len(stack) - 1
    <3>1. i \in 1 .. Len(stack)
      BY <1>1, <2>3
    <3>2. stack'[i] = stack[i] /\ edge'[i] = edge[i]
      BY <1>2, <1>3, <2>3, <3>1
    <3> QED BY <3>1, <3>2 DEF EdgesInRange
  <2> QED BY <1>1, <2>1, <2>2, <2>3
<1>8. \A w \in Cycles!Nodes(graph) : color[w] = "black" => color'[w] = "black"
  BY DEF Cycles!Descend, Cycles!TypeOK
<1>9. PassedIsBlack'
  <2> SUFFICES ASSUME emitted = {}, NEW i \in 1 .. Len(stack) + 1, NEW k \in 1 .. edge'[i] - 1
               PROVE  \/ color'[Cycles!Targets(stack'[i])[k]] = "black"
                      \/ i < Len(stack) + 1 /\ k = edge'[i] - 1
    <3>1. emitted' = emitted
      BY DEF Cycles!Descend
    <3> QED BY <1>0, <1>1, <1>2, <3>1, GraphFixed DEF PassedIsBlack
  <2>1. CASE i = Len(stack) + 1
    BY <1>3, <2>1
  <2>2. CASE i = Len(stack) /\ k = Cycles!At
    BY <1>1, <1>3, <2>2
  <2>3. CASE i = Len(stack) /\ k # Cycles!At
    <3>1. k \in 1 .. edge[i] - 1 /\ edge[i] = Cycles!At /\ stack'[i] = Cycles!Top
      BY SMTT(60), <1>1, <1>2, <1>3, <2>3 DEF Cycles!At, Cycles!Top, Cycles!TypeOK
    <3>2. color[Cycles!Targets(Cycles!Top)[k]] = "black"
      BY <1>1, <2>3, <3>1 DEF PassedIsBlack, Cycles!Top
    <3>3. Cycles!Targets(Cycles!Top)[k] \in Cycles!Nodes(graph)
      BY SMTT(60), <1>1, <3>1, TargetsType DEF Cycles!TypeOK
    <3> QED BY <1>8, <3>1, <3>2, <3>3
  <2>4. CASE i \in 1 .. Len(stack) - 1
    <3>1. k \in 1 .. edge[i] - 1 /\ stack'[i] = stack[i] /\ edge'[i] = edge[i]
      <4>1. i \in 1 .. Len(stack)
        BY <1>1, <2>4
      <4>2. stack'[i] = stack[i] /\ edge'[i] = edge[i]
        BY SMTT(60), <1>2, <1>3, <2>4, <4>1
      <4> QED BY <4>2
    <3>2. CASE k = edge[i] - 1
      BY <1>1, <2>4, <3>1, <3>2
    <3>3. CASE k # edge[i] - 1
      <4>1. color[Cycles!Targets(stack[i])[k]] = "black"
        BY <1>1, <2>4, <3>1, <3>3 DEF PassedIsBlack
      <4>2. k \in 1 .. Len(Cycles!Targets(stack[i]))
        <5>1. i \in 1 .. Len(stack) /\ edge[i] \in Nat /\ Len(Cycles!Targets(stack[i])) \in Nat
          BY SMTT(60), <1>1, <2>4, TargetsType DEF Cycles!TypeOK
        <5> QED BY <3>1, <5>1 DEF EdgesInRange
      <4>3. Cycles!Targets(stack[i])[k] \in Cycles!Nodes(graph)
        BY <4>2, TargetsType DEF Cycles!TypeOK
      <4> QED BY <1>8, <3>1, <4>1, <4>3
    <3> QED BY <3>2, <3>3
  <2> QED BY <1>1, <2>1, <2>2, <2>3, <2>4
<1>10. BlackIsRanked'
  <2> SUFFICES ASSUME emitted = {}, NEW u \in Cycles!Nodes(graph), color'[u] = "black",
                      NEW k \in 1 .. Len(Cycles!Targets(u))
               PROVE  color'[Cycles!Targets(u)[k]] = "black" /\ rank[Cycles!Targets(u)[k]] < rank[u]
    BY <1>0, GraphFixed DEF Cycles!Descend, BlackIsRanked
  <2>1. color[u] = "black"
    BY DEF Cycles!Descend, Cycles!TypeOK
  <2>2. color[Cycles!Targets(u)[k]] = "black" /\ rank[Cycles!Targets(u)[k]] < rank[u]
    BY <2>1 DEF BlackIsRanked
  <2>3. Cycles!Targets(u)[k] \in Cycles!Nodes(graph)
    BY TargetsType DEF Cycles!TypeOK
  <2> QED BY <1>8, <2>2, <2>3
<1>11. RankIsBounded' /\ Cycles!ChainsAreCycles'
  BY <1>0, GraphFixed DEF Cycles!Descend, RankIsBounded, Cycles!ChainsAreCycles
<1> QED BY <1>4, <1>5, <1>6, <1>7, <1>9, <1>10, <1>11

(* An edge passed on the spot keeps all but the reports. *)
LEMMA AdvanceInv ==
  ASSUME SearchInv, Cycles!Unfinished, UNCHANGED <<graph, color, stack, rank, clock>>,
         edge' = Cycles!Advanced, emitted' = {} => emitted = {} /\ color[Cycles!Target] = "black"
  PROVE  /\ edge' \in Seq(Nat \ {0}) /\ Len(edge') = Len(stack)
         /\ GrayIsStacked' /\ StackIsPath' /\ EdgesInRange'
         /\ PassedIsBlack' /\ BlackIsRanked' /\ RankIsBounded'
<1> USE DEF SearchInv
<1>1. /\ stack # <<>>
      /\ Len(stack) \in Nat \ {0}
      /\ Cycles!Target \in Cycles!Nodes(graph)
      /\ Cycles!At \in 1 .. Len(Cycles!Targets(Cycles!Top))
      /\ Len(Cycles!Targets(Cycles!Top)) \in Nat
  BY TargetType, TopType, TargetsType DEF Cycles!TypeOK
<1>2. /\ edge' \in Seq(Nat \ {0})
      /\ Len(edge') = Len(stack)
      /\ \A i \in 1 .. Len(stack) - 1 : edge'[i] = edge[i]
      /\ edge'[Len(stack)] = Cycles!At + 1
  BY <1>1, AdvancedType
<1>3. GrayIsStacked' /\ RankIsBounded'
  BY GraphFixed DEF GrayIsStacked, RankIsBounded
<1>4. BlackIsRanked'
  BY GraphFixed DEF BlackIsRanked
<1>5. StackIsPath'
  <2> SUFFICES ASSUME NEW i \in 1 .. Len(stack) - 1
               PROVE  /\ edge'[i] - 1 \in 1 .. Len(Cycles!Targets(stack[i]))
                      /\ Cycles!Targets(stack[i])[edge'[i] - 1] = stack[i + 1]
    BY Zenon, GraphFixed DEF StackIsPath
  <2>1. edge'[i] = edge[i]
    BY <1>2
  <2> QED BY <2>1 DEF StackIsPath
<1>6. EdgesInRange'
  <2> SUFFICES ASSUME NEW i \in 1 .. Len(stack)
               PROVE  edge'[i] <= Len(Cycles!Targets(stack[i])) + 1
    BY GraphFixed DEF EdgesInRange
  <2>1. CASE i = Len(stack)
    BY <1>1, <1>2, <2>1 DEF Cycles!Top
  <2>2. CASE i \in 1 .. Len(stack) - 1
    BY <1>2, <2>2 DEF EdgesInRange
  <2> QED BY <1>1, <2>1, <2>2
<1>7. PassedIsBlack'
  <2> SUFFICES ASSUME emitted' = {}, NEW i \in 1 .. Len(stack), NEW k \in 1 .. edge'[i] - 1
               PROVE  \/ color[Cycles!Targets(stack[i])[k]] = "black"
                      \/ i < Len(stack) /\ k = edge'[i] - 1
    BY GraphFixed DEF PassedIsBlack
  <2>1. CASE i = Len(stack) /\ k = Cycles!At
    BY <2>1 DEF Cycles!Top, Cycles!Target
  <2>2. CASE i = Len(stack) /\ k # Cycles!At
    <3>1. k \in 1 .. edge[i] - 1
      BY SMTT(60), <1>1, <1>2, <2>2 DEF Cycles!At, Cycles!TypeOK
    <3> QED BY <1>1, <2>2, <3>1 DEF PassedIsBlack
  <2>3. CASE i \in 1 .. Len(stack) - 1
    BY SMTT(60), <1>2, <2>3 DEF PassedIsBlack
  <2> QED BY <1>1, <2>1, <2>2, <2>3
<1> QED BY SMTT(60), <1>2, <1>3, <1>4, <1>5, <1>6, <1>7

LEMMA PassBlackInv ==
  ASSUME SearchInv, Cycles!PassBlack
  PROVE  SearchInv'
<1>1. /\ edge' \in Seq(Nat \ {0}) /\ Len(edge') = Len(stack)
      /\ GrayIsStacked' /\ StackIsPath' /\ EdgesInRange'
      /\ PassedIsBlack' /\ BlackIsRanked' /\ RankIsBounded'
  BY AdvanceInv DEF Cycles!PassBlack
<1>2. Cycles!TypeOK' /\ Cycles!ChainsAreCycles'
  BY <1>1, GraphFixed DEF Cycles!PassBlack, SearchInv, Cycles!TypeOK, Cycles!ChainsAreCycles
<1> QED BY <1>1, <1>2 DEF SearchInv

(* The gray stack from the target of a back edge on closes to a cycle. *)
LEMMA BackEdgeChain ==
  ASSUME SearchInv, Cycles!Unfinished, NEW k \in 1 .. Len(stack), stack[k] = Cycles!Target
  PROVE  Cycles!IsCycle(Cycles!Chain(k))
<1> USE DEF SearchInv
<1> DEFINE n == Len(stack) - k + 1
<1>1. Len(stack) \in Nat \ {0} /\ n \in Nat \ {0}
  BY TopType, TargetType
<1>2. /\ Len(Cycles!Chain(k)) = n + 1
      /\ \A i \in 1 .. n : Cycles!Chain(k)[i] = stack[k + i - 1]
      /\ Cycles!Chain(k)[n + 1] = Cycles!Target
  <2>1. n + 1 = Len(stack) - k + 2 /\ n = Len(stack) - k + 1
    BY <1>1
  <2> HIDE DEF n
  <2> QED BY Zenon, <2>1, ChainType
<1>3. Cycles!Chain(k)[1] = Cycles!Chain(k)[n + 1]
  <2>1. Cycles!Chain(k)[1] = stack[k + 1 - 1]
    BY <1>1, <1>2
  <2> QED BY <1>1, <1>2, <2>1
<1>4. ASSUME NEW i \in 1 .. n
      PROVE  Cycles!Chain(k)[i] \in DOMAIN graph /\ Cycles!Chain(k)[i + 1] \in Cycles!EdgesOf(graph, Cycles!Chain(k)[i])
  <2>1. CASE i = n
    <3>1. Cycles!Chain(k)[i] = Cycles!Top
      BY <1>1, <1>2, <2>1 DEF Cycles!Top
    <3>2. Cycles!Chain(k)[i + 1] = Cycles!Target
      BY <1>2, <2>1
    <3> QED BY <3>1, <3>2, TargetType
  <2>2. CASE i \in 1 .. n - 1
    <3> DEFINE j == k + i - 1
    <3>1. j \in 1 .. Len(stack) - 1 /\ i + 1 \in 1 .. n /\ k + (i + 1) - 1 = j + 1
      BY <1>1, <2>2
    <3>2. Cycles!Chain(k)[i] = stack[j] /\ Cycles!Chain(k)[i + 1] = stack[j + 1]
      <4>1. i \in 1 .. n
        BY <1>1, <2>2
      <4>2. Cycles!Chain(k)[i + 1] = stack[k + (i + 1) - 1]
        BY <1>2, <3>1
      <4> QED BY Zenon, <1>2, <3>1, <4>1, <4>2
    <3>3. /\ edge[j] - 1 \in 1 .. Len(Cycles!Targets(stack[j]))
          /\ Cycles!Targets(stack[j])[edge[j] - 1] = stack[j + 1]
      BY <3>1 DEF StackIsPath
    <3> HIDE DEF j
    <3> QED BY SMTT(60), <3>2, <3>3, TargetsType DEF Cycles!TypeOK
  <2> QED BY <1>1, <2>1, <2>2
<1> DEFINE c == Cycles!Chain(k)
<1>5. /\ Len(c) = n + 1 /\ c[1] = c[n + 1]
      /\ \A i \in 1 .. n : c[i] \in DOMAIN graph /\ c[i + 1] \in Cycles!EdgesOf(graph, c[i])
  BY Zenon, <1>2, <1>3, <1>4
<1> HIDE DEF n, c
<1>6. Len(c) >= 2 /\ c[1] = c[Len(c)] /\ Len(c) - 1 = n
  BY <1>1, <1>5
<1>7. Cycles!IsCycle(c)
  BY Zenon, <1>5, <1>6 DEF Cycles!IsCycle
<1> QED BY Zenon, <1>7 DEF c

LEMMA BackEdgeInv ==
  ASSUME SearchInv, Cycles!BackEdge
  PROVE  SearchInv'
<1>1. PICK k \in 1 .. Len(stack) : stack[k] = Cycles!Target /\ emitted' = emitted \cup {Cycles!Chain(k)}
  BY DEF Cycles!BackEdge
<1>2. /\ edge' \in Seq(Nat \ {0}) /\ Len(edge') = Len(stack)
      /\ GrayIsStacked' /\ StackIsPath' /\ EdgesInRange'
      /\ PassedIsBlack' /\ BlackIsRanked' /\ RankIsBounded'
  BY <1>1, AdvanceInv DEF Cycles!BackEdge
<1>3. Cycles!TypeOK'
  BY ZenonT(60), <1>1, <1>2, ChainType, GraphFixed DEF Cycles!BackEdge, SearchInv, Cycles!TypeOK
<1>4. Cycles!ChainsAreCycles'
  BY <1>1, BackEdgeChain, GraphFixed DEF Cycles!BackEdge, SearchInv, Cycles!ChainsAreCycles
<1> QED BY <1>2, <1>3, <1>4 DEF SearchInv

LEMMA LeaveInv ==
  ASSUME SearchInv, Cycles!Leave
  PROVE  SearchInv'
<1> USE DEF SearchInv
<1>0. UNCHANGED graph /\ emitted' = emitted /\ clock' = clock + 1
  BY DEF Cycles!Leave
<1> DEFINE n == Len(stack)
<1>1. /\ n \in Nat \ {0} /\ Len(edge) = n
      /\ Cycles!Top \in Cycles!Nodes(graph)
      /\ Cycles!At \in Nat \ {0}
      /\ clock \in Nat
      /\ Len(Cycles!Targets(Cycles!Top)) \in Nat
  BY TopType, TargetsType DEF Cycles!Leave, Cycles!TypeOK
<1>2. /\ stack' \in Seq(Cycles!Nodes(graph))
      /\ Len(stack') = n - 1
      /\ \A i \in 1 .. n - 1 : stack'[i] = stack[i]
  BY SMTT(60), <1>1 DEF Cycles!Leave, Cycles!TypeOK
<1>3. /\ edge' \in Seq(Nat \ {0})
      /\ Len(edge') = n - 1
      /\ \A i \in 1 .. n - 1 : edge'[i] = edge[i]
  <2>1. edge' = SubSeq(edge, 1, n - 1) /\ edge \in Seq(Nat \ {0})
    BY <1>1 DEF Cycles!Leave, Cycles!TypeOK
  <2> HIDE DEF n
  <2> QED BY <1>1, <2>1
<1>4. Cycles!TypeOK'
  <2>1. color' \in [Cycles!Nodes(graph) -> {"white", "gray", "black"}]
    BY <1>1 DEF Cycles!Leave, Cycles!TypeOK
  <2>2. rank' \in [Cycles!Nodes(graph) -> Nat] /\ clock' \in Nat
    BY <1>1 DEF Cycles!Leave, Cycles!TypeOK
  <2>3. Cycles!IsGraph(graph') /\ emitted' \subseteq Seq(Cycles!Nodes(graph))
    BY <1>0 DEF Cycles!TypeOK
  <2> QED BY SMTT(60), <1>0, <1>2, <1>3, <2>1, <2>2, <2>3, GraphFixed DEF Cycles!TypeOK
<1>5. /\ color'[Cycles!Top] = "black"
      /\ \A v \in Cycles!Nodes(graph) : v # Cycles!Top => color'[v] = color[v]
      /\ rank'[Cycles!Top] = clock + 1
      /\ \A v \in Cycles!Nodes(graph) : v # Cycles!Top => rank'[v] = rank[v]
  BY <1>1 DEF Cycles!Leave, Cycles!TypeOK
<1>6. GrayIsStacked'
  <2>1. \A i \in 1 .. n - 1 : stack[i] # Cycles!Top /\ stack[i] \in Cycles!Nodes(graph)
    BY SMTT(60), <1>1 DEF GrayIsStacked, Cycles!Top, Cycles!TypeOK
  <2>2. \A i \in 1 .. n - 1 : color'[stack'[i]] = "gray"
    BY <1>1, <1>2, <1>5, <2>1 DEF GrayIsStacked
  <2>3. \A i, j \in 1 .. n - 1 : stack'[i] = stack'[j] => i = j
    BY SMTT(60), <1>1, <1>2 DEF GrayIsStacked
  <2>4. ASSUME NEW v \in Cycles!Nodes(graph), color'[v] = "gray"
        PROVE  \E i \in 1 .. n - 1 : stack'[i] = v
    <3>1. v # Cycles!Top /\ color[v] = "gray"
      BY <1>5, <2>4
    <3>2. PICK i \in 1 .. n : stack[i] = v
      BY <3>1 DEF GrayIsStacked
    <3>3. i \in 1 .. n - 1
      BY <1>1, <3>1, <3>2 DEF Cycles!Top
    <3> QED BY <1>2, <3>2, <3>3
  <2> QED BY SMTT(60), <1>0, <1>2, <2>2, <2>3, <2>4, GraphFixed DEF GrayIsStacked
<1>7. StackIsPath'
  <2> SUFFICES ASSUME NEW i \in 1 .. n - 2
               PROVE  /\ edge'[i] - 1 \in 1 .. Len(Cycles!Targets(stack'[i]))
                      /\ Cycles!Targets(stack'[i])[edge'[i] - 1] = stack'[i + 1]
    BY <1>0, <1>1, <1>2, GraphFixed DEF StackIsPath
  <2>1. i \in 1 .. n - 1 /\ i + 1 \in 1 .. n - 1
    BY <1>1
  <2>2. stack'[i] = stack[i] /\ stack'[i + 1] = stack[i + 1] /\ edge'[i] = edge[i]
    BY SMTT(60), <1>2, <1>3, <2>1
  <2> QED BY <2>1, <2>2 DEF StackIsPath
<1>8. EdgesInRange'
  <2> SUFFICES ASSUME NEW i \in 1 .. n - 1
               PROVE  edge'[i] <= Len(Cycles!Targets(stack'[i])) + 1
    BY Zenon, <1>0, <1>2, GraphFixed DEF EdgesInRange
  <2>1. i \in 1 .. n
    BY <1>1
  <2> QED BY Zenon, <1>2, <1>3, <2>1 DEF EdgesInRange
<1>9. ASSUME emitted = {}, NEW k \in 1 .. Len(Cycles!Targets(Cycles!Top))
      PROVE  color[Cycles!Targets(Cycles!Top)[k]] = "black" /\ Cycles!Targets(Cycles!Top)[k] # Cycles!Top /\ Cycles!Targets(Cycles!Top)[k] \in Cycles!Nodes(graph)
  <2>1. k \in 1 .. edge[n] - 1 /\ ~(n < n)
    BY <1>1 DEF Cycles!Leave, Cycles!At
  <2>2. color[Cycles!Targets(Cycles!Top)[k]] = "black"
    BY <1>1, <1>9, <2>1 DEF PassedIsBlack, Cycles!Top
  <2>3. color[Cycles!Top] = "gray"
    BY <1>1 DEF GrayIsStacked, Cycles!Top
  <2> QED BY <2>2, <2>3, TargetsType DEF Cycles!TypeOK
<1>10. PassedIsBlack'
  <2> HIDE DEF n
  <2> SUFFICES ASSUME emitted = {}, NEW i \in 1 .. n - 1, NEW k \in 1 .. edge'[i] - 1
               PROVE  \/ color'[Cycles!Targets(stack'[i])[k]] = "black"
                      \/ i < n - 1 /\ k = edge'[i] - 1
    BY <1>0, <1>2, GraphFixed DEF PassedIsBlack
  <2>0. stack'[i] = stack[i] /\ edge'[i] = edge[i]
    BY <1>2, <1>3
  <2> USE DEF n
  <2>1. i \in 1 .. n /\ edge[i] \in Nat /\ Len(Cycles!Targets(stack[i])) \in Nat
    BY SMTT(60), <1>1, TargetsType DEF Cycles!TypeOK
  <2>2. k \in 1 .. Len(Cycles!Targets(stack[i]))
    BY <2>0, <2>1 DEF EdgesInRange
  <2>3. Cycles!Targets(stack[i])[k] \in Cycles!Nodes(graph)
    BY SMTT(60), <2>2, TargetsType DEF Cycles!TypeOK
  <2>4. CASE k = edge[i] - 1 /\ i = n - 1
    <3>1. Cycles!Targets(stack[i])[k] = Cycles!Top
      BY SMTT(60), <1>1, <2>4 DEF StackIsPath, Cycles!Top
    <3> QED BY <1>5, <2>0, <3>1
  <2>5. CASE k = edge[i] - 1 /\ i # n - 1
    BY SMTT(60), <1>1, <2>0, <2>5
  <2>6. CASE k # edge[i] - 1
    <3>1. color[Cycles!Targets(stack[i])[k]] = "black"
      BY <2>0, <2>1, <2>6 DEF PassedIsBlack
    <3> QED BY <1>5, <2>0, <2>3, <3>1
  <2> QED BY <2>4, <2>5, <2>6
<1>11. RankIsBounded'
  <2> SUFFICES ASSUME NEW v \in Cycles!Nodes(graph)
               PROVE  rank'[v] <= clock + 1
    BY <1>0, GraphFixed DEF RankIsBounded
  <2>1. rank[v] \in Nat /\ rank[v] <= clock
    BY DEF RankIsBounded, Cycles!TypeOK
  <2> QED BY <1>1, <1>5, <2>1
<1>12. BlackIsRanked'
  <2> SUFFICES ASSUME emitted = {}, NEW u \in Cycles!Nodes(graph), color'[u] = "black",
                      NEW k \in 1 .. Len(Cycles!Targets(u))
               PROVE  color'[Cycles!Targets(u)[k]] = "black" /\ rank'[Cycles!Targets(u)[k]] < rank'[u]
    BY <1>0, GraphFixed DEF BlackIsRanked
  <2>1. CASE u = Cycles!Top
    <3> DEFINE w == Cycles!Targets(Cycles!Top)[k]
    <3>1. color[w] = "black" /\ w # Cycles!Top /\ w \in Cycles!Nodes(graph)
      BY <1>9, <2>1
    <3>2. rank[w] \in Nat /\ rank[w] <= clock
      BY <3>1 DEF RankIsBounded, Cycles!TypeOK
    <3> QED BY SMTT(60), <1>1, <1>5, <2>1, <3>1, <3>2
  <2>2. CASE u # Cycles!Top
    <3> DEFINE w == Cycles!Targets(u)[k]
    <3>1. w \in Cycles!Nodes(graph)
      BY TargetsType DEF Cycles!TypeOK
    <3>2. color[w] = "black" /\ rank[w] < rank[u]
      BY <1>5, <2>2 DEF BlackIsRanked
    <3>3. color[Cycles!Top] = "gray"
      BY <1>1 DEF GrayIsStacked, Cycles!Top
    <3>4. w # Cycles!Top
      BY <3>2, <3>3
    <3> HIDE DEF w
    <3>5. color'[w] = "black" /\ rank'[w] < rank'[u]
      BY <1>5, <2>2, <3>1, <3>2, <3>4
    <3> QED BY <3>5 DEF w
  <2> QED BY SMTT(60), <2>1, <2>2
<1>13. Cycles!ChainsAreCycles'
  BY <1>0, GraphFixed DEF Cycles!ChainsAreCycles
<1> QED BY SMTT(60), <1>4, <1>6, <1>7, <1>8, <1>10, <1>11, <1>12, <1>13

LEMMA SearchKept ==
  ASSUME SearchInv, UNCHANGED <<graph, color, stack, edge, emitted, rank, clock>>
  PROVE  SearchInv'
<1>2. Cycles!TypeOK' /\ RankIsBounded' /\ Cycles!ChainsAreCycles'
  BY SMTT(60), GraphFixed DEF SearchInv, Cycles!TypeOK, RankIsBounded, Cycles!ChainsAreCycles
<1>3. GrayIsStacked'
  BY DEF SearchInv, GrayIsStacked
<1>4. StackIsPath' /\ EdgesInRange'
  BY GraphFixed DEF SearchInv, StackIsPath, EdgesInRange
<1>5. PassedIsBlack'
  BY GraphFixed DEF SearchInv, PassedIsBlack
<1>6. BlackIsRanked'
  BY GraphFixed DEF SearchInv, BlackIsRanked
<1> QED BY <1>2, <1>3, <1>4, <1>5, <1>6 DEF SearchInv

LEMMA SearchStep ==
  ASSUME SearchInv, Cycles!Next
  PROVE  SearchInv'
<1>1. ASSUME NEW v \in Cycles!Nodes(graph), Cycles!Start(v) PROVE SearchInv'
  BY <1>1, StartInv
<1>2. CASE Cycles!Descend
  BY <1>2, DescendInv
<1>3. CASE Cycles!BackEdge
  BY <1>3, BackEdgeInv
<1>4. CASE Cycles!PassBlack
  BY <1>4, PassBlackInv
<1>5. CASE Cycles!Leave
  BY <1>5, LeaveInv
<1> QED BY Zenon, <1>1, <1>2, <1>3, <1>4, <1>5 DEF Cycles!Next, Cycles!Step

---------------------------------------------------------------------------
(***************************************************************************)
(* The inductive invariant of detect_cycles holds throughout its search.   *)
(***************************************************************************)
THEOREM Invariance == Cycles!Spec => []SearchInv
<1>1. SearchInv /\ [Cycles!Next]_(Cycles!vars) => SearchInv'
  BY SearchStep, SearchKept DEF Cycles!vars
<1> QED BY <1>1, InitInv, PTL DEF Cycles!Spec

LEMMA NatMinimum ==
  ASSUME NEW T, T \subseteq Nat, T # {}
  PROVE  \E x \in T : \A y \in T : ~ (y < x)
<1>1. \E x \in T : \A y \in T : ~ (<<y, x>> \in OpToRel(<, Nat))
  BY NatLessThanWellFounded, WFMin, Zenon
<1> QED BY Zenon, <1>1 DEF OpToRel

(* The members of a chain have no way out of it. *)
LEMMA ChainIsTrapped ==
  ASSUME SearchInv, NEW chain \in emitted
  PROVE  Cycles!Cyclic
<1> USE DEF SearchInv
<1>1. chain \in Seq(Cycles!Nodes(graph)) /\ Cycles!IsCycle(chain)
  BY DEF Cycles!TypeOK, Cycles!ChainsAreCycles
<1> DEFINE S == {chain[i] : i \in 1 .. Len(chain) - 1}
<1>2. Len(chain) \in Nat /\ Len(chain) >= 2 /\ chain[1] = chain[Len(chain)]
  BY <1>1 DEF Cycles!IsCycle
<1>3. S \in SUBSET Cycles!Nodes(graph) /\ S # {}
  BY <1>1, <1>2
<1>4. ASSUME NEW i \in 1 .. Len(chain) - 1
      PROVE  chain[i] \in DOMAIN graph /\ Cycles!EdgesOf(graph, chain[i]) \cap S # {}
  <2>1. chain[i] \in DOMAIN graph /\ chain[i + 1] \in Cycles!EdgesOf(graph, chain[i])
    BY <1>1 DEF Cycles!IsCycle
  <2>2. chain[i + 1] \in S
    <3>1. CASE i + 1 = Len(chain)
      BY <1>2, <3>1
    <3>2. CASE i + 1 # Len(chain)
      BY <1>2, <3>2
    <3> QED BY <3>1, <3>2
  <2> QED BY <2>1, <2>2
<1>5. Cycles!Trapped(S)
  BY Zenon, <1>3, <1>4 DEF Cycles!Trapped
<1> QED BY <1>3, <1>5 DEF Cycles!Cyclic

(* A search that ends in silence has ranked the vertices along the edges. *)
LEMMA SilentIsAcyclic ==
  ASSUME SearchInv, Cycles!Finished, emitted = {}
  PROVE  ~Cycles!Cyclic
<1> USE DEF SearchInv
<1> SUFFICES ASSUME NEW S \in SUBSET Cycles!Nodes(graph), Cycles!Trapped(S) PROVE FALSE
  BY DEF Cycles!Cyclic
<1> DEFINE T == {rank[v] : v \in S}
<1>1. T \subseteq Nat /\ T # {}
  BY DEF Cycles!TypeOK, Cycles!Trapped
<1>2. PICK v \in S : \A w \in S : ~ (rank[w] < rank[v])
  BY Zenon, <1>1, NatMinimum
<1>3. PICK w \in Cycles!EdgesOf(graph, v) : w \in S
  BY DEF Cycles!Trapped
<1>4. PICK k \in 1 .. Len(Cycles!Targets(v)) : Cycles!Targets(v)[k] = w
  BY Zenon DEF Cycles!EdgesOf, Cycles!Targets, Cycles!Trapped
<1>5. rank[w] < rank[v]
  BY <1>4 DEF BlackIsRanked, Cycles!Finished
<1> QED BY <1>2, <1>3, <1>5

(***************************************************************************)
(* The colours, the stack and the reports of detect_cycles stay well       *)
(* formed, and each call on the stack keeps its place among its edges.     *)
(***************************************************************************)
THEOREM TypeCorrect == Cycles!Spec => []Cycles!TypeOK
BY Invariance, PTL DEF SearchInv

(***************************************************************************)
(* Every CircularImport of detect_cycles names a closed walk along imports.*)
(***************************************************************************)
THEOREM Soundness == Cycles!Spec => []Cycles!ChainsAreCycles
BY Invariance, PTL DEF SearchInv

(***************************************************************************)
(* When detect_cycles is through it has reported a cycle exactly if the    *)
(* import graph has one.                                                   *)
(***************************************************************************)
THEOREM Completeness == Cycles!Spec => []Cycles!CyclesAreReported
<1>1. SearchInv => Cycles!CyclesAreReported
  BY ChainIsTrapped, SilentIsAcyclic DEF Cycles!CyclesAreReported
<1> QED BY <1>1, Invariance, PTL

---------------------------------------------------------------------------
(* The build.  s is the text of the files, m the modules loaded, K their   *)
(* imports already dealt with.                                             *)

ImportsOf(s, m) ==
  UNION {{[by |-> f, ix |-> i] : i \in 1 .. Len(s[f].imports)} : f \in {g \in m : s[g].parses}}

To(s, x) == s[x.by].imports[x.ix].to

Leads(s, x) == To(s, x) # NoFile /\ s[x.by].imports[x.ix].check = "ok"

(* What the code says of an import that leads nowhere. *)
Fault(s, x) ==
  Diag(IF s[x.by].imports[x.ix].check = "refused" THEN "hash_refused"
       ELSE IF To(s, x) = NoFile THEN "not_found" ELSE "hash_mismatch", x)

ClosedIn(s, S) ==
  /\ s[Entry].parses => Entry \in S
  /\ \A x \in ImportsOf(s, S) : Leads(s, x) => To(s, x) \in S

(* Every set of files closed under imports holds what is loaded, and what  *)
(* the imports dealt with lead to is loaded or about to be.                *)
Reached(s, N, K) ==
  /\ \A S \in SUBSET File : ClosedIn(s, S) => N \subseteq S
  /\ \A x \in K : Leads(s, x) => To(s, x) \in N

JobsOK(s, m, J) ==
  /\ \A j \in J : /\ j.id \notin m
                  /\ [by |-> j.by, ix |-> j.ix] \in ImportsOf(s, m)
                  /\ Leads(s, j) /\ To(s, j) = j.id
  /\ \A j, k \in J : j.id = k.id => j = k

(* The diagnostics are the faults of the imports dealt with, and one parse *)
(* error for each module loaded that does not parse.                       *)
Blames(s, d, f) ==
  d.kind = "parse_error" /\ d.by # NoFile /\ To(s, d) = f

DiagsOK(s, m, K, D) ==
  /\ \A d \in D : d.kind # "parse_error" => \E x \in K : ~Leads(s, x) /\ d = Fault(s, x)
  /\ \A x \in K : ~Leads(s, x) => Fault(s, x) \in D
  /\ \A d \in D : d.kind = "parse_error" /\ d.by # NoFile => To(s, d) \in m
  /\ \A f \in m : ~s[f].parses => \E d \in D : Blames(s, d, f)
  /\ \A f \in m : \A d, e \in D : Blames(s, d, f) /\ Blames(s, e, f) => d = e

(* The edges of a module are its imports in order, as paths or as ids.     *)
Exact(s, f) ==
  \A x, y \in ImportsOf(s, {f}) :
    x.ix < y.ix /\ To(s, x) = To(s, y) /\ Leads(s, y) => Leads(s, x)

EdgesOK(s, f, K, edges) ==
  /\ edges \in Seq(Vertex)
  /\ ~s[f].parses => edges = <<>>
  /\ s[f].parses => Len(edges) = Len(s[f].imports)
  /\ \A x \in ImportsOf(s, {f}) :
       /\ \/ edges[x.ix] = Path(To(s, x))
          \/ /\ edges[x.ix] = Id(To(s, x))
             /\ \E y \in K : y.by = f /\ Leads(s, y) /\ To(s, y) = To(s, x)
       /\ x \in K /\ Leads(s, x) =>
            \E i \in 1 .. Len(edges) : edges[i] = Id(To(s, x))
       /\ Exact(s, f) =>
            edges[x.ix] = IF x \in K /\ Leads(s, x) THEN Id(To(s, x)) ELSE Path(To(s, x))

GraphOK(s, m, K, g) ==
  /\ DOMAIN g = {Id(f) : f \in m}
  /\ \A f \in m : EdgesOK(s, f, K, g[Id(f)])

(* Which of the work lists are in use in which phase. *)
PhaseOK(s, p, m, q, l, J) ==
  /\ p = "entry" => m = {} /\ q = {}
  /\ p # "entry" /\ s[Entry].parses => Entry \in m
  /\ p # "prelude" => l = {}
  /\ p \notin {"prelude", "analyze"} => J = {}
  /\ p \notin {"entry", "levels"} => q = {}

Loading(s, m, K, g, D, J) ==
  /\ s \in Sources
  /\ m \subseteq File
  /\ J \subseteq Jobs
  /\ K \subseteq ImportsOf(s, m)
  /\ Reached(s, m \cup {j.id : j \in J}, K)
  /\ JobsOK(s, m, J)
  /\ DiagsOK(s, m, K, D)
  /\ GraphOK(s, m, K, g)

---------------------------------------------------------------------------
LEMMA Names ==
  /\ \A f, g : Id(f) = Id(g) => f = g
  /\ \A f, g : Path(f) = Path(g) => f = g
  /\ \A f, g : Id(f) # Path(g)
  /\ \A f : Id(f)[2] = f
BY DEF Id, Path

(* The imports of a set of modules. *)
LEMMA ItemFacts ==
  ASSUME NEW s, NEW m
  PROVE  /\ \A x \in ImportsOf(s, m) :
              /\ x.by \in m /\ s[x.by].parses /\ x.ix \in 1 .. Len(s[x.by].imports)
              /\ x = [by |-> x.by, ix |-> x.ix]
              /\ x \in ImportsOf(s, {x.by})
         /\ \A f \in m : s[f].parses =>
              \A i \in 1 .. Len(s[f].imports) : [by |-> f, ix |-> i] \in ImportsOf(s, m)
<1>1. ASSUME NEW f \in m, s[f].parses, NEW i \in 1 .. Len(s[f].imports)
      PROVE  [by |-> f, ix |-> i] \in ImportsOf(s, m)
  BY <1>1 DEF ImportsOf
<1>2. ASSUME NEW x \in ImportsOf(s, m)
      PROVE  /\ x.by \in m /\ s[x.by].parses /\ x.ix \in 1 .. Len(s[x.by].imports)
             /\ x = [by |-> x.by, ix |-> x.ix]
  <2>1. PICK f \in m : s[f].parses /\ \E i \in 1 .. Len(s[f].imports) : x = [by |-> f, ix |-> i]
    BY Zenon DEF ImportsOf
  <2>2. PICK i \in 1 .. Len(s[f].imports) : x = [by |-> f, ix |-> i]
    BY Zenon, <2>1
  <2>3. x.by = f /\ x.ix = i
    BY Zenon, <2>2
  <2> QED BY Zenon, <2>1, <2>2, <2>3
<1>3. ASSUME NEW x \in ImportsOf(s, m) PROVE x \in ImportsOf(s, {x.by})
  <2>1. /\ s[x.by].parses /\ x.ix \in 1 .. Len(s[x.by].imports)
        /\ x = [by |-> x.by, ix |-> x.ix] /\ x.by \in {x.by}
    BY Zenon, <1>2
  <2>2. [by |-> x.by, ix |-> x.ix] \in ImportsOf(s, {x.by})
    BY <2>1 DEF ImportsOf
  <2> QED BY Zenon, <2>1, <2>2
<1> QED BY Zenon, <1>1, <1>2, <1>3

(* The imports of one module are told apart by their place. *)
LEMMA OneModule ==
  ASSUME NEW s, NEW f
  PROVE  /\ \A x \in ImportsOf(s, {f}) :
              x.by = f /\ s[f].parses /\ x.ix \in 1 .. Len(s[f].imports)
         /\ \A x, y \in ImportsOf(s, {f}) : x.ix = y.ix => x = y
         /\ s[f].parses =>
              \A i \in 1 .. Len(s[f].imports) : [by |-> f, ix |-> i] \in ImportsOf(s, {f})
<1>1. ASSUME NEW x \in ImportsOf(s, {f})
      PROVE  /\ x.by = f /\ s[f].parses /\ x.ix \in 1 .. Len(s[f].imports)
             /\ x = [by |-> f, ix |-> x.ix]
  <2>1. x.by \in {f} /\ s[x.by].parses /\ x.ix \in 1 .. Len(s[x.by].imports)
        /\ x = [by |-> x.by, ix |-> x.ix]
    BY Zenon, ItemFacts
  <2>2. x.by = f
    BY Zenon, <2>1
  <2> QED BY Zenon, <2>1, <2>2
<1>2. ASSUME NEW x \in ImportsOf(s, {f}), NEW y \in ImportsOf(s, {f}), x.ix = y.ix PROVE x = y
  BY Zenon, <1>1, <1>2
<1>3. f \in {f}
  OBVIOUS
<1>4. s[f].parses =>
        \A i \in 1 .. Len(s[f].imports) : [by |-> f, ix |-> i] \in ImportsOf(s, {f})
  BY Zenon, <1>3, ItemFacts
<1> QED BY Zenon, <1>1, <1>2, <1>4

LEMMA SourceFacts ==
  ASSUME NEW s \in Sources, NEW f \in File
  PROVE  /\ f \in Nat /\ f # NoFile
         /\ s[f].parses \in BOOLEAN
         /\ Len(s[f].imports) \in Nat
         /\ \A i \in 1 .. Len(s[f].imports) :
              s[f].imports[i].to \in File \cup {NoFile}
<1>1. s[f].imports \in Seq([to : File \cup {NoFile}, check : {"ok", "refused", "mismatch"}])
  BY Zenon, ConstantsAssumption
<1>2. Len(s[f].imports) \in Nat
  BY Zenon, <1>1, LenProperties
<1>3. ASSUME NEW i \in 1 .. Len(s[f].imports) PROVE s[f].imports[i].to \in File \cup {NoFile}
  <2>1. s[f].imports[i] \in [to : File \cup {NoFile}, check : {"ok", "refused", "mismatch"}]
    BY Zenon, <1>1, ElementOfSeq
  <2> QED BY Zenon, <2>1
<1> QED BY Zenon, <1>2, <1>3, ConstantsAssumption

(***************************************************************************)
(* The edges of a module.                                                  *)
(***************************************************************************)
Raw(s, f) ==
  IF s[f].parses THEN [i \in 1 .. Len(s[f].imports) |-> Path(s[f].imports[i].to)] ELSE <<>>

LEMMA RawEdgesOK ==
  ASSUME NEW s \in Sources, NEW f \in File, NEW K, \A x \in K : x.by # f
  PROVE  EdgesOK(s, f, K, Raw(s, f))
<1> DEFINE e == Raw(s, f)
<1>1. CASE ~s[f].parses
  <2>1. e = <<>> /\ e \in Seq(Vertex)
    BY <1>1 DEF Raw
  <2>2. ImportsOf(s, {f}) = {}
    BY Zenon, <1>1, OneModule
  <2> HIDE DEF e
  <2>3. EdgesOK(s, f, K, e)
    BY Zenon, <1>1, <2>1, <2>2 DEF EdgesOK
  <2> QED BY Zenon, <2>3 DEF e
<1>2. CASE s[f].parses
  <2> DEFINE n == Len(s[f].imports)
  <2>1. e = [i \in 1 .. n |-> Path(s[f].imports[i].to)]
    BY Zenon, <1>2 DEF Raw
  <2>2. n \in Nat /\ \A i \in 1 .. n : s[f].imports[i].to \in File \cup {NoFile}
    BY Zenon, SourceFacts
  <2>3. \A i \in 1 .. n : Path(s[f].imports[i].to) \in Vertex
    BY Zenon, <2>2 DEF Vertex
  <2> HIDE DEF e, n
  <2>4. e \in [1 .. n -> Vertex] /\ \A i \in 1 .. n : e[i] = Path(s[f].imports[i].to)
    BY Zenon, <2>1, <2>3
  <2>5. e \in Seq(Vertex) /\ Len(e) = n
    BY <2>1, <2>2, <2>4
  <2>6. ASSUME NEW x \in ImportsOf(s, {f}) PROVE e[x.ix] = Path(To(s, x)) /\ x \notin K
    <3>1. x.by = f /\ x.ix \in 1 .. n
      BY Zenon, OneModule DEF n
    <3> QED BY Zenon, <2>4, <3>1 DEF To
  <2>7. EdgesOK(s, f, K, e)
    BY Zenon, <1>2, <2>5, <2>6 DEF EdgesOK, n
  <2> QED BY Zenon, <2>7 DEF e
<1> QED BY Zenon, <1>1, <1>2

(* An import of another module, or one that leads nowhere, leaves them. *)
LEMMA EdgesKept ==
  ASSUME NEW s, NEW f, NEW K, NEW e, NEW x, EdgesOK(s, f, K, e),
         x \notin ImportsOf(s, {f}) \/ ~Leads(s, x)
  PROVE  EdgesOK(s, f, K \cup {x}, e)
<1> DEFINE L == K \cup {x}
<1>1. /\ \A y \in ImportsOf(s, {f}) : y \in L /\ Leads(s, y) <=> y \in K /\ Leads(s, y)
      /\ \A y \in K : y \in L
  BY Zenon
<1> HIDE DEF L
<1>2. EdgesOK(s, f, L, e)
  BY Zenon, <1>1 DEF EdgesOK
<1> QED BY Zenon, <1>2 DEF L


(* An import that leads to a module turns the first edge with its path     *)
(* into the id of the module.                                              *)
LEMMA ResolvedOK ==
  ASSUME NEW s \in Sources, NEW f \in File, NEW K, NEW e, EdgesOK(s, f, K, e),
         NEW x \in ImportsOf(s, {f}), x \notin K, Leads(s, x),
         \A y \in ImportsOf(s, {f}) : y.ix < x.ix => y \in K
  PROVE  EdgesOK(s, f, K \cup {x}, Resolved(e, Path(To(s, x)), Id(To(s, x))))
<1> DEFINE L == K \cup {x}
           p == Path(To(s, x))
           d == Id(To(s, x))
           at == {i \in 1 .. Len(e) : e[i] = p}
           e2 == Resolved(e, p, d)
<1>0. x \in L /\ (\A y \in K : y \in L) /\ (\A y \in L : y # x => y \in K)
  OBVIOUS
<1>1. /\ e \in Seq(Vertex) /\ s[f].parses /\ Len(e) = Len(s[f].imports)
      /\ Len(e) \in Nat /\ x.ix \in 1 .. Len(e)
  BY Zenon, OneModule, SourceFacts DEF EdgesOK
<1>2. ASSUME NEW y \in ImportsOf(s, {f})
      PROVE  /\ y.ix \in 1 .. Len(e)
             /\ \/ e[y.ix] = Path(To(s, y))
                \/ /\ e[y.ix] = Id(To(s, y))
                   /\ \E z \in K : z.by = f /\ Leads(s, z) /\ To(s, z) = To(s, y)
             /\ y \in K /\ Leads(s, y) => \E i \in 1 .. Len(e) : e[i] = Id(To(s, y))
             /\ Exact(s, f) =>
                  e[y.ix] = IF y \in K /\ Leads(s, y) THEN Id(To(s, y)) ELSE Path(To(s, y))
             /\ (y.ix = x.ix) => (y = x)
  <2>1. y.ix \in 1 .. Len(s[f].imports) /\ (y.ix = x.ix => y = x)
    BY Zenon, OneModule
  <2> QED BY Zenon, <1>1, <2>1 DEF EdgesOK
<1>3. d \in Vertex
  <2>1. To(s, x) \in File \cup {NoFile} /\ To(s, x) # NoFile
    <3>1. x.by = f /\ x.ix \in 1 .. Len(s[f].imports)
      BY Zenon, OneModule
    <3>2. s[f].imports[x.ix].to \in File \cup {NoFile}
      BY Zenon, <3>1, SourceFacts
    <3> QED BY Zenon, <3>1, <3>2 DEF To, Leads
  <2> QED BY Zenon, <2>1 DEF Vertex
<1>4. x.by = f
  BY Zenon, OneModule
<1>5. Exact(s, f) => e[x.ix] = p
  BY Zenon, <1>2
<1>6. \A i : i \in at <=> i \in 1 .. Len(e) /\ e[i] = p
  OBVIOUS
<1>7. e2 = IF at = {} THEN e ELSE [e EXCEPT ![CHOOSE i \in at : \A j \in at : i <= j] = d]
  BY Zenon DEF Resolved
<1> HIDE DEF L, at, e2, d, p
<1>8. CASE at = {}
  <2>1. e2 = e
    BY Zenon, <1>7, <1>8
  <2>2. ~Exact(s, f) /\ e[x.ix] = d
    BY Zenon, <1>1, <1>2, <1>5, <1>6, <1>8 DEF p, d
  <2>3. EdgesOK(s, f, L, e2)
    <3>1. ASSUME NEW y \in ImportsOf(s, {f})
          PROVE  /\ \/ e[y.ix] = Path(To(s, y))
                    \/ /\ e[y.ix] = Id(To(s, y))
                       /\ \E z \in L : z.by = f /\ Leads(s, z) /\ To(s, z) = To(s, y)
                 /\ y \in L /\ Leads(s, y) => \E i \in 1 .. Len(e) : e[i] = Id(To(s, y))
      <4>1. CASE y = x
        BY Zenon, <1>0, <1>1, <1>4, <2>2, <4>1 DEF d
      <4>2. CASE y # x
        BY Zenon, <1>0, <1>2, <4>2
      <4> QED BY Zenon, <4>1, <4>2
    <3> QED BY Zenon, <1>1, <2>1, <2>2, <3>1 DEF EdgesOK
  <2> QED BY Zenon, <2>3 DEF L, e2, p, d
<1>9. CASE at # {}
  <2> DEFINE k == CHOOSE i \in at : \A j \in at : i <= j
  <2>1. k \in at /\ \A j \in at : k <= j
    <3>1. at \subseteq Nat
      BY <1>1, <1>6
    <3>2. PICK i \in at : \A j \in at : ~ (j < i)
      BY Zenon, <3>1, <1>9, NatMinimum
    <3>3. \A j \in at : i <= j
      BY <3>1, <3>2
    <3> QED BY Zenon, <3>2, <3>3
  <2>2. e2 = [e EXCEPT ![k] = d]
    BY Zenon, <1>7, <1>9
  <2> HIDE DEF k
  <2>3. k \in 1 .. Len(e) /\ e[k] = p
    BY Zenon, <2>1, <1>6
  <2>4. /\ e2 \in Seq(Vertex) /\ Len(e2) = Len(e)
        /\ e2[k] = d
        /\ \A i \in 1 .. Len(e) : i # k => e2[i] = e[i]
    BY <1>1, <1>3, <2>2, <2>3
  <2>5. ASSUME Exact(s, f) PROVE k = x.ix
    <3>1. x.ix \in at
      BY Zenon, <1>1, <1>5, <1>6, <2>5
    <3>2. k <= x.ix /\ k \in Nat /\ x.ix \in Nat
      BY <2>1, <2>3, <1>1, <3>1
    <3>3. ASSUME k < x.ix PROVE FALSE
      <4> DEFINE y == [by |-> f, ix |-> k]
      <4>1. y \in ImportsOf(s, {f}) /\ y.ix = k
        BY Zenon, <1>1, <2>3, OneModule
      <4> HIDE DEF y
      <4>2. y \in K
        BY Zenon, <3>3, <4>1
      <4>3. e[k] = IF Leads(s, y) THEN Id(To(s, y)) ELSE Path(To(s, y))
        BY Zenon, <1>2, <2>5, <4>1, <4>2
      <4>4. ~Leads(s, y) /\ To(s, y) = To(s, x)
        BY Zenon, <2>3, <4>3, Names DEF p
      <4> QED BY Zenon, <2>5, <3>3, <4>1, <4>4 DEF Exact
    <3> QED BY <3>2, <3>3
  <2>6. ASSUME NEW y \in ImportsOf(s, {f}), y.ix = k PROVE To(s, y) = To(s, x)
    <3>1. e[k] = Path(To(s, y)) \/ e[k] = Id(To(s, y))
      BY Zenon, <1>2, <2>6
    <3> QED BY Zenon, <2>3, <3>1, Names DEF p
  <2>7. ASSUME NEW y \in ImportsOf(s, {f})
        PROVE  \/ e2[y.ix] = Path(To(s, y))
               \/ /\ e2[y.ix] = Id(To(s, y))
                  /\ \E z \in L : z.by = f /\ Leads(s, z) /\ To(s, z) = To(s, y)
    <3>1. CASE y.ix = k
      BY Zenon, <1>0, <1>4, <2>4, <2>6, <3>1 DEF d
    <3>2. CASE y.ix # k
      BY Zenon, <1>0, <1>2, <2>4, <3>2
    <3> QED BY Zenon, <3>1, <3>2
  <2>8. ASSUME NEW y \in ImportsOf(s, {f}), y \in L, Leads(s, y)
        PROVE  \E i \in 1 .. Len(e2) : e2[i] = Id(To(s, y))
    <3>1. CASE y = x
      BY Zenon, <2>3, <2>4, <3>1 DEF d
    <3>2. CASE y # x
      <4>1. PICK i \in 1 .. Len(e) : e[i] = Id(To(s, y))
        BY Zenon, <1>0, <1>2, <2>8, <3>2
      <4>2. i # k
        BY Zenon, <2>3, <4>1, Names DEF p
      <4> QED BY Zenon, <2>4, <4>1, <4>2
    <3> QED BY Zenon, <3>1, <3>2
  <2>9. ASSUME NEW y \in ImportsOf(s, {f}), Exact(s, f)
        PROVE  e2[y.ix] = IF y \in L /\ Leads(s, y) THEN Id(To(s, y)) ELSE Path(To(s, y))
    <3>1. CASE y = x
      BY Zenon, <1>0, <2>4, <2>5, <2>9, <3>1 DEF d
    <3>2. CASE y # x
      <4>1. y.ix # k /\ (y \in L <=> y \in K)
        BY Zenon, <1>0, <1>2, <2>5, <2>9, <3>2
      <4> QED BY Zenon, <1>2, <2>4, <2>9, <4>1
    <3> QED BY Zenon, <3>1, <3>2
  <2>10. EdgesOK(s, f, L, e2)
    BY Zenon, <1>1, <2>4, <2>7, <2>8, <2>9 DEF EdgesOK
  <2> QED BY Zenon, <2>10 DEF L, e2, p, d
<1> QED BY Zenon, <1>8, <1>9

(***************************************************************************)
(* The graph.                                                              *)
(***************************************************************************)
LEMMA GraphKept ==
  ASSUME NEW s, NEW m, NEW K, NEW g, GraphOK(s, m, K, g), NEW x, ~Leads(s, x)
  PROVE  GraphOK(s, m, K \cup {x}, g)
BY Zenon, EdgesKept DEF GraphOK

LEMMA GraphResolved ==
  ASSUME NEW s \in Sources, NEW m \in SUBSET File, NEW K, NEW g, GraphOK(s, m, K, g),
         NEW x \in ImportsOf(s, m), x \notin K, Leads(s, x),
         \A y \in ImportsOf(s, {x.by}) : y.ix < x.ix => y \in K
  PROVE  GraphOK(s, m, K \cup {x},
                 [g EXCEPT ![Id(x.by)] = Resolved(@, Path(To(s, x)), Id(To(s, x)))])
<1> DEFINE L == K \cup {x}
           e == Resolved(g[Id(x.by)], Path(To(s, x)), Id(To(s, x)))
           h == [g EXCEPT ![Id(x.by)] = Resolved(@, Path(To(s, x)), Id(To(s, x)))]
<1>1. x.by \in m /\ x.by \in File /\ x \in ImportsOf(s, {x.by})
  BY Zenon, ItemFacts
<1>2. EdgesOK(s, x.by, K, g[Id(x.by)])
  BY Zenon, <1>1 DEF GraphOK
<1>3. EdgesOK(s, x.by, L, e)
  BY Zenon, <1>1, <1>2, ResolvedOK
<1>4. /\ DOMAIN h = DOMAIN g
      /\ Id(x.by) \in DOMAIN g
      /\ h[Id(x.by)] = e
      /\ \A v \in DOMAIN g : v # Id(x.by) => h[v] = g[v]
  <2>1. Id(x.by) \in DOMAIN g
    BY Zenon, <1>1 DEF GraphOK
  <2> QED BY Zenon, <2>1
<1> HIDE DEF h, e
<1>5. ASSUME NEW f \in m, f # x.by PROVE EdgesOK(s, f, L, h[Id(f)])
  <2>1. h[Id(f)] = g[Id(f)] /\ EdgesOK(s, f, K, g[Id(f)])
    <3>1. Id(f) # Id(x.by) /\ Id(f) \in DOMAIN g
      BY Zenon, <1>5, Names DEF GraphOK
    <3> QED BY Zenon, <1>4, <3>1 DEF GraphOK
  <2>2. x \notin ImportsOf(s, {f})
    BY Zenon, <1>5, OneModule
  <2> QED BY Zenon, <2>1, <2>2, EdgesKept
<1> HIDE DEF L
<1>6. GraphOK(s, m, L, h)
  BY Zenon, <1>3, <1>4, <1>5 DEF GraphOK
<1> QED BY Zenon, <1>6 DEF L, h

Grown(s, g, n) ==
  [v \in DOMAIN g \cup {Id(f) : f \in n} |->
     IF v \notin {Id(f) : f \in n} THEN g[v] ELSE Raw(s, v[2])]

LEMMA GraphGrown ==
  ASSUME NEW s \in Sources, NEW m \in SUBSET File, NEW K, NEW g, GraphOK(s, m, K, g),
         K \subseteq ImportsOf(s, m), NEW n \in SUBSET File, \A f \in n : f \notin m
  PROVE  GraphOK(s, m \cup n, K, Grown(s, g, n))
<1> DEFINE new == {Id(f) : f \in n}
           h == [v \in DOMAIN g \cup new |-> IF v \notin new THEN g[v] ELSE Raw(s, v[2])]
<1>1. ASSUME NEW f \in n PROVE h[Id(f)] = Raw(s, f) /\ EdgesOK(s, f, K, Raw(s, f))
  <2>1. Id(f) \in new /\ Id(f)[2] = f
    BY Zenon, Names
  <2>2. h[Id(f)] = Raw(s, f)
    BY Zenon, <2>1
  <2>3. \A x \in K : x.by # f
    <3>1. \A x \in K : x.by \in m
      BY Zenon, ItemFacts
    <3> QED BY Zenon, <3>1
  <2> QED BY Zenon, <2>2, <2>3, RawEdgesOK
<1>2. ASSUME NEW f \in m PROVE h[Id(f)] = g[Id(f)] /\ EdgesOK(s, f, K, g[Id(f)])
  <2>1. Id(f) \notin new
    BY Zenon, Names
  <2>2. Id(f) \in DOMAIN g /\ EdgesOK(s, f, K, g[Id(f)])
    BY Zenon DEF GraphOK
  <2> QED BY Zenon, <2>1, <2>2
<1>3. DOMAIN h = {Id(f) : f \in m \cup n}
  <2>1. DOMAIN h = {Id(f) : f \in m} \cup new
    BY Zenon DEF GraphOK
  <2>2. {Id(f) : f \in m} \cup new = {Id(f) : f \in m \cup n}
    BY Zenon
  <2> QED BY Zenon, <2>1, <2>2
<1> HIDE DEF h
<1>4. GraphOK(s, m \cup n, K, h)
  BY Zenon, <1>1, <1>2, <1>3 DEF GraphOK
<1> QED BY Zenon, <1>4 DEF h, Grown

LEMMA GraphBegun ==
  ASSUME NEW s \in Sources
  PROVE  /\ GraphOK(s, {}, {}, <<>>)
         /\ GraphOK(s, {Entry}, {}, [v \in {Id(Entry)} |-> Raw(s, Entry)])
<1>1. GraphOK(s, {}, {}, <<>>)
  <2>1. DOMAIN <<>> = {}
    OBVIOUS
  <2> QED BY Zenon, <2>1 DEF GraphOK
<1>2. EdgesOK(s, Entry, {}, Raw(s, Entry))
  BY Zenon, RawEdgesOK, ConstantsAssumption
<1> QED BY Zenon, <1>1, <1>2 DEF GraphOK

(***************************************************************************)
(* What is reached.                                                        *)
(***************************************************************************)
LEMMA ReachedLoad ==
  ASSUME NEW s \in Sources, NEW m, NEW N, NEW K, Reached(s, N, K), m \subseteq N,
         NEW x \in ImportsOf(s, m), Leads(s, x)
  PROVE  Reached(s, N \cup {To(s, x)}, K \cup {x})
<1>1. ASSUME NEW S \in SUBSET File, ClosedIn(s, S) PROVE N \subseteq S /\ To(s, x) \in S
  <2>1. N \subseteq S
    BY Zenon, <1>1 DEF Reached
  <2>2. /\ x.by \in S /\ s[x.by].parses /\ x.ix \in 1 .. Len(s[x.by].imports)
        /\ x = [by |-> x.by, ix |-> x.ix]
    BY Zenon, <2>1, ItemFacts
  <2>3. [by |-> x.by, ix |-> x.ix] \in ImportsOf(s, S)
    BY Zenon, <2>2, ItemFacts
  <2>4. x \in ImportsOf(s, S)
    BY Zenon, <2>2, <2>3
  <2> QED BY Zenon, <1>1, <2>1, <2>4 DEF ClosedIn
<1> QED BY Zenon, <1>1 DEF Reached

LEMMA ReachedFault ==
  ASSUME NEW s, NEW N, NEW K, Reached(s, N, K), NEW x, ~Leads(s, x)
  PROVE  Reached(s, N, K \cup {x})
BY Zenon DEF Reached

(***************************************************************************)
(* The diagnostics.                                                        *)
(***************************************************************************)
LEMMA FaultFacts ==
  ASSUME NEW s, NEW x
  PROVE  /\ Fault(s, x).kind # "parse_error"
         /\ Fault(s, x).by = x.by /\ Fault(s, x).ix = x.ix
BY DEF Fault, Diag

LEMMA DiagsLoad ==
  ASSUME NEW s, NEW m, NEW K, NEW D, DiagsOK(s, m, K, D), NEW x, Leads(s, x)
  PROVE  DiagsOK(s, m, K \cup {x}, D)
BY Zenon DEF DiagsOK

LEMMA DiagsFault ==
  ASSUME NEW s, NEW m, NEW K, NEW D, DiagsOK(s, m, K, D), NEW x, ~Leads(s, x)
  PROVE  DiagsOK(s, m, K \cup {x}, D \cup {Fault(s, x)})
<1> DEFINE d == Fault(s, x)
           E == D \cup {d}
           L == K \cup {x}
<1>1. d.kind # "parse_error" /\ d \in E /\ x \in L
  BY Zenon, FaultFacts
<1>2. /\ \A e \in E : e \in D \/ e = d
      /\ \A e \in D : e \in E
      /\ \A y \in L : y \in K \/ y = x
      /\ \A y \in K : y \in L
  BY Zenon
<1>3. \A f : ~Blames(s, d, f)
  BY Zenon, <1>1 DEF Blames
<1> HIDE DEF E, L
<1>4. \A e \in E : e.kind # "parse_error" => \E y \in L : ~Leads(s, y) /\ e = Fault(s, y)
  BY Zenon, <1>1, <1>2 DEF DiagsOK
<1>5. \A y \in L : ~Leads(s, y) => Fault(s, y) \in E
  BY Zenon, <1>1, <1>2 DEF DiagsOK
<1> HIDE DEF d
<1>6. \A e \in E : e.kind = "parse_error" /\ e.by # NoFile => To(s, e) \in m
  BY Zenon, <1>1, <1>2 DEF DiagsOK
<1>7. \A f \in m : ~s[f].parses => \E e \in E : Blames(s, e, f)
  BY Zenon, <1>2 DEF DiagsOK
<1>8. \A f \in m : \A e1, e2 \in E : Blames(s, e1, f) /\ Blames(s, e2, f) => e1 = e2
  BY Zenon, <1>2, <1>3 DEF DiagsOK
<1>9. DiagsOK(s, m, L, E)
  BY Zenon, <1>4, <1>5, <1>6, <1>7, <1>8 DEF DiagsOK
<1> QED BY Zenon, <1>9 DEF L, E, d

(* The parse errors of a level go to the imports that left its jobs. *)
LEMMA DiagsMerge ==
  ASSUME NEW s \in Sources, NEW m \in SUBSET File, NEW K, NEW D, DiagsOK(s, m, K, D),
         NEW J, JobsOK(s, m, J)
  PROVE  DiagsOK(s, m \cup {j.id : j \in J}, K,
                 D \cup {Diag("parse_error", j) : j \in {i \in J : ~s[i.id].parses}})
<1> DEFINE P == {Diag("parse_error", j) : j \in {i \in J : ~s[i.id].parses}}
           n == {j.id : j \in J}
           E == D \cup P
           M == m \cup n
<1>1. ASSUME NEW j \in J
      PROVE  LET d == Diag("parse_error", j)
             IN  d.kind = "parse_error" /\ d.by # NoFile /\ To(s, d) = j.id
  <2>1. j.by \in File
    <3>1. [by |-> j.by, ix |-> j.ix] \in ImportsOf(s, m)
      BY Zenon DEF JobsOK
    <3>2. [by |-> j.by, ix |-> j.ix].by \in m
      BY Zenon, <3>1, ItemFacts
    <3> QED BY Zenon, <3>2
  <2>2. j.by # NoFile /\ s[j.by].imports[j.ix].to = j.id
    BY Zenon, <2>1, SourceFacts DEF JobsOK, To
  <2> QED BY Zenon, <2>2 DEF Diag, To
<1>2. /\ \A d \in E : d \in D \/ \E j \in J : ~s[j.id].parses /\ d = Diag("parse_error", j)
      /\ \A d \in D : d \in E
      /\ \A j \in J : ~s[j.id].parses => Diag("parse_error", j) \in E
      /\ \A f \in M : f \in m \/ \E j \in J : f = j.id
      /\ \A f \in m : f \in M
      /\ \A j \in J : j.id \in M /\ j.id \notin m
  BY Zenon DEF JobsOK
<1> HIDE DEF E, M
<1>3. \A d \in E : d.kind # "parse_error" => \E x \in K : ~Leads(s, x) /\ d = Fault(s, x)
  <2> SUFFICES ASSUME NEW d \in E, d.kind # "parse_error"
               PROVE  \E x \in K : ~Leads(s, x) /\ d = Fault(s, x)
    BY Zenon
  <2>1. ASSUME NEW j \in J, d = Diag("parse_error", j) PROVE FALSE
    BY Zenon, <1>1, <2>1
  <2>2. d \in D
    BY Zenon, <1>2, <2>1
  <2> QED BY Zenon, <2>2 DEF DiagsOK
<1>4. \A x \in K : ~Leads(s, x) => Fault(s, x) \in E
  BY Zenon, <1>2 DEF DiagsOK
<1>5. \A d \in E : d.kind = "parse_error" /\ d.by # NoFile => To(s, d) \in M
  <2> SUFFICES ASSUME NEW d \in E, d.kind = "parse_error", d.by # NoFile PROVE To(s, d) \in M
    BY Zenon
  <2>1. CASE d \in D
    BY Zenon, <1>2, <2>1 DEF DiagsOK
  <2>2. ASSUME NEW j \in J, d = Diag("parse_error", j) PROVE To(s, d) \in M
    <3>1. To(s, d) = j.id
      BY Zenon, <1>1, <2>2
    <3> QED BY Zenon, <1>2, <3>1
  <2> QED BY Zenon, <1>2, <2>1, <2>2
<1>6. ASSUME NEW f \in M, ~s[f].parses PROVE \E d \in E : Blames(s, d, f)
  <2>1. CASE f \in m
    BY Zenon, <1>2, <1>6, <2>1 DEF DiagsOK
  <2>2. CASE \E j \in J : f = j.id
    <3>1. PICK j \in J : f = j.id
      BY Zenon, <2>2
    <3>2. Blames(s, Diag("parse_error", j), f)
      BY Zenon, <1>1, <3>1 DEF Blames
    <3> QED BY Zenon, <1>2, <1>6, <3>1, <3>2
  <2> QED BY Zenon, <1>2, <2>1, <2>2
<1>7. ASSUME NEW f \in M, NEW d \in E, NEW e \in E, Blames(s, d, f), Blames(s, e, f)
      PROVE  d = e
  <2>1. CASE f \in m
    <3>1. ASSUME NEW c \in E, Blames(s, c, f) PROVE c \in D
      <4>1. ASSUME NEW j \in J, c = Diag("parse_error", j) PROVE FALSE
        <5>1. To(s, c) = j.id
          BY Zenon, <1>1, <4>1
        <5> QED BY Zenon, <1>2, <2>1, <3>1, <5>1 DEF Blames
      <4> QED BY Zenon, <1>2, <4>1
    <3> QED BY Zenon, <1>7, <2>1, <3>1 DEF DiagsOK
  <2>2. CASE f \notin m
    <3>1. d \notin D /\ e \notin D
      BY Zenon, <1>7, <2>2 DEF Blames, DiagsOK
    <3>2. PICK j \in J : d = Diag("parse_error", j)
      BY Zenon, <1>2, <3>1
    <3>3. PICK k \in J : e = Diag("parse_error", k)
      BY Zenon, <1>2, <3>1
    <3>4. j.id = f /\ k.id = f
      BY Zenon, <1>1, <1>7, <3>2, <3>3 DEF Blames
    <3> QED BY Zenon, <3>2, <3>3, <3>4 DEF JobsOK
  <2> QED BY Zenon, <2>1, <2>2
<1>8. DiagsOK(s, M, K, E)
  BY Zenon, <1>3, <1>4, <1>5, <1>6, <1>7 DEF DiagsOK
<1> QED BY Zenon, <1>8 DEF M, E

(***************************************************************************)
(* What the steps of a build do to all of it.                              *)
(***************************************************************************)
LEMMA LoadingFault ==
  ASSUME NEW s, NEW m, NEW K, NEW g, NEW D, NEW J, Loading(s, m, K, g, D, J),
         NEW x \in ImportsOf(s, m), ~Leads(s, x)
  PROVE  Loading(s, m, K \cup {x}, g, D \cup {Fault(s, x)}, J)
<1> DEFINE L == K \cup {x}
           E == D \cup {Fault(s, x)}
           N == m \cup {j.id : j \in J}
<1>1. L \subseteq ImportsOf(s, m)
  BY Zenon DEF Loading
<1>2. Reached(s, N, L)
  BY Zenon, ReachedFault DEF Loading
<1>3. DiagsOK(s, m, L, E) /\ GraphOK(s, m, L, g)
  BY Zenon, DiagsFault, GraphKept DEF Loading
<1> HIDE DEF L, E
<1>4. Loading(s, m, L, g, E, J)
  BY Zenon, <1>1, <1>2, <1>3 DEF Loading
<1> QED BY Zenon, <1>4 DEF L, E

LEMMA LoadingLoad ==
  ASSUME NEW s, NEW m, NEW K, NEW g, NEW D, NEW J, Loading(s, m, K, g, D, J),
         NEW x \in ImportsOf(s, m), x \notin K, Leads(s, x),
         \A y \in ImportsOf(s, {x.by}) : y.ix < x.ix => y \in K,
         NEW I,
         I = IF To(s, x) \in m \cup {j.id : j \in J} THEN J
             ELSE J \cup {[id |-> To(s, x), by |-> x.by, ix |-> x.ix]}
  PROVE  Loading(s, m, K \cup {x},
                 [g EXCEPT ![Id(x.by)] = Resolved(@, Path(To(s, x)), Id(To(s, x)))], D, I)
<1> DEFINE L == K \cup {x}
           N == m \cup {j.id : j \in J}
           f == To(s, x)
           h == [g EXCEPT ![Id(x.by)] = Resolved(@, Path(f), Id(f))]
           a == [id |-> f, by |-> x.by, ix |-> x.ix]
<1>1. /\ s \in Sources /\ m \in SUBSET File /\ J \subseteq Jobs /\ L \subseteq ImportsOf(s, m)
      /\ Reached(s, N, K) /\ JobsOK(s, m, J) /\ DiagsOK(s, m, K, D) /\ GraphOK(s, m, K, g)
  BY Zenon DEF Loading
<1>2. /\ x.by \in m /\ x.by \in File /\ s[x.by].parses /\ x.ix \in 1 .. Len(s[x.by].imports)
      /\ x = [by |-> x.by, ix |-> x.ix]
  BY Zenon, <1>1, ItemFacts
<1>3. f \in File /\ x.ix \in Nat \ {0}
  <2>1. f \in File \cup {NoFile} /\ Len(s[x.by].imports) \in Nat
    BY Zenon, <1>1, <1>2, SourceFacts DEF To
  <2>2. f # NoFile
    BY Zenon DEF Leads
  <2>3. x.ix \in Nat \ {0}
    BY <1>2, <2>1
  <2> QED BY Zenon, <2>1, <2>2, <2>3
<1>4. GraphOK(s, m, L, h)
  BY Zenon, <1>1, GraphResolved
<1>5. DiagsOK(s, m, L, D)
  BY Zenon, <1>1, DiagsLoad
<1>6. Reached(s, N \cup {f}, L)
  BY Zenon, <1>1, ReachedLoad
<1>7. I \subseteq Jobs /\ JobsOK(s, m, I) /\ m \cup {j.id : j \in I} = N \cup {f}
  <2>1. CASE f \in N
    BY Zenon, <1>1, <2>1
  <2>2. CASE f \notin N
    <3>1. a \in Jobs /\ a.id = f /\ a.by = x.by /\ a.ix = x.ix
      BY Zenon, <1>2, <1>3 DEF Jobs
    <3>2. Leads(s, a) /\ To(s, a) = f /\ [by |-> a.by, ix |-> a.ix] \in ImportsOf(s, m)
      BY Zenon, <1>2, <3>1 DEF Leads, To
    <3>3. \A j \in J : j.id # f
      BY Zenon, <2>2
    <3>4. I = J \cup {a} /\ f \notin m
      BY Zenon, <2>2
    <3> HIDE DEF a
    <3>5. I \subseteq Jobs
      BY Zenon, <1>1, <3>1, <3>4
    <3>6. JobsOK(s, m, I)
      BY Zenon, <1>1, <3>1, <3>2, <3>3, <3>4 DEF JobsOK
    <3>7. {j.id : j \in I} = {j.id : j \in J} \cup {f}
      BY Zenon, <3>1, <3>4
    <3> QED BY Zenon, <3>5, <3>6, <3>7
  <2> QED BY Zenon, <2>1, <2>2
<1> HIDE DEF L, h
<1>8. Loading(s, m, L, h, D, I)
  BY Zenon, <1>1, <1>4, <1>5, <1>6, <1>7 DEF Loading
<1> QED BY Zenon, <1>8 DEF L, h

LEMMA LoadingMerge ==
  ASSUME NEW s, NEW m, NEW K, NEW g, NEW D, NEW J, Loading(s, m, K, g, D, J)
  PROVE  LET n == {j.id : j \in J}
         IN  Loading(s, m \cup n, K, Grown(s, g, n),
                     D \cup {Diag("parse_error", j) : j \in {i \in J : ~s[i.id].parses}}, {})
<1> DEFINE n == {j.id : j \in J}
           h == Grown(s, g, n)
           E == D \cup {Diag("parse_error", j) : j \in {i \in J : ~s[i.id].parses}}
           M == m \cup n
           O == {}
<1>1. /\ s \in Sources /\ m \in SUBSET File /\ J \subseteq Jobs /\ K \subseteq ImportsOf(s, m)
      /\ Reached(s, M, K) /\ JobsOK(s, m, J) /\ DiagsOK(s, m, K, D) /\ GraphOK(s, m, K, g)
  BY Zenon DEF Loading
<1>2. n \in SUBSET File /\ \A f \in n : f \notin m
  <2>1. \A j \in J : j.id \in File
    BY Zenon, <1>1 DEF Jobs
  <2>2. \A j \in J : j.id \notin m
    BY Zenon, <1>1 DEF JobsOK
  <2> QED BY Zenon, <2>1, <2>2
<1>3. GraphOK(s, M, K, h)
  <2> HIDE DEF n
  <2> QED BY Zenon, <1>1, <1>2, GraphGrown
<1>4. DiagsOK(s, M, K, E)
  BY Zenon, <1>1, DiagsMerge
<1>5. M \subseteq File /\ M \cup {j.id : j \in O} = M /\ O \subseteq Jobs
  BY Zenon, <1>1, <1>2
<1>6. JobsOK(s, M, O)
  BY Zenon DEF JobsOK
<1>7. K \subseteq ImportsOf(s, M)
  <2> SUFFICES ASSUME NEW x \in K PROVE x \in ImportsOf(s, M)
    BY Zenon
  <2>1. /\ x.by \in M /\ s[x.by].parses /\ x.ix \in 1 .. Len(s[x.by].imports)
        /\ x = [by |-> x.by, ix |-> x.ix]
    BY Zenon, <1>1, ItemFacts
  <2>2. [by |-> x.by, ix |-> x.ix] \in ImportsOf(s, M)
    BY Zenon, <2>1, ItemFacts
  <2> QED BY Zenon, <2>1, <2>2
<1> HIDE DEF M, E, h, O
<1>8. Loading(s, M, K, h, E, O)
  BY Zenon, <1>1, <1>3, <1>4, <1>5, <1>6, <1>7 DEF Loading
<1> QED BY Zenon, <1>8 DEF M, E, h, O


---------------------------------------------------------------------------
(* The whole build. *)

Built(s, p, m, g, D, q, l, J) ==
  /\ q \cup l \subseteq ImportsOf(s, m)
  /\ PhaseOK(s, p, m, q, l, J)
  /\ Loading(s, m, ImportsOf(s, m) \ (q \cup l), g, D, J)

BuildInv == Built(source, phase, modules, graph, diags, queue, level, jobs)

SearchOK ==
  /\ ~Loaded => NoSearch
  /\ Loaded => SearchInv
  /\ phase = "done" => Cycles!Finished

Inv == BuildInv /\ SearchOK

LEMMA NoImports ==
  ASSUME NEW s
  PROVE  ImportsOf(s, {}) = {}
BY DEF ImportsOf

(* The same work under another name. *)
LEMMA PhaseBuilt ==
  ASSUME NEW s, NEW p, NEW m, NEW g, NEW D, NEW q, NEW l, NEW J,
         Built(s, p, m, g, D, q, l, J),
         NEW pp, NEW qq, NEW ll, PhaseOK(s, pp, m, qq, ll, J), qq \cup ll = q \cup l
  PROVE  Built(s, pp, m, g, D, qq, ll, J)
BY Zenon DEF Built

LEMMA EntryBuilt ==
  ASSUME NEW s, NEW m, NEW g, NEW D, NEW q, NEW l, NEW J, Built(s, "entry", m, g, D, q, l, J)
  PROVE  /\ s[Entry].parses =>
              Built(s, "levels", {Entry}, [v \in {Id(Entry)} |-> Raw(s, Entry)], D,
                    ImportsOf(s, {Entry}), l, J)
         /\ ~s[Entry].parses =>
              Built(s, "levels", m, g, {Diag("parse_error", [by |-> NoFile, ix |-> 0])}, q, l, J)
<1> DEFINE O == {}
           d == Diag("parse_error", [by |-> NoFile, ix |-> 0])
<1>1. m = O /\ q = O /\ l = O /\ J = O
  BY Zenon DEF Built, PhaseOK
<1>2. ImportsOf(s, m) \ (q \cup l) = O
  BY Zenon, <1>1, NoImports
<1>3. Loading(s, O, O, g, D, O)
  BY Zenon, <1>1, <1>2 DEF Built
<1>4. /\ s \in Sources /\ DiagsOK(s, O, O, D) /\ GraphOK(s, O, O, g)
  BY Zenon, <1>3 DEF Loading
<1>5. ASSUME NEW n PROVE JobsOK(s, n, O) /\ O \subseteq Jobs /\ n \cup {j.id : j \in O} = n
                         /\ O \subseteq ImportsOf(s, n)
  BY Zenon DEF JobsOK
<1>6. CASE s[Entry].parses
  <2> DEFINE M == {Entry}
             h == [v \in {Id(Entry)} |-> Raw(s, Entry)]
             T == ImportsOf(s, M)
  <2>1. GraphOK(s, M, O, h)
    BY Zenon, <1>4, GraphBegun
  <2>2. Reached(s, M, O)
    BY Zenon, <1>6 DEF Reached, ClosedIn
  <2>3. M \subseteq File
    BY Zenon, ConstantsAssumption
  <2>4. \A f \in M : s[f].parses
    BY Zenon, <1>6
  <2>5. DiagsOK(s, M, O, D)
    <3> HIDE DEF M
    <3>1. /\ \A e \in D : e.kind # "parse_error" => \E x \in O : ~Leads(s, x) /\ e = Fault(s, x)
          /\ \A e \in D : e.kind = "parse_error" /\ e.by # NoFile => To(s, e) \in O
      BY Zenon, <1>4 DEF DiagsOK
    <3> QED BY Zenon, <2>4, <3>1 DEF DiagsOK, Blames
  <2>6. Entry \in M /\ T \ (T \cup O) = O /\ T \cup O \subseteq T
    BY Zenon
  <2> HIDE DEF M, h, T
  <2>7. Loading(s, M, O, h, D, O)
    BY Zenon, <1>4, <1>5, <2>1, <2>2, <2>3, <2>5 DEF Loading
  <2>8. PhaseOK(s, "levels", M, T, O, O)
    BY Zenon, <2>6 DEF PhaseOK
  <2>9. Built(s, "levels", M, h, D, T, O, O)
    BY Zenon, <2>6, <2>7, <2>8 DEF Built, T
  <2> QED BY Zenon, <1>1, <1>6, <2>9 DEF M, h, T
<1>7. CASE ~s[Entry].parses
  <2> DEFINE E == {d}
  <2>1. d.kind = "parse_error" /\ d.by = NoFile
    BY Zenon DEF Diag
  <2>2. DiagsOK(s, O, O, E)
    BY Zenon, <2>1 DEF DiagsOK, Blames
  <2> HIDE DEF E
  <2>3. Loading(s, O, O, g, E, O)
    BY Zenon, <1>3, <2>2 DEF Loading
  <2>4. PhaseOK(s, "levels", O, O, O, O)
    BY Zenon, <1>7 DEF PhaseOK
  <2>5. Built(s, "levels", O, g, E, O, O, O)
    <3>1. ImportsOf(s, O) \ (O \cup O) = O /\ O \cup O \subseteq ImportsOf(s, O)
      BY Zenon, NoImports
    <3> HIDE DEF O
    <3> QED BY Zenon, <2>3, <2>4, <3>1 DEF Built
  <2> QED BY Zenon, <1>1, <1>7, <2>5 DEF E
<1> QED BY Zenon, <1>6, <1>7

LEMMA FaultBuilt ==
  ASSUME NEW s, NEW m, NEW g, NEW D, NEW q, NEW l, NEW J, Built(s, "prelude", m, g, D, q, l, J),
         NEW x \in l, ~Leads(s, x)
  PROVE  Built(s, "prelude", m, g, D \cup {Fault(s, x)}, q, l \ {x}, J)
<1> DEFINE A == ImportsOf(s, m)
           K == A \ (q \cup l)
           E == D \cup {Fault(s, x)}
           r == l \ {x}
<1>1. q = {} /\ l \subseteq A
  BY Zenon DEF Built, PhaseOK
<1>2. A \ (q \cup r) = K \cup {x} /\ q \cup r \subseteq A /\ x \in A
  <2> HIDE DEF A
  <2> QED BY Zenon, <1>1
<1>3. Loading(s, m, K \cup {x}, g, E, J)
  BY Zenon, <1>2, LoadingFault DEF Built
<1>4. PhaseOK(s, "prelude", m, q, r, J)
  BY Zenon DEF Built, PhaseOK
<1> HIDE DEF K, E, r
<1>5. Built(s, "prelude", m, g, E, q, r, J)
  BY Zenon, <1>2, <1>3, <1>4 DEF Built
<1> QED BY Zenon, <1>5 DEF E, r

LEMMA LoadBuilt ==
  ASSUME NEW s, NEW m, NEW g, NEW D, NEW q, NEW l, NEW J, Built(s, "prelude", m, g, D, q, l, J),
         NEW x \in l, Leads(s, x),
         \A y \in l : x.by < y.by \/ (x.by = y.by /\ x.ix <= y.ix),
         NEW I,
         I = IF To(s, x) \in m \cup {j.id : j \in J} THEN J
             ELSE J \cup {[id |-> To(s, x), by |-> x.by, ix |-> x.ix]}
  PROVE  Built(s, "prelude", m,
               [g EXCEPT ![Id(x.by)] = Resolved(@, Path(To(s, x)), Id(To(s, x)))],
               D, q, l \ {x}, I)
<1> DEFINE A == ImportsOf(s, m)
           K == A \ (q \cup l)
           h == [g EXCEPT ![Id(x.by)] = Resolved(@, Path(To(s, x)), Id(To(s, x)))]
           r == l \ {x}
<1>1. q = {} /\ l \subseteq A /\ Loading(s, m, K, g, D, J) /\ PhaseOK(s, "prelude", m, q, l, J)
  BY Zenon DEF Built, PhaseOK
<1>2. A \ (q \cup r) = K \cup {x} /\ q \cup r \subseteq A /\ x \in A /\ x \notin K
  <2> HIDE DEF A
  <2> QED BY Zenon, <1>1
<1>3. ASSUME NEW y \in ImportsOf(s, {x.by}), y.ix < x.ix PROVE y \in K
  <2>1. x.by \in m /\ x.ix \in 1 .. Len(s[x.by].imports)
    BY Zenon, <1>2, ItemFacts
  <2>2. /\ y.by = x.by /\ s[x.by].parses /\ y.ix \in 1 .. Len(s[x.by].imports)
    BY Zenon, OneModule
  <2>3. y = [by |-> x.by, ix |-> y.ix]
    BY Zenon, <2>2, ItemFacts
  <2>4. [by |-> x.by, ix |-> y.ix] \in A
    BY Zenon, <2>1, <2>2, ItemFacts
  <2>5. x.by \in Nat
    <3>1. s \in Sources /\ x.by \in File
      BY Zenon, <1>1, <2>1 DEF Loading
    <3> QED BY Zenon, <3>1, SourceFacts
  <2>6. ~ (x.by < y.by) /\ ~ (x.ix <= y.ix)
    BY <1>3, <2>1, <2>2, <2>5
  <2>7. y \notin l
    BY Zenon, <2>6
  <2> QED BY Zenon, <1>1, <2>3, <2>4, <2>7
<1>4. Loading(s, m, K \cup {x}, h, D, I)
  <2> HIDE DEF K
  <2> QED BY Zenon, <1>1, <1>2, <1>3, LoadingLoad
<1>5. PhaseOK(s, "prelude", m, q, r, I)
  BY Zenon, <1>1 DEF PhaseOK
<1> HIDE DEF K, h, r
<1>6. Built(s, "prelude", m, h, D, q, r, I)
  BY Zenon, <1>2, <1>4, <1>5 DEF Built
<1> QED BY Zenon, <1>6 DEF h, r

LEMMA MergeBuilt ==
  ASSUME NEW s, NEW m, NEW g, NEW D, NEW q, NEW l, NEW J, Built(s, "analyze", m, g, D, q, l, J)
  PROVE  LET n == {j.id : j \in J}
         IN  Built(s, "levels", m \cup n, Grown(s, g, n),
                   D \cup {Diag("parse_error", j) : j \in {i \in J : ~s[i.id].parses}},
                   ImportsOf(s, n), l, {})
<1> DEFINE n == {j.id : j \in J}
           M == m \cup n
           h == Grown(s, g, n)
           E == D \cup {Diag("parse_error", j) : j \in {i \in J : ~s[i.id].parses}}
           T == ImportsOf(s, n)
           K == ImportsOf(s, m) \ (q \cup l)
           O == {}
<1>1. /\ q = {} /\ l = {} /\ Loading(s, m, K, g, D, J) /\ (s[Entry].parses => Entry \in m)
  BY Zenon DEF Built, PhaseOK
<1>2. K = ImportsOf(s, m)
  BY Zenon, <1>1
<1>3. Loading(s, M, K, h, E, O)
  <2> HIDE DEF K
  <2> QED BY Zenon, <1>1, LoadingMerge
<1>4. \A j \in J : j.id \notin m
  BY Zenon, <1>1 DEF Loading, JobsOK
<1>5. /\ \A x \in ImportsOf(s, M) : x \in ImportsOf(s, m) \/ x \in T
      /\ \A x \in T : x \in ImportsOf(s, M) /\ x \notin ImportsOf(s, m)
      /\ \A x \in ImportsOf(s, m) : x \in ImportsOf(s, M)
  <2>1. \A f \in n : f \notin m
    BY Zenon, <1>4
  <2> HIDE DEF n
  <2>2. ASSUME NEW x, NEW a, NEW b, x \in ImportsOf(s, a), x.by \in b
        PROVE  x \in ImportsOf(s, b)
    <3>1. /\ s[x.by].parses /\ x.ix \in 1 .. Len(s[x.by].imports)
          /\ x = [by |-> x.by, ix |-> x.ix]
      BY Zenon, <2>2, ItemFacts
    <3>2. [by |-> x.by, ix |-> x.ix] \in ImportsOf(s, b)
      BY Zenon, <2>2, <3>1, ItemFacts
    <3> QED BY Zenon, <3>1, <3>2
  <2>3. \A x \in ImportsOf(s, n) : x.by \in n
    BY Zenon, ItemFacts
  <2>4. \A x \in ImportsOf(s, m) : x.by \in m
    BY Zenon, ItemFacts
  <2>5. \A f : f \in M <=> f \in m \/ f \in n
    BY Zenon
  <2> HIDE DEF M
  <2>6. \A x \in ImportsOf(s, M) : x.by \in M
    BY Zenon, ItemFacts
  <2> QED BY Zenon, <2>1, <2>2, <2>3, <2>4, <2>5, <2>6
<1>6. ImportsOf(s, M) \ (T \cup l) = K /\ T \cup l \subseteq ImportsOf(s, M)
  <2> HIDE DEF T, M, K
  <2> QED BY Zenon, <1>1, <1>2, <1>5
<1>7. PhaseOK(s, "levels", M, T, l, O)
  BY Zenon, <1>1 DEF PhaseOK
<1> HIDE DEF M, T, E, h, O
<1>8. Built(s, "levels", M, h, E, T, l, O)
  BY Zenon, <1>3, <1>6, <1>7 DEF Built
<1> QED BY Zenon, <1>8 DEF M, T, E, h, O

LEMMA InvInit == Init => Inv
<1> SUFFICES ASSUME Init PROVE Inv
  OBVIOUS
<1> DEFINE O == {}
           g == <<>>
           s == source
<1>1. /\ s \in Sources /\ phase = "entry" /\ modules = O /\ graph = g /\ diags = O
      /\ queue = O /\ level = O /\ jobs = O /\ NoSearch
  BY Zenon DEF Init
<1>2. GraphOK(s, O, O, g)
  BY Zenon, <1>1, GraphBegun
<1>3. Reached(s, O, O) /\ JobsOK(s, O, O) /\ DiagsOK(s, O, O, O)
  BY Zenon DEF Reached, JobsOK, DiagsOK
<1>4. O \subseteq File /\ O \subseteq Jobs /\ O \subseteq ImportsOf(s, O)
      /\ O \cup {j.id : j \in O} = O
      /\ ImportsOf(s, O) \ (O \cup O) = O /\ O \cup O \subseteq ImportsOf(s, O)
  BY Zenon, NoImports
<1>5. PhaseOK(s, "entry", O, O, O, O)
  BY Zenon DEF PhaseOK
<1> HIDE DEF O, g
<1>6. Loading(s, O, O, g, O, O)
  BY Zenon, <1>1, <1>2, <1>3, <1>4 DEF Loading
<1>7. BuildInv
  BY Zenon, <1>1, <1>4, <1>5, <1>6 DEF BuildInv, Built
<1>8. SearchOK
  BY Zenon, <1>1 DEF SearchOK, Loaded
<1> QED BY Zenon, <1>7, <1>8 DEF Inv

(* The search does not run while modules are loaded. *)
LEMMA SearchWaits ==
  ASSUME SearchOK, phase \notin {"cycles", "done"}, phase' \notin {"cycles", "done"},
         UNCHANGED searchVars
  PROVE  SearchOK'
BY Zenon DEF SearchOK, Loaded, NoSearch, searchVars

LEMMA AnalyzeEntryInv ==
  ASSUME Inv, AnalyzeEntry
  PROVE  Inv'
<1>1. /\ phase = "entry" /\ phase' = "levels" /\ source' = source /\ level' = level /\ jobs' = jobs
      /\ UNCHANGED searchVars
  BY Zenon DEF AnalyzeEntry
<1>2. BuildInv'
  <2>1. CASE source[Entry].parses
    <3>1. /\ modules' = {Entry} /\ diags' = diags
          /\ graph' = [v \in {Id(Entry)} |-> RawEdges(Entry)] /\ queue' = Pending(Entry)
      BY Zenon, <2>1 DEF AnalyzeEntry
    <3>2. RawEdges(Entry) = Raw(source, Entry)
      BY Zenon, <2>1 DEF RawEdges, Raw, Imports
    <3>3. Pending(Entry) = ImportsOf(source, {Entry})
      BY <2>1 DEF Pending, Imports, ImportsOf
    <3> QED BY Zenon, <1>1, <2>1, <3>1, <3>2, <3>3, EntryBuilt DEF Inv, BuildInv
  <2>2. CASE ~source[Entry].parses
    <3>1. /\ modules' = modules /\ graph' = graph /\ queue' = queue
          /\ diags' = {Diag("parse_error", [by |-> NoFile, ix |-> 0])}
      BY Zenon, <2>2 DEF AnalyzeEntry
    <3> QED BY Zenon, <1>1, <2>2, <3>1, EntryBuilt DEF Inv, BuildInv
  <2> QED BY Zenon, <2>1, <2>2
<1>3. SearchOK'
  BY Zenon, <1>1, SearchWaits DEF Inv
<1> QED BY Zenon, <1>2, <1>3 DEF Inv

LEMMA TakeLevelInv ==
  ASSUME Inv, TakeLevel
  PROVE  Inv'
<1>1. /\ phase = "levels" /\ phase' = "prelude" /\ level' = queue /\ queue' = {}
      /\ UNCHANGED <<source, modules, graph, diags, jobs, searchVars>>
  BY Zenon DEF TakeLevel
<1> DEFINE O == {}
<1>2. /\ Built(source, "levels", modules, graph, diags, queue, level, jobs)
      /\ level = O
      /\ PhaseOK(source, "prelude", modules, O, queue, jobs)
      /\ O \cup queue = queue \cup level
  BY Zenon, <1>1 DEF Inv, BuildInv, Built, PhaseOK
<1> HIDE DEF O
<1>3. Built(source, "prelude", modules, graph, diags, O, queue, jobs)
  BY Zenon, <1>2, PhaseBuilt
<1>4. BuildInv'
  BY Zenon, <1>1, <1>3 DEF BuildInv, O
<1>5. SearchOK'
  BY Zenon, <1>1, SearchWaits DEF Inv
<1> QED BY Zenon, <1>4, <1>5 DEF Inv

(* What the three refusals of the prelude leave behind. *)
LEMMA FaultStep ==
  ASSUME NEW item, Refuse(item) \/ NotFound(item) \/ Mismatch(item)
  PROVE  /\ ~Leads(source, item)
         /\ diags' = diags \cup {Fault(source, item)}
         /\ UNCHANGED <<graph, jobs>>
<1>1. CASE Refuse(item)
  BY Zenon, <1>1 DEF Refuse, Leads, Fault, ImportAt
<1>2. CASE NotFound(item)
  BY Zenon, <1>2 DEF NotFound, Leads, Fault, ImportAt, To
<1>3. CASE Mismatch(item)
  BY Zenon, <1>3 DEF Mismatch, Leads, Fault, ImportAt, To
<1> QED BY Zenon, <1>1, <1>2, <1>3

LEMMA PreludeImportInv ==
  ASSUME Inv, PreludeImport
  PROVE  Inv'
<1>1. /\ phase = "prelude" /\ phase' = "prelude" /\ queue' = queue
      /\ UNCHANGED <<source, modules, searchVars>>
  BY Zenon DEF PreludeImport
<1>2. PICK item \in level :
        /\ First(item)
        /\ Refuse(item) \/ NotFound(item) \/ Mismatch(item) \/ Load(item)
        /\ level' = level \ {item}
  BY Zenon DEF PreludeImport
<1>3. Built(source, "prelude", modules, graph, diags, queue, level, jobs)
  BY Zenon, <1>1 DEF Inv, BuildInv
<1>4. BuildInv'
  <2>1. CASE Refuse(item) \/ NotFound(item) \/ Mismatch(item)
    <3>1. /\ ~Leads(source, item)
          /\ diags' = diags \cup {Fault(source, item)}
          /\ graph' = graph /\ jobs' = jobs
      BY Zenon, <2>1, FaultStep
    <3>2. Built(source, "prelude", modules, graph, diags \cup {Fault(source, item)}, queue,
                level \ {item}, jobs)
      BY Zenon, <1>3, <3>1, FaultBuilt
    <3> QED BY Zenon, <1>1, <1>2, <3>1, <3>2 DEF BuildInv
  <2>2. CASE Load(item)
    <3> DEFINE f == To(source, item)
               h == [graph EXCEPT ![Id(item.by)] = Resolved(@, Path(f), Id(f))]
    <3>1. /\ Leads(source, item) /\ graph' = h /\ diags' = diags
          /\ jobs' = IF f \in modules \cup {j.id : j \in jobs} THEN jobs
                     ELSE jobs \cup {[id |-> f, by |-> item.by, ix |-> item.ix]}
      BY Zenon, <2>2 DEF Load, Leads, ImportAt, To, Scheduled
    <3>2. \A y \in level : item.by < y.by \/ (item.by = y.by /\ item.ix <= y.ix)
      BY Zenon, <1>2 DEF First
    <3>3. Built(source, "prelude", modules, h, diags, queue, level \ {item}, jobs')
      BY Zenon, <1>3, <3>1, <3>2, LoadBuilt
    <3> HIDE DEF h
    <3> QED BY Zenon, <1>1, <1>2, <3>1, <3>3 DEF BuildInv
  <2> QED BY Zenon, <1>2, <2>1, <2>2
<1>5. SearchOK'
  BY Zenon, <1>1, SearchWaits DEF Inv
<1> QED BY Zenon, <1>4, <1>5 DEF Inv

LEMMA FanOutInv ==
  ASSUME Inv, FanOut
  PROVE  Inv'
<1>1. /\ phase = "prelude" /\ phase' = "analyze" /\ level = {}
      /\ UNCHANGED <<source, modules, graph, diags, queue, level, jobs, searchVars>>
  BY Zenon DEF FanOut, loadVars
<1>2. /\ Built(source, "prelude", modules, graph, diags, queue, level, jobs)
      /\ PhaseOK(source, "analyze", modules, queue, level, jobs)
      /\ queue \cup level = queue \cup level
  BY Zenon, <1>1 DEF Inv, BuildInv, Built, PhaseOK
<1>3. Built(source, "analyze", modules, graph, diags, queue, level, jobs)
  BY Zenon, <1>2, PhaseBuilt
<1>4. BuildInv'
  BY Zenon, <1>1, <1>3 DEF BuildInv
<1>5. SearchOK'
  BY Zenon, <1>1, SearchWaits DEF Inv
<1> QED BY Zenon, <1>4, <1>5 DEF Inv

LEMMA AnalyzeJobInv ==
  ASSUME Inv, NEW j, AnalyzeJob(j)
  PROVE  Inv'
<1>1. /\ phase = "analyze"
      /\ UNCHANGED <<source, phase, graph, modules, diags, queue, level, jobs, searchVars>>
  BY Zenon DEF AnalyzeJob
<1>2. BuildInv'
  BY Zenon, <1>1 DEF Inv, BuildInv
<1>3. SearchOK'
  BY Zenon, <1>1, SearchWaits DEF Inv
<1> QED BY Zenon, <1>2, <1>3 DEF Inv

LEMMA MergeInv ==
  ASSUME Inv, Merge
  PROVE  Inv'
<1> DEFINE n == {j.id : j \in jobs}
           E == diags \cup {Diag("parse_error", j) : j \in {i \in jobs : ~source[i.id].parses}}
           O == {}
<1>1. /\ phase = "analyze" /\ phase' = "levels" /\ jobs' = O
      /\ modules' = modules \cup n /\ diags' = E
      /\ UNCHANGED <<source, level, searchVars>>
  BY Zenon DEF Merge, Scheduled, Broken
<1>2. graph' = Grown(source, graph, n)
  BY Zenon DEF Merge, Scheduled, Grown, Raw, RawEdges, Imports
<1>3. queue' = ImportsOf(source, n)
  BY Zenon DEF Merge, Scheduled, Pending, Imports, ImportsOf
<1>4. Built(source, "levels", modules \cup n, Grown(source, graph, n), E,
            ImportsOf(source, n), level, O)
  BY Zenon, <1>1, MergeBuilt DEF Inv, BuildInv
<1> HIDE DEF n, E, O
<1>5. BuildInv'
  BY Zenon, <1>1, <1>2, <1>3, <1>4 DEF BuildInv
<1>6. SearchOK'
  BY Zenon, <1>1, SearchWaits DEF Inv
<1> QED BY Zenon, <1>5, <1>6 DEF Inv

LEMMA GraphIsGraph == Inv => Cycles!IsGraph(graph)
<1> SUFFICES ASSUME Inv PROVE Cycles!IsGraph(graph)
  OBVIOUS
<1>1. GraphOK(source, modules, ImportsOf(source, modules) \ (queue \cup level), graph)
      /\ modules \subseteq File
  BY Zenon DEF Inv, BuildInv, Built, Loading
<1>2. ASSUME NEW v \in DOMAIN graph PROVE v \in Vertex /\ graph[v] \in Seq(Vertex)
  <2>1. PICK f \in modules : v = Id(f)
    BY Zenon, <1>1 DEF GraphOK
  <2>2. graph[Id(f)] \in Seq(Vertex)
    BY Zenon, <1>1 DEF GraphOK, EdgesOK
  <2>3. Id(f) \in Vertex
    BY Zenon, <1>1 DEF Vertex
  <2> QED BY Zenon, <2>1, <2>2, <2>3
<1> QED BY Zenon, <1>2 DEF Cycles!IsGraph

LEMMA DetectCyclesInv ==
  ASSUME Inv, DetectCycles
  PROVE  Inv'
<1>1. /\ phase = "levels" /\ phase' = "cycles" /\ queue = {}
      /\ UNCHANGED <<source, modules, graph, diags, queue, level, jobs, stack, edge, emitted, clock>>
      /\ color' = [v \in Cycles!Nodes(graph) |-> "white"]
      /\ rank' = [v \in Cycles!Nodes(graph) |-> 0]
  BY Zenon DEF DetectCycles, loadVars
<1>2. /\ Built(source, "levels", modules, graph, diags, queue, level, jobs)
      /\ PhaseOK(source, "cycles", modules, queue, level, jobs)
      /\ queue \cup level = queue \cup level
  BY Zenon, <1>1 DEF Inv, BuildInv, Built, PhaseOK
<1>3. Built(source, "cycles", modules, graph, diags, queue, level, jobs)
  BY Zenon, <1>2, PhaseBuilt
<1>4. BuildInv'
  BY Zenon, <1>1, <1>3 DEF BuildInv
<1>5. NoSearch
  BY Zenon, <1>1 DEF Inv, SearchOK, Loaded
<1>6. Cycles!Init'
  <2>1. Cycles!IsGraph(graph)
    BY Zenon, GraphIsGraph
  <2>2. Cycles!IsGraph(graph)'
    BY Zenon, <1>1, <2>1 DEF Cycles!IsGraph
  <2> QED BY Zenon, <1>1, <1>5, <2>2 DEF NoSearch, Cycles!Init, Cycles!Begin
<1>7. (Cycles!Init => SearchInv)'
  BY InitInv, PTL
<1>8. SearchOK'
  BY Zenon, <1>1, <1>6, <1>7 DEF SearchOK, Loaded
<1> QED BY Zenon, <1>4, <1>8 DEF Inv

LEMMA SearchAction ==
  ASSUME Inv, Search
  PROVE  Inv'
<1>1. /\ phase = "cycles" /\ Cycles!Next
      /\ UNCHANGED <<source, phase, modules, diags, queue, level, jobs>>
  BY Zenon DEF Search, loadVars
<1>2. graph' = graph
  BY Zenon, <1>1 DEF Cycles!Next, Cycles!Step, Cycles!Start, Cycles!Descend, Cycles!BackEdge,
                     Cycles!PassBlack, Cycles!Leave
<1>3. BuildInv'
  BY Zenon, <1>1, <1>2 DEF Inv, BuildInv
<1>4. SearchInv
  BY Zenon, <1>1 DEF Inv, SearchOK, Loaded
<1>5. SearchInv'
  BY Zenon, <1>1, <1>4, SearchStep
<1>6. SearchOK'
  BY Zenon, <1>1, <1>5 DEF SearchOK, Loaded
<1> QED BY Zenon, <1>3, <1>6 DEF Inv

LEMMA DoneInv ==
  ASSUME Inv, Done
  PROVE  Inv'
<1>1. /\ phase = "cycles" /\ phase' = "done" /\ Cycles!Finished
      /\ UNCHANGED <<source, modules, graph, diags, queue, level, jobs>>
      /\ UNCHANGED <<graph, color, stack, edge, emitted, rank, clock>>
  BY Zenon DEF Done, loadVars, searchVars
<1>2. /\ Built(source, "cycles", modules, graph, diags, queue, level, jobs)
      /\ PhaseOK(source, "done", modules, queue, level, jobs)
      /\ queue \cup level = queue \cup level
  BY Zenon, <1>1 DEF Inv, BuildInv, Built, PhaseOK
<1>3. Built(source, "done", modules, graph, diags, queue, level, jobs)
  BY Zenon, <1>2, PhaseBuilt
<1>4. BuildInv'
  BY Zenon, <1>1, <1>3 DEF BuildInv
<1>5. SearchInv
  BY Zenon, <1>1 DEF Inv, SearchOK, Loaded
<1>6. SearchInv'
  BY Zenon, <1>1, <1>5, SearchKept
<1>7. Cycles!Finished'
  BY Zenon, <1>1 DEF Cycles!Finished
<1>8. SearchOK'
  BY Zenon, <1>1, <1>6, <1>7 DEF SearchOK, Loaded
<1> QED BY Zenon, <1>4, <1>8 DEF Inv

LEMMA InvKept ==
  ASSUME Inv, UNCHANGED vars
  PROVE  Inv'
<1>1. /\ UNCHANGED <<source, phase, modules, graph, diags, queue, level, jobs>>
      /\ UNCHANGED <<graph, color, stack, edge, emitted, rank, clock>>
  BY Zenon DEF vars, loadVars, searchVars
<1>2. BuildInv'
  BY Zenon, <1>1 DEF Inv, BuildInv
<1>3. SearchInv => SearchInv'
  BY Zenon, <1>1, SearchKept
<1>4. Cycles!Finished => Cycles!Finished'
  BY Zenon, <1>1 DEF Cycles!Finished
<1>5. SearchOK'
  BY Zenon, <1>1, <1>3, <1>4 DEF Inv, SearchOK, Loaded, NoSearch
<1> QED BY Zenon, <1>2, <1>5 DEF Inv

LEMMA AlwaysInv == Spec => []Inv
<1>1. Inv /\ [Next]_vars => Inv'
  <2> SUFFICES ASSUME Inv, [Next]_vars PROVE Inv'
    OBVIOUS
  <2>1. CASE AnalyzeEntry
    BY Zenon, <2>1, AnalyzeEntryInv
  <2>2. CASE TakeLevel
    BY Zenon, <2>2, TakeLevelInv
  <2>3. CASE PreludeImport
    BY Zenon, <2>3, PreludeImportInv
  <2>4. CASE FanOut
    BY Zenon, <2>4, FanOutInv
  <2>5. ASSUME NEW j \in jobs, AnalyzeJob(j) PROVE Inv'
    BY Zenon, <2>5, AnalyzeJobInv
  <2>6. CASE Merge
    BY Zenon, <2>6, MergeInv
  <2>7. CASE DetectCycles
    BY Zenon, <2>7, DetectCyclesInv
  <2>8. CASE Search
    BY Zenon, <2>8, SearchAction
  <2>9. CASE Done
    BY Zenon, <2>9, DoneInv
  <2>10. CASE UNCHANGED vars
    BY Zenon, <2>10, InvKept
  <2> QED BY Zenon, <2>1, <2>2, <2>3, <2>4, <2>5, <2>6, <2>7, <2>8, <2>9, <2>10 DEF Next
<1> QED BY <1>1, InvInit, PTL DEF Spec

---------------------------------------------------------------------------
LEMMA LoadedFacts ==
  ASSUME Inv, Loaded
  PROVE  LET A == ImportsOf(source, modules)
         IN  /\ source \in Sources /\ modules \subseteq File
             /\ source[Entry].parses => Entry \in modules
             /\ Reached(source, modules, A)
             /\ DiagsOK(source, modules, A, diags)
             /\ GraphOK(source, modules, A, graph)
             /\ SearchInv
<1> DEFINE A == ImportsOf(source, modules)
<1>1. queue = {} /\ level = {} /\ jobs = {} /\ (source[Entry].parses => Entry \in modules)
  BY Zenon DEF Inv, BuildInv, Built, PhaseOK, Loaded
<1>2. A \ (queue \cup level) = A /\ modules \cup {j.id : j \in jobs} = modules
  BY Zenon, <1>1
<1>3. Loading(source, modules, A, graph, diags, jobs)
  BY Zenon, <1>2 DEF Inv, BuildInv, Built
<1>4. SearchInv
  BY Zenon DEF Inv, SearchOK
<1> HIDE DEF A
<1>5. /\ source \in Sources /\ modules \subseteq File
      /\ Reached(source, modules, A)
      /\ DiagsOK(source, modules, A, diags)
      /\ GraphOK(source, modules, A, graph)
  BY Zenon, <1>2, <1>3 DEF Loading
<1> QED BY Zenon, <1>1, <1>4, <1>5 DEF A

LEMMA ClosedSame ==
  ASSUME NEW S
  PROVE  Closed(S) <=> ClosedIn(source, S)
<1>1. ASSUME Closed(S), NEW x \in ImportsOf(source, S), Leads(source, x)
      PROVE  To(source, x) \in S
  <2>1. x.by \in S /\ source[x.by].parses /\ x.ix \in 1 .. Len(source[x.by].imports)
    BY Zenon, ItemFacts
  <2> QED BY Zenon, <1>1, <2>1 DEF Closed, Resolves, Imports, Leads, To
<1>2. ASSUME ClosedIn(source, S), NEW f \in S, source[f].parses,
             NEW i \in 1 .. Len(Imports(f)), Resolves(f, i)
      PROVE  Imports(f)[i].to \in S
  <2> DEFINE x == [by |-> f, ix |-> i]
  <2>1. x \in ImportsOf(source, S)
    BY Zenon, <1>2, ItemFacts DEF Imports
  <2>2. x.by = f /\ x.ix = i
    BY Zenon
  <2> HIDE DEF x
  <2>3. Leads(source, x) /\ To(source, x) = Imports(f)[i].to
    BY Zenon, <1>2, <2>2 DEF Leads, To, Resolves, Imports
  <2>4. To(source, x) \in S
    BY Zenon, <1>2, <2>1, <2>3 DEF ClosedIn
  <2> QED BY Zenon, <2>3, <2>4
<1>3. Closed(S) => ClosedIn(source, S)
  BY Zenon, <1>1 DEF Closed, ClosedIn
<1>4. ClosedIn(source, S) => Closed(S)
  BY Zenon, <1>2 DEF Closed, ClosedIn
<1> QED BY Zenon, <1>3, <1>4

(***************************************************************************)
(* In any workspace, build() loads exactly the modules that imports reach  *)
(* from the entry: however many levels, in whatever order the workers end. *)
(***************************************************************************)
THEOREM LoadsWhatImportsReach == Spec => []EveryModuleIsLoaded
<1>1. Inv => EveryModuleIsLoaded
  <2> SUFFICES ASSUME Inv, Loaded
               PROVE  Closed(modules) /\ \A S \in SUBSET File : Closed(S) => modules \subseteq S
    BY Zenon DEF EveryModuleIsLoaded
  <2>1. /\ source[Entry].parses => Entry \in modules
        /\ Reached(source, modules, ImportsOf(source, modules))
    BY Zenon, LoadedFacts
  <2>2. ClosedIn(source, modules)
    BY Zenon, <2>1 DEF Reached, ClosedIn
  <2>3. ASSUME NEW S \in SUBSET File, Closed(S) PROVE modules \subseteq S
    <3>1. ClosedIn(source, S)
      BY Zenon, <2>3, ClosedSame
    <3> QED BY Zenon, <2>1, <3>1 DEF Reached
  <2> QED BY Zenon, <2>2, <2>3, ClosedSame
<1> QED BY <1>1, AlwaysInv, PTL

LEMMA SameItem ==
  ASSUME NEW s, NEW m, NEW x \in ImportsOf(s, m), NEW y \in ImportsOf(s, m),
         x.by = y.by, x.ix = y.ix
  PROVE  x = y
BY DEF ImportsOf

(* One diagnostic per import that leads nowhere. *)
NotesOn(D, x) == {d \in D : d.by = x.by /\ d.ix = x.ix /\ d.kind # "parse_error"}

LEMMA OneFault ==
  ASSUME NEW s, NEW m, NEW D, DiagsOK(s, m, ImportsOf(s, m), D), NEW x \in ImportsOf(s, m)
  PROVE  /\ Leads(s, x) => Cardinality(NotesOn(D, x)) = 0
         /\ ~Leads(s, x) => Cardinality(NotesOn(D, x)) = 1
<1> DEFINE F == NotesOn(D, x)
<1>1. ASSUME NEW d \in F PROVE ~Leads(s, x) /\ d = Fault(s, x)
  <2>1. PICK y \in ImportsOf(s, m) : ~Leads(s, y) /\ d = Fault(s, y)
    BY Zenon DEF DiagsOK, NotesOn
  <2>2. y.by = x.by /\ y.ix = x.ix
    BY Zenon, <2>1, FaultFacts DEF NotesOn
  <2>3. y = x
    BY Zenon, <2>2, SameItem
  <2> QED BY Zenon, <2>1, <2>3
<1>2. ~Leads(s, x) => Fault(s, x) \in F
  <2> SUFFICES ASSUME ~Leads(s, x) PROVE Fault(s, x) \in F
    BY Zenon
  <2>1. Fault(s, x) \in D
    BY Zenon DEF DiagsOK
  <2> QED BY Zenon, <2>1, FaultFacts DEF NotesOn
<1> HIDE DEF F
<1>3. (Leads(s, x) => F = {}) /\ (~Leads(s, x) => F = {Fault(s, x)})
  BY Zenon, <1>1, <1>2
<1>4. Cardinality({}) = 0
  BY Zenon, FS_EmptySet
<1>5. Cardinality({Fault(s, x)}) = 1
  BY Zenon, FS_Singleton
<1> QED BY Zenon, <1>3, <1>4, <1>5 DEF F

(***************************************************************************)
(* In any workspace, every import of a loaded module leads to a module or  *)
(* has its one diagnostic, a module that does not parse is blamed on one   *)
(* import, and the edges of a module line up with its imports.             *)
(***************************************************************************)
THEOREM AccountsForImports == Spec => []ImportsAreAccountedFor
<1>1. Inv => ImportsAreAccountedFor
  <2> SUFFICES ASSUME Inv, Loaded PROVE ImportsAreAccountedFor
    BY Zenon DEF ImportsAreAccountedFor
  <2> DEFINE s == source
             A == ImportsOf(s, modules)
  <2>1. /\ s \in Sources /\ modules \subseteq File
        /\ DiagsOK(s, modules, A, diags)
        /\ GraphOK(s, modules, A, graph)
    BY Zenon, LoadedFacts
  <2>2. ASSUME NEW f \in modules, NEW i \in 1 .. Len(Imports(f)), s[f].parses
        PROVE  Cardinality({d \in diags : d.by = f /\ d.ix = i /\ d.kind # "parse_error"}) =
                 IF Resolves(f, i) THEN 0 ELSE 1
    <3> DEFINE x == [by |-> f, ix |-> i]
    <3>1. x \in A
      BY Zenon, <2>2, ItemFacts DEF Imports
    <3>2. x.by = f /\ x.ix = i
      BY Zenon
    <3> HIDE DEF x
    <3>3. /\ Leads(s, x) => Cardinality(NotesOn(diags, x)) = 0
          /\ ~Leads(s, x) => Cardinality(NotesOn(diags, x)) = 1
      BY Zenon, <2>1, <3>1, OneFault
    <3>4. Leads(s, x) <=> Resolves(f, i)
      BY Zenon, <3>2 DEF Leads, To, Resolves, Imports
    <3> QED BY Zenon, <3>2, <3>3, <3>4 DEF NotesOn
  <2>3. ASSUME NEW f \in modules, ~s[f].parses
        PROVE  Cardinality({d \in diags : /\ d.kind = "parse_error"
                                          /\ d.by # NoFile
                                          /\ Imports(d.by)[d.ix].to = f}) = 1
    <3> DEFINE B == {d \in diags : /\ d.kind = "parse_error"
                                   /\ d.by # NoFile
                                   /\ Imports(d.by)[d.ix].to = f}
    <3>1. \A d : d \in B <=> d \in diags /\ Blames(s, d, f)
      BY Zenon DEF Blames, To, Imports
    <3>2. PICK d \in diags : Blames(s, d, f)
      BY Zenon, <2>1, <2>3 DEF DiagsOK
    <3>3. \A e \in diags : Blames(s, e, f) => e = d
      BY Zenon, <2>1, <3>2 DEF DiagsOK
    <3> HIDE DEF B
    <3>4. B = {d}
      BY Zenon, <3>1, <3>2, <3>3
    <3>5. Cardinality({d}) = 1
      BY Zenon, FS_Singleton
    <3> QED BY Zenon, <3>4, <3>5 DEF B
  <2>4. ASSUME NEW f \in modules, s[f].parses, ~PathAfterFailedPin(f), NEW i \in 1 .. Len(Imports(f))
        PROVE  graph[Id(f)][i] = IF Resolves(f, i) THEN Id(Imports(f)[i].to)
                                                   ELSE Path(Imports(f)[i].to)
    <3>1. Exact(s, f)
      <4> SUFFICES ASSUME NEW y \in ImportsOf(s, {f}), NEW z \in ImportsOf(s, {f}),
                          y.ix < z.ix, To(s, y) = To(s, z), Leads(s, z)
                   PROVE  Leads(s, y)
        BY Zenon DEF Exact
      <4>1. y.by = f /\ z.by = f /\ y.ix \in 1 .. Len(Imports(f)) /\ z.ix \in 1 .. Len(Imports(f))
        BY Zenon, OneModule DEF Imports
      <4>2. /\ Leads(s, y) <=> Resolves(f, y.ix)
            /\ Leads(s, z) <=> Resolves(f, z.ix)
            /\ To(s, y) = Imports(f)[y.ix].to /\ To(s, z) = Imports(f)[z.ix].to
        BY Zenon, <4>1 DEF Leads, To, Resolves, Imports
      <4> QED BY Zenon, <2>4, <4>1, <4>2 DEF PathAfterFailedPin
    <3> DEFINE x == [by |-> f, ix |-> i]
               e == graph[Id(f)]
    <3>2. x \in ImportsOf(s, {f}) /\ x \in A
      <4>1. f \in {f}
        BY Zenon
      <4> QED BY Zenon, <2>4, <4>1, ItemFacts DEF Imports
    <3>3. x.by = f /\ x.ix = i
      BY Zenon
    <3>4. EdgesOK(s, f, A, e)
      BY Zenon, <2>1 DEF GraphOK
    <3> HIDE DEF x, e, A
    <3>5. e[x.ix] = IF x \in A /\ Leads(s, x) THEN Id(To(s, x)) ELSE Path(To(s, x))
      BY Zenon, <3>1, <3>2, <3>4 DEF EdgesOK
    <3>6. (Leads(s, x) <=> Resolves(f, i)) /\ To(s, x) = Imports(f)[i].to
      BY Zenon, <3>3 DEF Leads, To, Resolves, Imports
    <3>7. e[i] = IF Resolves(f, i) THEN Id(Imports(f)[i].to) ELSE Path(Imports(f)[i].to)
      BY Zenon, <3>2, <3>3, <3>5, <3>6
    <3> QED BY Zenon, <3>7 DEF e
  <2> QED BY Zenon, <2>2, <2>3, <2>4 DEF ImportsAreAccountedFor
<1> QED BY <1>1, AlwaysInv, PTL

(* An edge from id to id is an import that leads to a module. *)
Imported(s, f, t) ==
  \E k \in 1 .. Len(s[f].imports) :
    Leads(s, [by |-> f, ix |-> k]) /\ To(s, [by |-> f, ix |-> k]) = t

LEMMA EdgeIsImport ==
  ASSUME NEW s, NEW m, NEW g, GraphOK(s, m, ImportsOf(s, m), g),
         NEW f \in m, NEW i \in 1 .. Len(g[Id(f)]), NEW t, g[Id(f)][i] = Id(t)
  PROVE  s[f].parses /\ Imported(s, f, t)
<1> DEFINE e == g[Id(f)]
           x == [by |-> f, ix |-> i]
<1>1. EdgesOK(s, f, ImportsOf(s, m), e)
  BY Zenon DEF GraphOK
<1>2. s[f].parses
  <2> SUFFICES ASSUME ~s[f].parses PROVE FALSE
    BY Zenon
  <2>1. e = <<>>
    BY Zenon, <1>1 DEF EdgesOK
  <2>2. Len(e) = 0
    BY <2>1
  <2> HIDE DEF e
  <2>3. i \in 1 .. 0
    BY Zenon, <2>2 DEF e
  <2> QED BY <2>3
<1>3. i \in 1 .. Len(s[f].imports)
  BY Zenon, <1>1, <1>2 DEF EdgesOK
<1>4. x \in ImportsOf(s, {f}) /\ x.ix = i
  <2>1. f \in {f}
    BY Zenon
  <2> QED BY Zenon, <1>2, <1>3, <2>1, ItemFacts
<1> HIDE DEF x
<1>5. e[i] # Path(To(s, x))
  BY Zenon, Names
<1> HIDE DEF e
<1>6. e[x.ix] = Id(To(s, x)) /\ \E y \in ImportsOf(s, m) : y.by = f /\ Leads(s, y) /\ To(s, y) = To(s, x)
  BY Zenon, <1>1, <1>4, <1>5 DEF EdgesOK
<1>7. PICK y \in ImportsOf(s, m) : y.by = f /\ Leads(s, y) /\ To(s, y) = To(s, x)
  BY Zenon, <1>6
<1>8. To(s, x) = t
  BY Zenon, <1>4, <1>6, Names DEF e
<1>9. y = [by |-> f, ix |-> y.ix] /\ y.ix \in 1 .. Len(s[f].imports)
  BY Zenon, <1>7, ItemFacts
<1> QED BY Zenon, <1>2, <1>7, <1>8, <1>9 DEF Imported

(* An import that leads to a module is an edge from id to id. *)
LEMMA ImportIsEdge ==
  ASSUME NEW s, NEW m, NEW g, GraphOK(s, m, ImportsOf(s, m), g),
         NEW f \in m, s[f].parses, NEW k \in 1 .. Len(s[f].imports),
         Leads(s, [by |-> f, ix |-> k])
  PROVE  Id(To(s, [by |-> f, ix |-> k])) \in Cycles!EdgesOf(g, Id(f))
<1> DEFINE x == [by |-> f, ix |-> k]
           e == g[Id(f)]
<1>1. EdgesOK(s, f, ImportsOf(s, m), e)
  BY Zenon DEF GraphOK
<1>2. x \in ImportsOf(s, {f}) /\ x \in ImportsOf(s, m)
  <2>1. f \in {f}
    BY Zenon
  <2> QED BY Zenon, <2>1, ItemFacts
<1>3. Leads(s, x)
  BY Zenon
<1> HIDE DEF x, e
<1>4. \E i \in 1 .. Len(e) : e[i] = Id(To(s, x))
  BY Zenon, <1>1, <1>2, <1>3 DEF EdgesOK
<1> QED BY Zenon, <1>4 DEF Cycles!EdgesOf, x, e

LEMMA LeadsResolves ==
  ASSUME NEW f, NEW k
  PROVE  /\ Leads(source, [by |-> f, ix |-> k]) <=> Resolves(f, k)
         /\ To(source, [by |-> f, ix |-> k]) = Imports(f)[k].to
<1> DEFINE x == [by |-> f, ix |-> k]
<1>1. x.by = f /\ x.ix = k
  BY Zenon
<1> HIDE DEF x
<1>2. (Leads(source, x) <=> Resolves(f, k)) /\ To(source, x) = Imports(f)[k].to
  BY Zenon, <1>1 DEF Leads, To, Resolves, Imports
<1> QED BY Zenon, <1>2 DEF x

(* The graph has a cycle exactly if the files do. *)
LEMMA SameCycles ==
  ASSUME Inv, Loaded
  PROVE  Cycles!Cyclic <=> \E S \in SUBSET modules : ImportCycle(S)
<1> DEFINE s == source
           A == ImportsOf(s, modules)
<1>1. GraphOK(s, modules, A, graph) /\ DOMAIN graph = {Id(f) : f \in modules}
  BY Zenon, LoadedFacts DEF GraphOK
<1>2. ASSUME NEW V \in SUBSET Cycles!Nodes(graph), Cycles!Trapped(V)
      PROVE  \E S \in SUBSET modules : ImportCycle(S)
  <2> DEFINE S == {f \in modules : Id(f) \in V}
  <2>1. S # {}
    <3>1. PICK v \in V : v \in DOMAIN graph
      BY Zenon, <1>2 DEF Cycles!Trapped
    <3> QED BY Zenon, <1>1, <3>1
  <2>2. ASSUME NEW f \in S
        PROVE  /\ source[f].parses
               /\ \E k \in 1 .. Len(Imports(f)) : Resolves(f, k) /\ Imports(f)[k].to \in S
    <3>1. PICK w \in Cycles!EdgesOf(graph, Id(f)) : w \in V
      BY Zenon, <1>2 DEF Cycles!Trapped
    <3>2. PICK i \in 1 .. Len(graph[Id(f)]) : graph[Id(f)][i] = w
      BY Zenon DEF Cycles!EdgesOf
    <3>3. w \in DOMAIN graph
      BY Zenon, <1>2, <3>1 DEF Cycles!Trapped
    <3>4. PICK t \in modules : w = Id(t)
      BY Zenon, <1>1, <3>3
    <3>5. s[f].parses /\ Imported(s, f, t)
      BY Zenon, <1>1, <3>2, <3>4, EdgeIsImport
    <3>6. PICK k \in 1 .. Len(s[f].imports) :
            Leads(s, [by |-> f, ix |-> k]) /\ To(s, [by |-> f, ix |-> k]) = t
      BY Zenon, <3>5 DEF Imported
    <3>7. Resolves(f, k) /\ Imports(f)[k].to = t
      BY Zenon, <3>6, LeadsResolves
    <3>8. t \in S
      BY Zenon, <3>1, <3>4
    <3> QED BY Zenon, <3>5, <3>6, <3>7, <3>8 DEF Imports
  <2>3. S \in SUBSET modules
    BY Zenon
  <2> HIDE DEF S
  <2> QED BY Zenon, <2>1, <2>2, <2>3 DEF ImportCycle
<1>3. ASSUME NEW S \in SUBSET modules, ImportCycle(S) PROVE Cycles!Cyclic
  <2> DEFINE V == {Id(f) : f \in S}
  <2>1. V # {}
    BY Zenon, <1>3 DEF ImportCycle
  <2>2. \A v \in V : v \in DOMAIN graph
    BY Zenon, <1>1
  <2>3. ASSUME NEW f \in S PROVE \E w \in V : w \in Cycles!EdgesOf(graph, Id(f))
    <3>1. PICK k \in 1 .. Len(Imports(f)) : Resolves(f, k) /\ Imports(f)[k].to \in S
      BY Zenon, <1>3 DEF ImportCycle
    <3>2. s[f].parses /\ k \in 1 .. Len(s[f].imports) /\ Leads(s, [by |-> f, ix |-> k])
      BY Zenon, <1>3, <3>1, LeadsResolves DEF ImportCycle, Imports
    <3>3. Id(To(s, [by |-> f, ix |-> k])) \in Cycles!EdgesOf(graph, Id(f))
      BY Zenon, <1>1, <3>2, ImportIsEdge
    <3>4. Id(Imports(f)[k].to) \in Cycles!EdgesOf(graph, Id(f))
      BY Zenon, <3>3, LeadsResolves
    <3> QED BY Zenon, <3>1, <3>4
  <2>4. \A v \in V : Cycles!EdgesOf(graph, v) \cap V # {}
    BY Zenon, <2>3
  <2>5. V \in SUBSET Cycles!Nodes(graph)
    BY Zenon, <2>2 DEF Cycles!Nodes
  <2> HIDE DEF V
  <2>6. Cycles!Trapped(V)
    BY Zenon, <2>1, <2>2, <2>4 DEF Cycles!Trapped
  <2> QED BY Zenon, <2>5, <2>6 DEF Cycles!Cyclic
<1> QED BY Zenon, <1>2, <1>3 DEF Cycles!Cyclic

(* A closed walk in the graph is a circle of imports. *)
LEMMA WalkIsCircle ==
  ASSUME Inv, Loaded, NEW chain \in emitted
  PROVE  ImportCircle(chain)
<1> DEFINE s == source
           A == ImportsOf(s, modules)
           n == Len(chain)
<1>1. /\ GraphOK(s, modules, A, graph) /\ DOMAIN graph = {Id(f) : f \in modules}
      /\ SearchInv
  BY Zenon, LoadedFacts DEF GraphOK
<1>2. /\ n >= 2 /\ chain[1] = chain[n]
      /\ \A k \in 1 .. n - 1 : /\ chain[k] \in DOMAIN graph
                               /\ chain[k + 1] \in Cycles!EdgesOf(graph, chain[k])
  BY Zenon, <1>1 DEF SearchInv, Cycles!ChainsAreCycles, Cycles!IsCycle
<1>3. n \in Nat
  <2>1. chain \in Seq(Cycles!Nodes(graph))
    BY Zenon, <1>1 DEF SearchInv, Cycles!TypeOK
  <2> QED BY Zenon, <2>1, LenProperties
<1> HIDE DEF n
<1>4. ASSUME NEW k \in 1 .. n - 1
      PROVE  \E f \in modules : \E i \in 1 .. Len(Imports(f)) :
               /\ Resolves(f, i)
               /\ chain[k] = Id(f)
               /\ chain[k + 1] = Id(Imports(f)[i].to)
  <2>1. PICK f \in modules : chain[k] = Id(f)
    BY Zenon, <1>1, <1>2
  <2>2. PICK i \in 1 .. Len(graph[Id(f)]) : graph[Id(f)][i] = chain[k + 1]
    BY Zenon, <1>2, <2>1 DEF Cycles!EdgesOf
  <2>3. chain[k + 1] \in DOMAIN graph
    <3>1. CASE k + 1 = n
      <4>1. 1 \in 1 .. n - 1
        BY <1>2, <1>3
      <4> QED BY Zenon, <1>2, <3>1, <4>1
    <3>2. CASE k + 1 # n
      <4>1. k + 1 \in 1 .. n - 1
        BY <1>3, <3>2
      <4> QED BY Zenon, <1>2, <4>1
    <3> QED BY Zenon, <3>1, <3>2
  <2>4. PICK t \in modules : chain[k + 1] = Id(t)
    BY Zenon, <1>1, <2>3
  <2>5. Imported(s, f, t)
    BY Zenon, <1>1, <2>2, <2>4, EdgeIsImport
  <2>6. PICK j \in 1 .. Len(s[f].imports) :
          Leads(s, [by |-> f, ix |-> j]) /\ To(s, [by |-> f, ix |-> j]) = t
    BY Zenon, <2>5 DEF Imported
  <2>7. Resolves(f, j) /\ Imports(f)[j].to = t
    BY Zenon, <2>6, LeadsResolves
  <2> QED BY Zenon, <2>1, <2>4, <2>6, <2>7 DEF Imports
<1> QED BY Zenon, <1>2, <1>4 DEF ImportCircle, n

(***************************************************************************)
(* In any workspace, every chain a build reports is a circle of imports    *)
(* between the files as they are, and a build that ends has reported one   *)
(* if and only if the modules it loaded import each other in a circle.     *)
(***************************************************************************)
THEOREM ReportsCircularImports == Spec => []CircularImportsAreReported
<1>1. Inv => CircularImportsAreReported
  <2> SUFFICES ASSUME Inv PROVE CircularImportsAreReported
    BY Zenon
  <2>1. ASSUME NEW chain \in emitted PROVE ImportCircle(chain)
    <3>1. Loaded
      BY Zenon DEF Inv, SearchOK, NoSearch
    <3> QED BY Zenon, <3>1, WalkIsCircle
  <2>2. ASSUME phase = "done" PROVE emitted # {} <=> \E S \in SUBSET modules : ImportCycle(S)
    <3>1. Loaded /\ SearchInv /\ Cycles!Finished
      BY Zenon, <2>2 DEF Inv, SearchOK, Loaded
    <3>2. emitted # {} <=> Cycles!Cyclic
      BY Zenon, <3>1, ChainIsTrapped, SilentIsAcyclic
    <3> QED BY Zenon, <3>1, <3>2, SameCycles
  <2> QED BY Zenon, <2>1, <2>2 DEF CircularImportsAreReported
<1> QED BY <1>1, AlwaysInv, PTL
===========================================================================
