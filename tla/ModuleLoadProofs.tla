-------------------------- MODULE ModuleLoadProofs -------------------------
(***************************************************************************)
(* Import cycles never yield values, are never reported where there are    *)
(* none, and cached modules are what they were evaluated to first: for any *)
(* threads, import graphs, names, versions and edits.                      *)
(***************************************************************************)
EXTENDS ModuleLoad, FiniteSetTheorems, SequenceTheorems, TLAPS

Pcs      == {"cache", "check", "enter", "body", "stored"}
Texts    == Versions \cup {NoVersion}
Outcomes == {"none", "ok"} \cup Errors
Frames   == [id : Modules, pin : Texts, ver : Versions, pc : Pcs, at : Nat \ {0}]
Rets     == [outcome : Outcomes, ver : Texts]

Types ==
    /\ graph \in [Modules -> Seq(Names)]
    /\ workspace \in [Modules -> Texts]
    /\ disk \in [Modules -> Texts]
    /\ module_cache \in [Modules -> Texts]
    /\ loading_modules \in [Modules -> Nat]
    /\ stack \in [Threads -> Seq(Frames)]
    /\ ret \in [Threads -> Rets]
    /\ edited \subseteq Modules
    /\ overlap \in BOOLEAN
    /\ results \subseteq Modules \X Texts \X Outcomes \X Texts

-----------------------------------------------------------------------------
Cached(c) == {m \in Modules : c[m] # NoVersion}

\* What cached modules import is cached, and every set of them has one that
\* imports none of the set: they can be evaluated in some order.
Settled(g, C) ==
    /\ Closed(g, C)
    /\ \A S \in SUBSET C : S # {} => \E x \in S : Direct(g, x) \cap S = {}

Import_(g, f) == CanonicalId[g[f.id][f.at]]

\* A frame's imports up to the one it is at are cached, and all of them once it
\* has a value.
FrameOK(f, g, C) ==
    /\ f.pc \in {"cache", "check", "enter"} => f.at = 1
    /\ f.pc = "body" => \A k \in 1..Len(g[f.id]) : k < f.at => CanonicalId[g[f.id][k]] \in C
    /\ f.pc = "stored" => f.id \in C

\* A frame under another waits for the import the other one loads.
Waits(f, h, g) ==
    /\ f.pc = "body" /\ f.at \in 1..Len(g[f.id])
    /\ h.id = Import_(g, f)

Below(f, h, g) ==
    /\ h.id \in Reachable(g, f.id)
    /\ h.pc \in {"enter", "body", "stored"} => h.id # f.id

StackOK(st, g, C) ==
    \A i \in 1..Len(st) :
       /\ FrameOK(st[i], g, C)
       /\ \A j \in 1..Len(st) : j = i + 1 => Waits(st[i], st[j], g)
       /\ i # Len(st) => st[i].pc = "body"
       /\ \A j \in 1..Len(st) : i < j => Below(st[i], st[j], g)

\* What a load returns goes to a frame that waits for it.
RetOK(st, r, g, C) ==
    Len(st) > 0 /\ r # NoRet =>
       /\ st[Len(st)].pc = "body"
       /\ r.outcome = "ok" => /\ st[Len(st)].at \in 1..Len(g[st[Len(st)].id])
                              /\ Import_(g, st[Len(st)]) \in C

Holds(st, m) == \E i \in 1..Len(st) : Guarded(st[i]) /\ st[i].id = m
Holders(s, m) == {t \in Threads : Holds(s[t], m)}

\* loading_modules counts the threads that have the module under way.
Counted == \A m \in Modules : loading_modules[m] = Cardinality(Holders(stack, m))

MeetsCycle(g, m) == \E n \in Reachable(g, m) : OnCycle(g, n)

\* When loads have not overlapped, one thread at most is busy, what it is
\* loading is not cached, and what it reports as circular is.
Alone(st, r, g, c) ==
    /\ \A i \in 1..Len(st) : st[i].pc \in {"check", "enter", "body"} => c[st[i].id] = NoVersion
    /\ Len(st) > 0 /\ r.outcome = "circular" => MeetsCycle(g, st[Len(st)].id)

NoOverlap ==
    ~overlap =>
       /\ \A t, u \in Threads : Len(stack[t]) > 0 /\ Len(stack[u]) > 0 => t = u
       /\ \A t \in Threads : Alone(stack[t], ret[t], graph, module_cache)

ResultOK(r, g, C, o) ==
    /\ r[3] = "ok" => r[1] \in C
    /\ ~o /\ r[3] = "circular" => MeetsCycle(g, r[1])

\* What is known of a module whose file has not changed.
Same(x, v) == x = NoVersion \/ x = v
FramesOf(st, m, v) == \A i \in 1..Len(st) : st[i].id = m => st[i].ver = v /\ Same(st[i].pin, v)
ResultOf(r, m, v)  == r[1] = m /\ r[3] = "ok" => r[4] = v /\ Same(r[2], v)

Unedited ==
    \A m \in Modules \ edited : workspace[m] = NoVersion =>
       /\ Same(module_cache[m], disk[m])
       /\ \A t \in Threads : FramesOf(stack[t], m, disk[m])
       /\ \A r \in results : ResultOf(r, m, disk[m])

Inv ==
    /\ Types
    /\ Settled(graph, Cached(module_cache))
    /\ \A t \in Threads : StackOK(stack[t], graph, Cached(module_cache))
    /\ \A t \in Threads : RetOK(stack[t], ret[t], graph, Cached(module_cache))
    /\ Counted
    /\ NoOverlap
    /\ \A r \in results : ResultOK(r, graph, Cached(module_cache), overlap)
    /\ Unedited

-----------------------------------------------------------------------------
(* Import graphs. *)

ImportGraphs == [Modules -> Seq(Names)]

LEMMA DirectTyped ==
    ASSUME NEW g \in ImportGraphs, NEW m \in Modules
    PROVE  /\ Direct(g, m) \subseteq Modules
           /\ \A k \in 1..Len(g[m]) : CanonicalId[g[m][k]] \in Direct(g, m)
<1>1. g[m] \in Seq(Names)
    BY Zenon DEF ImportGraphs
<1>2. \A k \in 1..Len(g[m]) : g[m][k] \in Names
    BY <1>1, ElementOfSeq
<1>3. \A x \in Names : CanonicalId[x] \in Modules
    BY Zenon, ConstantsAssumption
<1> QED
    BY Zenon, <1>2, <1>3 DEF Direct

LEMMA ReachableFacts ==
    ASSUME NEW g \in ImportGraphs, NEW m \in Modules
    PROVE  /\ m \in Reachable(g, m)
           /\ Reachable(g, m) \in SUBSET Modules
           /\ Closed(g, Reachable(g, m))
           /\ \A s \in SUBSET Modules : m \in s /\ Closed(g, s) => Reachable(g, m) \subseteq s
<1>1. m \in Reachable(g, m) /\ Reachable(g, m) \in SUBSET Modules
    BY Zenon DEF Reachable
<1>2. \A s \in SUBSET Modules : m \in s /\ Closed(g, s) => Reachable(g, m) \subseteq s
    BY Zenon DEF Reachable
<1>3. ASSUME NEW n \in Reachable(g, m), NEW d \in Direct(g, n) PROVE d \in Reachable(g, m)
  <2>1. n \in Modules
      BY Zenon, <1>1
  <2>2. d \in Modules
      BY Zenon, <2>1, DirectTyped
  <2>3. ASSUME NEW s \in SUBSET Modules, m \in s, Closed(g, s) PROVE d \in s
    <3>1. n \in s
        BY Zenon, <2>3, <1>2
    <3> QED
        BY Zenon, <3>1, <2>3 DEF Closed
  <2> QED
      BY Zenon, <2>2, <2>3 DEF Reachable
<1> QED
    BY Zenon, <1>1, <1>2, <1>3 DEF Closed

LEMMA ReachableTrans ==
    ASSUME NEW g \in ImportGraphs, NEW m \in Modules, NEW n \in Reachable(g, m)
    PROVE  /\ n \in Modules
           /\ Reachable(g, n) \subseteq Reachable(g, m)
           /\ Direct(g, n) \subseteq Reachable(g, m)
<1>1. n \in Modules
    BY Zenon, ReachableFacts
<1>2. /\ Reachable(g, m) \in SUBSET Modules /\ Closed(g, Reachable(g, m))
    BY Zenon, ReachableFacts
<1>3. Reachable(g, n) \subseteq Reachable(g, m)
    BY Zenon, <1>1, <1>2, ReachableFacts
<1> QED
    BY Zenon, <1>1, <1>2, <1>3 DEF Closed

LEMMA ReachableSplit ==
    ASSUME NEW g \in ImportGraphs, NEW m \in Modules, NEW n \in Reachable(g, m), n # m
    PROVE  \E d \in Direct(g, m) : n \in Reachable(g, d)
<1> DEFINE s == {x \in Modules : x = m \/ \E d \in Direct(g, m) : x \in Reachable(g, d)}
<1>1. m \in s /\ s \in SUBSET Modules
    BY Zenon
<1>2. Closed(g, s)
  <2> SUFFICES ASSUME NEW x \in s, NEW y \in Direct(g, x) PROVE y \in s
      BY Zenon DEF Closed
  <2>1. x \in Modules /\ y \in Modules
      BY Zenon, DirectTyped
  <2>2. CASE x = m
      BY Zenon, <2>1, <2>2, ReachableFacts
  <2>3. ASSUME NEW d \in Direct(g, m), x \in Reachable(g, d) PROVE y \in s
    <3>1. d \in Modules
        BY Zenon, DirectTyped
    <3>2. y \in Reachable(g, d)
        BY Zenon, <3>1, <2>3, ReachableTrans
    <3> QED
        BY Zenon, <3>2, <2>1
  <2> QED
      BY Zenon, <2>2, <2>3
<1>3. n \in s
    BY Zenon, <1>1, <1>2, ReachableFacts
<1> QED
    BY Zenon, <1>3

\* A module among the settled ones meets no cycle: the modules on it would be
\* a set in which each imports another one.
LEMMA SettledMeetsNoCycle ==
    ASSUME NEW g \in ImportGraphs, NEW C \in SUBSET Modules, Settled(g, C),
           NEW m \in C, NEW n \in Reachable(g, m)
    PROVE  ~OnCycle(g, n)
<1> SUFFICES ASSUME NEW k \in Direct(g, n), n \in Reachable(g, k) PROVE FALSE
    BY Zenon DEF OnCycle
<1>1. m \in Modules /\ n \in Modules
    BY Zenon, ReachableFacts
<1>2. Reachable(g, m) \subseteq C
    BY Zenon, <1>1, ReachableFacts DEF Settled
<1>3. n \in C
    BY Zenon, <1>2
<1>4. Reachable(g, n) \subseteq C
    BY Zenon, <1>1, <1>3, ReachableFacts DEF Settled
<1> DEFINE S == {x \in C : x \in Reachable(g, n) /\ n \in Reachable(g, x)}
<1>5. n \in S
    BY Zenon, <1>1, <1>3, ReachableFacts
<1>6. S \in SUBSET C /\ S # {}
    BY Zenon, <1>5
<1>7. PICK x \in S : Direct(g, x) \cap S = {}
    BY Zenon, <1>6 DEF Settled
<1>8. x \in Modules /\ x \in Reachable(g, n) /\ n \in Reachable(g, x)
    BY Zenon, <1>7
<1>9. \E d \in Direct(g, x) : n \in Reachable(g, d)
  <2>1. CASE x = n
      BY Zenon, <2>1
  <2>2. CASE x # n
      BY Zenon, <2>2, <1>8, ReachableSplit
  <2> QED
      BY Zenon, <2>1, <2>2
<1>10. PICK d \in Direct(g, x) : n \in Reachable(g, d)
    BY Zenon, <1>9
<1>11. d \in Reachable(g, n)
    BY Zenon, <1>1, <1>8, ReachableTrans
<1>12. d \in S
    BY Zenon, <1>4, <1>10, <1>11
<1> QED
    BY Zenon, <1>7, <1>10, <1>12

\* A module whose imports are cached may be cached.
LEMMA SettledGrows ==
    ASSUME NEW g \in ImportGraphs, NEW C \in SUBSET Modules, Settled(g, C),
           NEW m \in Modules, Direct(g, m) \subseteq C
    PROVE  Settled(g, C \cup {m})
<1>1. Closed(g, C \cup {m})
    BY Zenon DEF Settled, Closed
<1>2. ASSUME NEW S \in SUBSET (C \cup {m}), S # {} PROVE \E x \in S : Direct(g, x) \cap S = {}
  <2>1. CASE m \notin S \/ m \in C
    <3>1. S \in SUBSET C
        BY Zenon, <2>1
    <3> QED
        BY Zenon, <3>1, <1>2 DEF Settled
  <2>2. CASE m \in S /\ m \notin C
    <3> DEFINE R == S \ {m}
    <3>1. R \in SUBSET C
        BY Zenon
    <3>2. CASE R = {}
      <4>1. Direct(g, m) \cap S = {}
          BY Zenon, <2>2, <3>2
      <4> QED
          BY Zenon, <4>1, <2>2
    <3>3. CASE R # {}
      <4>1. PICK x \in R : Direct(g, x) \cap R = {}
          BY Zenon, <3>1, <3>3 DEF Settled
      <4>2. x \in C /\ x \in S
          BY Zenon, <4>1
      <4>3. m \notin Direct(g, x)
          BY Zenon, <2>2, <4>2 DEF Settled, Closed
      <4> QED
          BY Zenon, <4>1, <4>2, <4>3
    <3> QED
        BY Zenon, <3>2, <3>3
  <2> QED
      BY Zenon, <2>1, <2>2
<1> QED
    BY Zenon, <1>1, <1>2 DEF Settled

-----------------------------------------------------------------------------
(* Stacks. *)

\* Front drops the last element.
LEMMA FrontFacts ==
    ASSUME NEW S, NEW s \in Seq(S), Len(s) > 0
    PROVE  /\ Front(s) \in Seq(S) /\ Len(Front(s)) = Len(s) - 1
           /\ \A i \in 1..(Len(s) - 1) : Front(s)[i] = s[i]
<1> DEFINE m == Len(s) - 1
<1>1. m \in Nat /\ m \in Int /\ 1 \in Int
    BY LenProperties
<1>2. \A i \in 1..m : s[i] \in S
    BY ElementOfSeq, LenProperties
<1>3. Front(s) = SubSeq(s, 1, m)
    BY Zenon DEF Front
<1> HIDE DEF m
<1>4. /\ SubSeq(s, 1, m) \in Seq(S)
      /\ Len(SubSeq(s, 1, m)) = IF 1 <= m THEN m - 1 + 1 ELSE 0
      /\ \A i \in 1..(m - 1 + 1) : SubSeq(s, 1, m)[i] = s[1 + i - 1]
    BY <1>1, <1>2, SubSeqProperties
<1>5. m - 1 + 1 = m /\ (IF 1 <= m THEN m - 1 + 1 ELSE 0) = m /\ \A i \in 1..m : 1 + i - 1 = i
    BY <1>1
<1>6. Len(Front(s)) = m /\ \A i \in 1..m : Front(s)[i] = s[i]
    BY Zenon, <1>3, <1>4, <1>5
<1> QED
    BY Zenon, <1>3, <1>4, <1>6 DEF m

\* ss is st with its last element replaced by f.
Retopped(st, f, ss) ==
    /\ ss \in Seq(Frames) /\ Len(ss) = Len(st) /\ ss[Len(st)] = f
    /\ \A i \in 1..Len(st) : i # Len(st) => ss[i] = st[i]

LEMMA RetopFacts ==
    ASSUME NEW st \in Seq(Frames), Len(st) > 0, NEW f \in Frames
    PROVE  Retopped(st, f, Append(Front(st), f))
<1> DEFINE m  == Len(st) - 1
           fr == Front(st)
<1>1. m \in Nat /\ m + 1 = Len(st) /\ \A i \in 1..Len(st) : i # Len(st) => i \in 1..m
    BY LenProperties
<1>2. fr \in Seq(Frames) /\ Len(fr) = m /\ \A i \in 1..m : fr[i] = st[i]
    BY Zenon, FrontFacts
<1> HIDE DEF fr, m
<1>3. /\ Append(fr, f) \in Seq(Frames) /\ Len(Append(fr, f)) = Len(fr) + 1
      /\ \A i \in 1..Len(fr) : Append(fr, f)[i] = fr[i]
      /\ Append(fr, f)[Len(fr) + 1] = f
    BY <1>2, AppendProperties
<1>4. Retopped(st, f, Append(fr, f))
    BY Zenon, <1>1, <1>2, <1>3 DEF Retopped
<1> QED
    BY <1>4 DEF fr

LEMMA StackRetop ==
    ASSUME NEW st \in Seq(Frames), NEW g, NEW C, StackOK(st, g, C), Len(st) > 0,
           NEW f \in Frames, f.id = st[Len(st)].id, FrameOK(f, g, C),
           \/ f.pc \notin {"enter", "body", "stored"}
           \/ st[Len(st)].pc \in {"enter", "body", "stored"}
           \/ \A i \in 1..Len(st) : i # Len(st) => st[i].id # f.id,
           NEW ss, Retopped(st, f, ss)
    PROVE  StackOK(ss, g, C)
<1> DEFINE n == Len(st)
<1>1. n \in Nat /\ n \in 1..n /\ \A i, j \in 1..n : j = i + 1 => i # n
    BY LenProperties
<1>2. Len(ss) = n /\ ss[n] = f /\ \A i \in 1..n : i # n => ss[i] = st[i]
    BY Zenon DEF Retopped
<1>3. \A i \in 1..n : ss[i].id = st[i].id
    BY Zenon, <1>2
<1>4. \A i, j \in 1..n : i < j => i # n
    BY <1>1
<1> SUFFICES ASSUME NEW i \in 1..n
             PROVE  /\ FrameOK(ss[i], g, C)
                    /\ \A j \in 1..n : j = i + 1 => Waits(ss[i], ss[j], g)
                    /\ i # n => ss[i].pc = "body"
                    /\ \A j \in 1..n : i < j => Below(ss[i], ss[j], g)
    BY Zenon, <1>2 DEF StackOK
<1>5. FrameOK(ss[i], g, C)
    BY Zenon, <1>2 DEF StackOK
<1>6. ASSUME NEW j \in 1..n, j = i + 1 PROVE Waits(ss[i], ss[j], g)
  <2>1. Waits(st[i], st[j], g)
      BY Zenon, <1>6 DEF StackOK
  <2>2. ss[i] = st[i] /\ ss[j].id = st[j].id
      BY Zenon, <1>1, <1>2, <1>3, <1>6
  <2> QED
      BY Zenon, <2>1, <2>2 DEF Waits
<1>7. i # n => ss[i].pc = "body"
    BY Zenon, <1>2 DEF StackOK
<1>8. ASSUME NEW j \in 1..n, i < j PROVE Below(ss[i], ss[j], g)
  <2>1. Below(st[i], st[j], g)
      BY Zenon, <1>8 DEF StackOK
  <2>2. ss[i] = st[i] /\ i # n
      BY Zenon, <1>2, <1>4, <1>8
  <2>3. CASE j # n
      BY Zenon, <2>1, <2>2, <2>3, <1>2
  <2>4. CASE j = n
      BY Zenon, <2>1, <2>2, <2>4, <1>2 DEF Below
  <2> QED
      BY Zenon, <2>3, <2>4
<1> QED
    BY Zenon, <1>5, <1>6, <1>7, <1>8

LEMMA StackPush ==
    ASSUME NEW st \in Seq(Frames), NEW g \in ImportGraphs, NEW C, StackOK(st, g, C),
           NEW f \in Frames, f.pc = "cache", f.at = 1,
           Len(st) > 0 => Waits(st[Len(st)], f, g)
    PROVE  /\ Append(st, f) \in Seq(Frames) /\ Len(Append(st, f)) = Len(st) + 1
           /\ Append(st, f)[Len(st) + 1] = f
           /\ \A i \in 1..Len(st) : Append(st, f)[i] = st[i]
           /\ StackOK(Append(st, f), g, C)
<1> DEFINE n  == Len(st)
           ss == Append(st, f)
<1>0. n \in Nat
    BY LenProperties
<1>1. /\ ss \in Seq(Frames) /\ Len(ss) = n + 1 /\ ss[n + 1] = f
      /\ \A i \in 1..n : ss[i] = st[i]
    BY AppendProperties
<1>2. /\ \A i \in 1..(n + 1) : i \in 1..n \/ i = n + 1
      /\ \A i, j \in 1..(n + 1) : j = n + 1 /\ j = i + 1 => i = n /\ n > 0
      /\ \A i, j \in 1..(n + 1) : i < j => i \in 1..n /\ n > 0 /\ n \in 1..n
      /\ \A i, j \in 1..(n + 1) : j = i + 1 => i \in 1..n
      /\ \A i \in 1..n : i = n \/ i < n
      /\ \A i \in 1..n : n > 0 /\ n \in 1..n
    BY <1>0
<1>3. ASSUME NEW i \in 1..n PROVE Below(st[i], f, g)
  <2>1. n > 0 /\ n \in 1..n
      BY Zenon, <1>2
  <2>2. st[i] \in Frames /\ st[n] \in Frames
      BY <2>1, ElementOfSeq
  <2>3. st[i].id \in Modules /\ st[n].id \in Modules
      BY Zenon, <2>2 DEF Frames
  <2>4. f.id \in Direct(g, st[n].id)
      BY Zenon, <2>1, <2>3, DirectTyped DEF Waits, Import_
  <2>5. st[n].id \in Reachable(g, st[i].id)
    <3>1. CASE i = n
        BY Zenon, <3>1, <2>3, ReachableFacts
    <3>2. CASE i < n
        BY Zenon, <3>2, <2>1 DEF StackOK, Below
    <3> QED
        BY Zenon, <3>1, <3>2, <1>2
  <2>6. f.id \in Reachable(g, st[i].id)
      BY Zenon, <2>3, <2>4, <2>5, ReachableTrans
  <2> QED
      BY Zenon, <2>6 DEF Below
<1>4. FrameOK(f, g, C)
    BY Zenon DEF FrameOK
<1> HIDE DEF ss
<1>5. StackOK(ss, g, C)
  <2> SUFFICES ASSUME NEW i \in 1..(n + 1)
               PROVE  /\ FrameOK(ss[i], g, C)
                      /\ \A j \in 1..(n + 1) : j = i + 1 => Waits(ss[i], ss[j], g)
                      /\ i # n + 1 => ss[i].pc = "body"
                      /\ \A j \in 1..(n + 1) : i < j => Below(ss[i], ss[j], g)
      BY Zenon, <1>1 DEF StackOK
  <2>1. FrameOK(ss[i], g, C)
      BY Zenon, <1>1, <1>2, <1>4 DEF StackOK
  <2>2. ASSUME NEW j \in 1..(n + 1), j = i + 1 PROVE Waits(ss[i], ss[j], g)
    <3>1. i \in 1..n /\ ss[i] = st[i]
        BY Zenon, <1>1, <1>2, <2>2
    <3>2. CASE j = n + 1
        BY Zenon, <3>1, <3>2, <2>2, <1>1, <1>2
    <3>3. CASE j \in 1..n
        BY Zenon, <3>1, <3>3, <2>2, <1>1 DEF StackOK
    <3> QED
        BY Zenon, <3>2, <3>3, <1>2
  <2>3. i # n + 1 => ss[i].pc = "body"
    <3>1. ASSUME i \in 1..n PROVE ss[i].pc = "body"
      <4>1. CASE i = n
          BY Zenon, <4>1, <3>1, <1>1, <1>2 DEF Waits
      <4>2. CASE i # n
          BY Zenon, <4>2, <3>1, <1>1 DEF StackOK
      <4> QED
          BY Zenon, <4>1, <4>2
    <3> QED
        BY Zenon, <3>1, <1>2
  <2>4. ASSUME NEW j \in 1..(n + 1), i < j PROVE Below(ss[i], ss[j], g)
    <3>1. i \in 1..n /\ ss[i] = st[i]
        BY Zenon, <1>1, <1>2, <2>4
    <3>2. CASE j = n + 1
        BY Zenon, <3>1, <3>2, <1>1, <1>3
    <3>3. CASE j \in 1..n
        BY Zenon, <3>1, <3>3, <2>4, <1>1 DEF StackOK
    <3> QED
        BY Zenon, <3>2, <3>3, <1>2
  <2> QED
      BY Zenon, <2>1, <2>2, <2>3, <2>4
<1> QED
    BY Zenon, <1>1, <1>5 DEF ss

\* What is left when the innermost load returns waits for its module.
LEMMA StackPop ==
    ASSUME NEW st \in Seq(Frames), NEW g, NEW C, StackOK(st, g, C), Len(st) > 0
    PROVE  /\ Front(st) \in Seq(Frames) /\ Len(Front(st)) = Len(st) - 1
           /\ \A i \in 1..Len(Front(st)) : Front(st)[i] = st[i] /\ i \in 1..Len(st) /\ i # Len(st)
           /\ \A i \in 1..Len(st) : i # Len(st) => i \in 1..Len(Front(st))
           /\ StackOK(Front(st), g, C)
           /\ Len(Front(st)) > 0 =>
                 /\ Waits(Front(st)[Len(Front(st))], st[Len(st)], g)
                 /\ Front(st)[Len(Front(st))] \in Frames
<1> DEFINE n  == Len(st)
           ss == Front(st)
<1>1. ss \in Seq(Frames) /\ Len(ss) = n - 1 /\ \A i \in 1..(n - 1) : ss[i] = st[i]
    BY Zenon, FrontFacts
<1>2. /\ n \in Nat /\ n - 1 \in Nat
      /\ \A i \in 1..(n - 1) : i \in 1..n /\ i # n
      /\ \A i \in 1..n : i # n => i \in 1..(n - 1)
      /\ n - 1 > 0 => n - 1 \in 1..(n - 1) /\ n \in 1..n /\ n = (n - 1) + 1
    BY LenProperties
<1>3. StackOK(ss, g, C)
  <2> SUFFICES ASSUME NEW i \in 1..(n - 1)
               PROVE  /\ FrameOK(ss[i], g, C)
                      /\ \A j \in 1..(n - 1) : j = i + 1 => Waits(ss[i], ss[j], g)
                      /\ ss[i].pc = "body"
                      /\ \A j \in 1..(n - 1) : i < j => Below(ss[i], ss[j], g)
      BY Zenon, <1>1 DEF StackOK
  <2>1. ss[i] = st[i] /\ i \in 1..n /\ i # n
      BY Zenon, <1>1, <1>2
  <2>2. FrameOK(ss[i], g, C) /\ ss[i].pc = "body"
      BY Zenon, <2>1 DEF StackOK
  <2>3. ASSUME NEW j \in 1..(n - 1), j = i + 1 PROVE Waits(ss[i], ss[j], g)
      BY Zenon, <2>1, <2>3, <1>1, <1>2 DEF StackOK
  <2>4. ASSUME NEW j \in 1..(n - 1), i < j PROVE Below(ss[i], ss[j], g)
      BY Zenon, <2>1, <2>4, <1>1, <1>2 DEF StackOK
  <2> QED
      BY Zenon, <2>2, <2>3, <2>4
<1>4. ASSUME n - 1 > 0 PROVE Waits(ss[n - 1], st[n], g) /\ ss[n - 1] \in Frames
  <2>1. n - 1 \in 1..(n - 1) /\ n - 1 \in 1..n /\ n \in 1..n /\ n = (n - 1) + 1
      BY Zenon, <1>2, <1>4
  <2>2. Waits(st[n - 1], st[n], g)
      BY Zenon, <2>1 DEF StackOK
  <2>3. st[n - 1] \in Frames
      BY <2>1, ElementOfSeq
  <2> QED
      BY Zenon, <2>1, <2>2, <2>3, <1>1
<1> QED
    BY Zenon, <1>1, <1>2, <1>3, <1>4

-----------------------------------------------------------------------------
(* The modules a stack has under way. *)

LEMMA HoldsPush ==
    ASSUME NEW st \in Seq(Frames), NEW f, ~Guarded(f), NEW ss,
           Len(ss) = Len(st) + 1, ss[Len(st) + 1] = f,
           \A i \in 1..Len(st) : ss[i] = st[i], NEW m
    PROVE  Holds(ss, m) <=> Holds(st, m)
<1> DEFINE n == Len(st)
<1>1. \A i \in 1..(n + 1) : i \in 1..n \/ i = n + 1
    BY LenProperties
<1>2. \A i \in 1..n : i \in 1..(n + 1)
    BY LenProperties
<1> QED
    BY Zenon, <1>1, <1>2 DEF Holds

LEMMA HoldsRetop ==
    ASSUME NEW st \in Seq(Frames), Len(st) > 0, NEW f, f.id = st[Len(st)].id, NEW ss,
           Retopped(st, f, ss), NEW m
    PROVE  /\ (Guarded(f) <=> Guarded(st[Len(st)])) => (Holds(ss, m) <=> Holds(st, m))
           /\ Guarded(f) => (Holds(ss, m) <=> Holds(st, m) \/ m = f.id)
<1> DEFINE n == Len(st)
<1>1. n \in 1..n
    BY LenProperties
<1>2. Len(ss) = n /\ ss[n] = f /\ \A i \in 1..n : i # n => ss[i] = st[i]
    BY Zenon DEF Retopped
<1>3. (Guarded(f) <=> Guarded(st[n])) => (Holds(ss, m) <=> Holds(st, m))
    BY Zenon, <1>1, <1>2 DEF Holds
<1>4. Guarded(f) => (Holds(ss, m) <=> Holds(st, m) \/ m = f.id)
    BY Zenon, <1>1, <1>2 DEF Holds
<1> QED
    BY <1>3, <1>4

LEMMA HoldsPop ==
    ASSUME NEW st \in Seq(Frames), NEW g, NEW C, StackOK(st, g, C), Len(st) > 0, NEW m
    PROVE  /\ ~Guarded(st[Len(st)]) => (Holds(Front(st), m) <=> Holds(st, m))
           /\ Guarded(st[Len(st)]) =>
                 /\ Holds(Front(st), m) <=> Holds(st, m) /\ m # st[Len(st)].id
                 /\ Holds(st, st[Len(st)].id)
<1> DEFINE n  == Len(st)
           ss == Front(st)
<1>1. n \in 1..n /\ \A i \in 1..n : i # n => i < n
    BY LenProperties
<1>2. /\ \A i \in 1..Len(ss) : ss[i] = st[i] /\ i \in 1..n /\ i # n
      /\ \A i \in 1..n : i # n => i \in 1..Len(ss)
    BY Zenon, StackPop
<1>3. ~Guarded(st[n]) => (Holds(ss, m) <=> Holds(st, m))
    BY Zenon, <1>2 DEF Holds
<1>4. ASSUME Guarded(st[n])
      PROVE  /\ Holds(ss, m) <=> Holds(st, m) /\ m # st[n].id
             /\ Holds(st, st[n].id)
  <2>1. \A i \in 1..n : i # n => st[i].id # st[n].id
      BY Zenon, <1>1, <1>4 DEF StackOK, Below, Guarded
  <2> QED
      BY Zenon, <2>1, <1>1, <1>2, <1>4 DEF Holds
<1> QED
    BY Zenon, <1>3, <1>4

Alike(st, ss)     == \A m \in Modules : Holds(ss, m) <=> Holds(st, m)
Gains(st, ss, id) == ~Holds(st, id) /\ \A m \in Modules : Holds(ss, m) <=> Holds(st, m) \/ m = id
Loses(st, ss, id) == Holds(st, id) /\ \A m \in Modules : Holds(ss, m) <=> Holds(st, m) /\ m # id

LEMMA SameHolders ==
    ASSUME Inv, NEW t \in Threads, NEW st, stack' = [stack EXCEPT ![t] = st],
           Alike(stack[t], st),
           loading_modules' = loading_modules
    PROVE  \A m \in Modules : loading_modules'[m] = Cardinality(Holders(stack', m))
<1>1. \A u \in Threads : stack'[u] = IF u = t THEN st ELSE stack[u]
    BY Zenon DEF Inv, Types
<1>2. \A m \in Modules : Holders(stack', m) = Holders(stack, m)
    BY Zenon, <1>1 DEF Holders, Alike
<1> QED
    BY Zenon, <1>2 DEF Inv, Counted

LEMMA GainsHolder ==
    ASSUME Inv, NEW t \in Threads, NEW st, stack' = [stack EXCEPT ![t] = st],
           NEW id \in Modules, Gains(stack[t], st, id),
           loading_modules' = [loading_modules EXCEPT ![id] = @ + 1]
    PROVE  /\ \A m \in Modules : loading_modules'[m] = Cardinality(Holders(stack', m))
           /\ loading_modules' \in [Modules -> Nat]
<1>1. \A u \in Threads : stack'[u] = IF u = t THEN st ELSE stack[u]
    BY Zenon DEF Inv, Types
<1>2. \A m \in Modules : m # id => Holders(stack', m) = Holders(stack, m)
    BY Zenon, <1>1 DEF Holders, Gains
<1>3. Holders(stack', id) = Holders(stack, id) \cup {t} /\ t \notin Holders(stack, id)
    BY Zenon, <1>1 DEF Holders, Gains
<1>4. IsFiniteSet(Holders(stack, id))
  <2>1. Holders(stack, id) \in SUBSET Threads
      BY Zenon DEF Holders
  <2> QED
      BY <2>1, ConstantsAssumption, FS_Subset
<1>5. Cardinality(Holders(stack', id)) = Cardinality(Holders(stack, id)) + 1
    BY Zenon, <1>3, <1>4, FS_AddElement
<1>6. loading_modules[id] = Cardinality(Holders(stack, id)) /\ loading_modules \in [Modules -> Nat]
    BY Zenon DEF Inv, Counted, Types
<1>7. loading_modules'[id] = Cardinality(Holders(stack', id))
    BY Zenon, <1>5, <1>6
<1>8. \A m \in Modules : m # id => loading_modules'[m] = loading_modules[m]
    BY Zenon, <1>6
<1>9. loading_modules' \in [Modules -> Nat]
    BY <1>6
<1> QED
    BY Zenon, <1>2, <1>7, <1>8, <1>9 DEF Inv, Counted

LEMMA LosesHolder ==
    ASSUME Inv, NEW t \in Threads, NEW st, stack' = [stack EXCEPT ![t] = st],
           NEW id \in Modules, Loses(stack[t], st, id),
           loading_modules' = [loading_modules EXCEPT ![id] = @ - 1]
    PROVE  /\ \A m \in Modules : loading_modules'[m] = Cardinality(Holders(stack', m))
           /\ loading_modules' \in [Modules -> Nat]
<1>1. \A u \in Threads : stack'[u] = IF u = t THEN st ELSE stack[u]
    BY Zenon DEF Inv, Types
<1>2. \A m \in Modules : m # id => Holders(stack', m) = Holders(stack, m)
    BY Zenon, <1>1 DEF Holders, Loses
<1>3. Holders(stack', id) = Holders(stack, id) \ {t} /\ t \in Holders(stack, id)
    BY Zenon, <1>1 DEF Holders, Loses
<1>4. IsFiniteSet(Holders(stack, id))
  <2>1. Holders(stack, id) \in SUBSET Threads
      BY Zenon DEF Holders
  <2> QED
      BY <2>1, ConstantsAssumption, FS_Subset
<1>5. /\ IsFiniteSet(Holders(stack', id))
      /\ Cardinality(Holders(stack', id)) = Cardinality(Holders(stack, id)) - 1
    BY Zenon, <1>3, <1>4, FS_RemoveElement
<1>6. loading_modules[id] = Cardinality(Holders(stack, id)) /\ loading_modules \in [Modules -> Nat]
    BY Zenon DEF Inv, Counted, Types
<1>7. loading_modules'[id] = Cardinality(Holders(stack', id))
    BY Zenon, <1>5, <1>6
<1>8. \A m \in Modules : m # id => loading_modules'[m] = loading_modules[m]
    BY Zenon, <1>6
<1>9. loading_modules'[id] \in Nat
  <2>1. Cardinality(Holders(stack', id)) \in Nat
      BY <1>5, FS_CardinalityType
  <2> QED
      BY Zenon, <2>1, <1>7
<1>10. loading_modules' \in [Modules -> Nat]
    BY <1>6, <1>9
<1> QED
    BY Zenon, <1>2, <1>7, <1>8, <1>10 DEF Inv, Counted

-----------------------------------------------------------------------------
(* Steps. *)

LEMMA CachedGrows ==
    ASSUME NEW g, NEW C, NEW D, C \subseteq D
    PROVE  /\ \A st : StackOK(st, g, C) => StackOK(st, g, D)
           /\ \A st, r : RetOK(st, r, g, C) => RetOK(st, r, g, D)
           /\ \A r, o : ResultOK(r, g, C, o) => ResultOK(r, g, D, o)
<1>1. \A f : FrameOK(f, g, C) => FrameOK(f, g, D)
    BY Zenon DEF FrameOK
<1> QED
    BY Zenon, <1>1 DEF StackOK, RetOK, ResultOK

\* A thread changes its stack and its return value, perhaps the cache, and
\* perhaps adds results.
LEMMA ThreadStep ==
    ASSUME Inv, NEW t \in Threads,
           NEW st \in Seq(Frames), stack' = [stack EXCEPT ![t] = st],
           NEW r \in Rets, ret' = [ret EXCEPT ![t] = r],
           NEW X \in SUBSET (Modules \X Texts \X Outcomes \X Texts), results' = results \cup X,
           UNCHANGED <<graph, workspace, disk, edited>>,
           module_cache' \in [Modules -> Texts],
           module_cache' # module_cache => Len(stack[t]) > 0,
           Cached(module_cache) \subseteq Cached(module_cache'),
           Settled(graph, Cached(module_cache')),
           StackOK(st, graph, Cached(module_cache')),
           RetOK(st, r, graph, Cached(module_cache')),
           loading_modules' \in [Modules -> Nat],
           \A m \in Modules : loading_modules'[m] = Cardinality(Holders(stack', m)),
           overlap' \in BOOLEAN,
           ~overlap' => /\ ~overlap
                        /\ Len(st) > 0 => \A u \in Threads : u # t => ~(Len(stack[u]) > 0)
                        /\ Alone(st, r, graph, module_cache'),
           \A x \in X : ResultOK(x, graph, Cached(module_cache'), overlap'),
           \A m \in Modules \ edited : workspace[m] = NoVersion =>
              /\ Same(module_cache'[m], disk[m])
              /\ FramesOf(st, m, disk[m])
              /\ \A x \in X : ResultOf(x, m, disk[m])
    PROVE  Inv'
<1> DEFINE C == Cached(module_cache)
           D == Cached(module_cache')
<1>1. \A u \in Threads : /\ stack'[u] = IF u = t THEN st ELSE stack[u]
                         /\ ret'[u] = IF u = t THEN r ELSE ret[u]
    BY Zenon DEF Inv, Types
<1>2. Types'
  <2>1. stack' \in [Threads -> Seq(Frames)] /\ ret' \in [Threads -> Rets]
      BY Zenon DEF Inv, Types
  <2>2. results' \subseteq Modules \X Texts \X Outcomes \X Texts
      BY Zenon DEF Inv, Types
  <2> QED
      BY Zenon, <2>1, <2>2 DEF Inv, Types
<1>3. \A u \in Threads : /\ StackOK(stack'[u], graph', D)
                         /\ RetOK(stack'[u], ret'[u], graph', D)
  <2>1. \A u \in Threads : StackOK(stack[u], graph, D) /\ RetOK(stack[u], ret[u], graph, D)
      BY Zenon, CachedGrows DEF Inv
  <2> QED
      BY ZenonT(40), <2>1, <1>1
<1>4. \A x \in results' : ResultOK(x, graph', D, overlap')
  <2>1. \A x \in results : ResultOK(x, graph, D, overlap)
      BY Zenon, CachedGrows DEF Inv
  <2>2. \A x \in results : ResultOK(x, graph, D, overlap')
      BY Zenon, <2>1 DEF ResultOK
  <2> QED
      BY Zenon, <2>2
<1>5. ASSUME ~overlap'
      PROVE  /\ \A v, u \in Threads : Len(stack'[v]) > 0 /\ Len(stack'[u]) > 0 => v = u
             /\ \A u \in Threads : Alone(stack'[u], ret'[u], graph', module_cache')
  <2>1. /\ \A v, u \in Threads : Len(stack[v]) > 0 /\ Len(stack[u]) > 0 => v = u
        /\ \A u \in Threads : Alone(stack[u], ret[u], graph, module_cache)
      BY Zenon, <1>5 DEF Inv, NoOverlap
  <2>2. \A v, u \in Threads : Len(stack'[v]) > 0 /\ Len(stack'[u]) > 0 => v = u
      BY Zenon, <1>1, <1>5, <2>1
  <2>3. ASSUME NEW u \in Threads, u # t PROVE Alone(stack[u], ret[u], graph, module_cache')
    <3>1. CASE module_cache' = module_cache
        BY Zenon, <3>1, <2>1
    <3>2. CASE module_cache' # module_cache
      <4>1. ~(Len(stack[u]) > 0)
          BY Zenon, <3>2, <2>1, <2>3
      <4>2. stack[u] \in Seq(Frames)
          BY Zenon DEF Inv, Types
      <4>3. \A i \in 1..Len(stack[u]) : Len(stack[u]) > 0
          BY <4>2, LenProperties
      <4> QED
          BY Zenon, <4>1, <4>3 DEF Alone
    <3> QED
        BY Zenon, <3>1, <3>2
  <2> QED
      BY ZenonT(40), <1>1, <1>5, <2>2, <2>3
<1>6. \A m \in Modules \ edited' : workspace'[m] = NoVersion =>
         /\ Same(module_cache'[m], disk'[m])
         /\ \A u \in Threads : FramesOf(stack'[u], m, disk'[m])
         /\ \A x \in results' : ResultOf(x, m, disk'[m])
  <2> SUFFICES ASSUME NEW m \in Modules \ edited, workspace[m] = NoVersion
               PROVE  /\ Same(module_cache'[m], disk[m])
                      /\ \A u \in Threads : FramesOf(stack'[u], m, disk[m])
                      /\ \A x \in results' : ResultOf(x, m, disk[m])
      BY Zenon
  <2>1. /\ \A u \in Threads : FramesOf(stack[u], m, disk[m])
        /\ \A x \in results : ResultOf(x, m, disk[m])
      BY Zenon DEF Inv, Unedited
  <2>2. /\ Same(module_cache'[m], disk[m])
        /\ FramesOf(st, m, disk[m])
        /\ \A x \in X : ResultOf(x, m, disk[m])
      BY Zenon
  <2>3. \A u \in Threads : FramesOf(stack'[u], m, disk[m])
      BY Zenon, <2>1, <2>2, <1>1
  <2>4. \A x \in results' : ResultOf(x, m, disk[m])
      BY Zenon, <2>1, <2>2
  <2> QED
      BY Zenon, <2>2, <2>3, <2>4
<1>7. Settled(graph', D)
    BY Zenon
<1> HIDE DEF D
<1>8. NoOverlap' /\ Unedited' /\ Counted'
    BY Zenon, <1>5, <1>6 DEF NoOverlap, Unedited, Counted
<1> QED
    BY Zenon, <1>2, <1>3, <1>4, <1>7, <1>8 DEF Inv, D

\* What is known of a thread with a load under way.
LEMMA TopFacts ==
    ASSUME Inv, NEW t \in Threads, Busy(t)
    PROVE  /\ stack[t] \in Seq(Frames) /\ Len(stack[t]) > 0
           /\ Len(stack[t]) \in 1..Len(stack[t])
           /\ Top(t) = stack[t][Len(stack[t])] /\ Top(t) \in Frames
           /\ StackOK(stack[t], graph, Cached(module_cache))
           /\ FrameOK(Top(t), graph, Cached(module_cache))
           /\ RetOK(stack[t], ret[t], graph, Cached(module_cache))
           /\ ret[t] \in Rets
           /\ graph \in ImportGraphs
           /\ ~overlap => \A u \in Threads : u # t => ~(Len(stack[u]) > 0)
           /\ ~overlap => Alone(stack[t], ret[t], graph, module_cache)
<1>1. /\ stack[t] \in Seq(Frames) /\ ret[t] \in Rets /\ graph \in ImportGraphs
      /\ StackOK(stack[t], graph, Cached(module_cache))
      /\ RetOK(stack[t], ret[t], graph, Cached(module_cache))
    BY Zenon DEF Inv, Types, ImportGraphs
<1>2. Len(stack[t]) > 0 /\ Len(stack[t]) \in 1..Len(stack[t])
  <2>1. Len(stack[t]) \in Nat \ {0}
      BY Zenon, <1>1, EmptySeq DEF Busy
  <2> QED
      BY <2>1
<1>3. Top(t) = stack[t][Len(stack[t])]
    BY Zenon DEF Top
<1>4. stack[t][Len(stack[t])] \in Frames
    BY <1>1, <1>2, ElementOfSeq
<1>5. FrameOK(stack[t][Len(stack[t])], graph, Cached(module_cache))
    BY Zenon, <1>1, <1>2 DEF StackOK
<1>6. ~overlap => \A u \in Threads : u # t => ~(Len(stack[u]) > 0)
    BY Zenon, <1>2 DEF Inv, NoOverlap
<1>7. ~overlap => Alone(stack[t], ret[t], graph, module_cache)
    BY Zenon DEF Inv, NoOverlap
<1> QED
    BY Zenon, <1>1, <1>2, <1>3, <1>4, <1>5, <1>6, <1>7

\* Returned values are of their type.
LEMMA RetTypes ==
    /\ NoRet \in Rets
    /\ \A v \in Texts : Got(v) \in Rets /\ Got(v).outcome = "ok" /\ Got(v).ver = v
    /\ \A e \in Errors : Err(e) \in Rets /\ Err(e).outcome = e /\ Err(e).ver = NoVersion
    /\ NoRet.outcome = "none" /\ "none" \notin Errors /\ "ok" \notin Errors
<1>1. NoVersion \in Texts
    BY Zenon DEF Texts
<1> QED
    BY Zenon, <1>1 DEF NoRet, Got, Err, Rets, Outcomes, Errors

\* Nothing is added to the results and the cache stays.
LEMMA QuietStep ==
    ASSUME Inv, NEW t \in Threads,
           NEW st \in Seq(Frames), stack' = [stack EXCEPT ![t] = st],
           NEW r \in Rets, ret' = [ret EXCEPT ![t] = r],
           UNCHANGED <<graph, workspace, disk, edited, results, module_cache>>,
           StackOK(st, graph, Cached(module_cache)),
           RetOK(st, r, graph, Cached(module_cache)),
           loading_modules' \in [Modules -> Nat],
           \A m \in Modules : loading_modules'[m] = Cardinality(Holders(stack', m)),
           overlap' \in BOOLEAN,
           ~overlap' => /\ ~overlap
                        /\ Len(st) > 0 => \A u \in Threads : u # t => ~(Len(stack[u]) > 0)
                        /\ Alone(st, r, graph, module_cache),
           \A m \in Modules \ edited : workspace[m] = NoVersion => FramesOf(st, m, disk[m])
    PROVE  Inv'
<1>1. /\ {} \in SUBSET (Modules \X Texts \X Outcomes \X Texts) /\ results' = results \cup {}
      /\ \A x \in {} : ResultOK(x, graph, Cached(module_cache'), overlap')
      /\ \A m : \A x \in {} : ResultOf(x, m, disk[m])
    BY Zenon
<1>2. Cached(module_cache) \subseteq Cached(module_cache') /\ Cached(module_cache') = Cached(module_cache)
    BY Zenon
<1>3. module_cache' \in [Modules -> Texts] /\ Settled(graph, Cached(module_cache))
    BY Zenon DEF Inv, Types
<1>4. \A m \in Modules \ edited : workspace[m] = NoVersion => Same(module_cache'[m], disk[m])
    BY Zenon DEF Inv, Unedited
<1> QED
    BY Zenon, <1>1, <1>2, <1>3, <1>4, ThreadStep

\* load_module, for a thread that is idle or at an import of its innermost load.
LEMMA LoadInv ==
    ASSUME Inv, NEW t \in Threads, NEW name \in Names, NEW pin \in Texts, Load(t, name, pin),
           ret[t] = NoRet,
           Len(stack[t]) > 0 =>
              /\ stack[t][Len(stack[t])].pc = "body"
              /\ stack[t][Len(stack[t])].at \in 1..Len(graph[stack[t][Len(stack[t])].id])
              /\ CanonicalId[name] = Import_(graph, stack[t][Len(stack[t])]),
           UNCHANGED <<graph, workspace, disk, module_cache, loading_modules, edited, results>>,
           overlap' \in BOOLEAN,
           ~overlap' => ~overlap /\ \A u \in Threads : u # t => ~(Len(stack[u]) > 0)
    PROVE  Inv'
<1> DEFINE id  == CanonicalId[name]
           ver == disk[id]
           C   == Cached(module_cache)
<1>1. /\ stack[t] \in Seq(Frames) /\ StackOK(stack[t], graph, C) /\ graph \in ImportGraphs
      /\ loading_modules' \in [Modules -> Nat]
      /\ id \in Modules /\ ver \in Texts
  <2>1. id \in Modules
      BY Zenon, ConstantsAssumption
  <2> QED
      BY Zenon, <2>1 DEF Inv, Types, ImportGraphs
<1>2. \A m \in Modules \ edited : workspace[m] = NoVersion => FramesOf(stack[t], m, disk[m])
    BY Zenon DEF Inv, Unedited
<1>3. ASSUME NEW e \in {"not_found", "mismatch"}, Return(t, Err(e)), UNCHANGED stack PROVE Inv'
  <2> DEFINE r == Err(e)
  <2>1. r \in Rets /\ r.outcome = e /\ e # "ok" /\ e # "circular"
    <3>1. e \in Errors /\ e # "ok" /\ e # "circular"
        BY Zenon DEF Errors
    <3> QED
        BY Zenon, <3>1, RetTypes
  <2>2. ret' = [ret EXCEPT ![t] = r] /\ stack' = [stack EXCEPT ![t] = stack[t]]
      BY Zenon, <1>3 DEF Return, Inv, Types
  <2> HIDE DEF r
  <2>3. RetOK(stack[t], r, graph, C)
      BY Zenon, <2>1 DEF RetOK
  <2>4. \A m \in Modules : loading_modules'[m] = Cardinality(Holders(stack', m))
      BY Zenon, <1>3 DEF Inv, Counted
  <2>5. ~overlap' => Alone(stack[t], r, graph, module_cache)
      BY Zenon, <2>1 DEF Inv, NoOverlap, Alone
  <2> QED
      BY Zenon, <1>1, <1>2, <2>1, <2>2, <2>3, <2>4, <2>5, QuietStep
<1>4. ASSUME ver # NoVersion, pin \in {NoVersion, ver}, UNCHANGED ret,
             stack' = [stack EXCEPT ![t] = Append(stack[t], Frame(id, pin, ver))]
      PROVE  Inv'
  <2> DEFINE f  == Frame(id, pin, ver)
             st == Append(stack[t], f)
  <2>1. f \in Frames /\ f.id = id /\ f.pin = pin /\ f.ver = ver /\ f.pc = "cache" /\ f.at = 1
    <3>1. ver \in Versions /\ 1 \in Nat \ {0}
        BY <1>1, <1>4 DEF Texts
    <3> QED
        BY Zenon, <3>1, <1>1 DEF Frame, Frames, Pcs
  <2>2. stack' = [stack EXCEPT ![t] = st]
      BY Zenon, <1>4
  <2> HIDE DEF f
  <2>3. Len(stack[t]) > 0 => Waits(stack[t][Len(stack[t])], f, graph)
      BY Zenon, <2>1 DEF Waits
  <2>4. /\ st \in Seq(Frames) /\ Len(st) = Len(stack[t]) + 1 /\ st[Len(stack[t]) + 1] = f
        /\ \A i \in 1..Len(stack[t]) : st[i] = stack[t][i]
        /\ StackOK(st, graph, C)
      BY ZenonT(40), <1>1, <2>1, <2>3, StackPush
  <2> HIDE DEF st
  <2>5. \A i \in 1..Len(st) : i \in 1..Len(stack[t]) \/ i = Len(stack[t]) + 1
    <3>1. Len(stack[t]) \in Nat
        BY <1>1, LenProperties
    <3>2. \A n \in Nat : \A i \in 1..(n + 1) : i \in 1..n \/ i = n + 1
        OBVIOUS
    <3> QED
        BY Zenon, <3>1, <3>2, <2>4
  <2>6. Alike(stack[t], st)
    <3>1. ~Guarded(f)
        BY Zenon, <2>1 DEF Guarded
    <3> QED
        BY Zenon, <3>1, <1>1, <2>4, HoldsPush DEF Alike
  <2>7. \A m \in Modules : loading_modules'[m] = Cardinality(Holders(stack', m))
      BY Zenon, <2>2, <2>6, SameHolders
  <2>8. RetOK(st, NoRet, graph, C) /\ NoRet \in Rets
      BY Zenon, RetTypes DEF RetOK
  <2>9. ret' = [ret EXCEPT ![t] = NoRet]
      BY Zenon, <1>4 DEF Inv, Types
  <2>10. ~overlap' => Alone(st, NoRet, graph, module_cache)
    <3> SUFFICES ASSUME ~overlap' PROVE Alone(st, NoRet, graph, module_cache)
        BY Zenon
    <3>1. Alone(stack[t], ret[t], graph, module_cache)
        BY Zenon DEF Inv, NoOverlap
    <3>2. NoRet.outcome # "circular"
        BY Zenon, RetTypes
    <3>3. ASSUME NEW i \in 1..Len(st), st[i].pc \in {"check", "enter", "body"}
          PROVE  module_cache[st[i].id] = NoVersion
      <4>1. i # Len(stack[t]) + 1
          BY Zenon, <3>3, <2>1, <2>4
      <4>2. i \in 1..Len(stack[t]) /\ st[i] = stack[t][i]
          BY Zenon, <4>1, <2>4, <2>5
      <4> QED
          BY Zenon, <4>2, <3>1, <3>3 DEF Alone
    <3> QED
        BY Zenon, <3>2, <3>3 DEF Alone
  <2>11. ASSUME NEW m \in Modules \ edited, workspace[m] = NoVersion
         PROVE  FramesOf(st, m, disk[m])
    <3>1. f.id = m => f.ver = disk[m] /\ Same(f.pin, disk[m])
        BY Zenon, <2>1, <1>4 DEF Same
    <3>2. FramesOf(stack[t], m, disk[m])
        BY Zenon, <1>2, <2>11
    <3>3. ASSUME NEW i \in 1..Len(st), st[i].id = m
          PROVE  st[i].ver = disk[m] /\ Same(st[i].pin, disk[m])
      <4>1. CASE i \in 1..Len(stack[t])
          BY Zenon, <4>1, <3>2, <3>3, <2>4 DEF FramesOf
      <4>2. CASE i = Len(stack[t]) + 1
          BY Zenon, <4>2, <3>1, <3>3, <2>4
      <4> QED
          BY Zenon, <4>1, <4>2, <2>5
    <3> QED
        BY Zenon, <3>3 DEF FramesOf
  <2> QED
      BY Zenon, <1>1, <2>2, <2>4, <2>7, <2>8, <2>9, <2>10, <2>11, QuietStep
<1> QED
    BY Zenon, <1>3, <1>4 DEF Load

\* The innermost load of a thread goes on: its frame changes, the cache and
\* what it returned do not.
LEMMA FrameStep ==
    ASSUME Inv, NEW t \in Threads, Busy(t),
           NEW f \in Frames, f.id = Top(t).id, SetTop(t, f),
           FrameOK(f, graph, Cached(module_cache)),
           \/ f.pc \notin {"enter", "body", "stored"}
           \/ Top(t).pc \in {"enter", "body", "stored"}
           \/ ~Holds(stack[t], f.id),
           NEW r \in Rets, ret' = [ret EXCEPT ![t] = r],
           r # NoRet => f.pc = "body" /\ r.outcome # "ok" /\ r.outcome # "circular",
           r = NoRet => r.outcome # "circular",
           UNCHANGED <<graph, workspace, disk, edited, overlap, results, module_cache>>,
           \/ loading_modules' = loading_modules /\ (Guarded(f) <=> Guarded(Top(t)))
           \/ /\ loading_modules' = [loading_modules EXCEPT ![f.id] = @ + 1]
              /\ Guarded(f) /\ ~Holds(stack[t], f.id),
           f.pc \in {"check", "enter", "body"} =>
              module_cache[f.id] = NoVersion \/ Top(t).pc \in {"check", "enter", "body"},
           \A m \in Modules \ edited : workspace[m] = NoVersion /\ f.id = m =>
              f.pin = Top(t).pin /\ f.ver = Top(t).ver
    PROVE  Inv'
<1> DEFINE st == stack[t]
           n  == Len(st)
           C  == Cached(module_cache)
           ss == Append(Front(st), f)
<1>1. /\ st \in Seq(Frames) /\ n > 0 /\ n \in 1..n /\ StackOK(st, graph, C)
      /\ Top(t) = st[n]
      /\ ~overlap => \A u \in Threads : u # t => ~(Len(stack[u]) > 0)
      /\ ~overlap => Alone(st, ret[t], graph, module_cache)
    BY Zenon, TopFacts
<1>2. stack' = [stack EXCEPT ![t] = ss]
    BY Zenon DEF SetTop
<1>3. Retopped(st, f, ss)
    BY Zenon, <1>1, RetopFacts
<1> HIDE DEF ss
<1>4. ss \in Seq(Frames) /\ Len(ss) = n /\ ss[n] = f /\ \A i \in 1..n : i # n => ss[i] = st[i]
    BY Zenon, <1>3 DEF Retopped
<1>5. StackOK(ss, graph, C)
  <2>1. ASSUME ~Holds(st, f.id) PROVE \A i \in 1..n : i # n => st[i].id # f.id
      BY Zenon, <2>1, <1>1 DEF Holds, StackOK, Guarded
  <2>2. \/ f.pc \notin {"enter", "body", "stored"}
        \/ st[n].pc \in {"enter", "body", "stored"}
        \/ \A i \in 1..n : i # n => st[i].id # f.id
      BY Zenon, <2>1, <1>1
  <2>3. f.id = st[n].id
      BY Zenon, <1>1
  <2> QED
      BY Zenon, <2>2, <2>3, <1>1, <1>3, StackRetop
<1>6. RetOK(ss, r, graph, C)
    BY Zenon, <1>4 DEF RetOK
<1>7. /\ loading_modules' \in [Modules -> Nat]
      /\ \A m \in Modules : loading_modules'[m] = Cardinality(Holders(stack', m))
  <2>1. f.id = st[n].id /\ f.id \in Modules
      BY Zenon, <1>1 DEF Frames
  <2>2. CASE loading_modules' = loading_modules /\ (Guarded(f) <=> Guarded(Top(t)))
    <3>1. Alike(st, ss)
        BY ZenonT(40), <2>1, <2>2, <1>1, <1>3, HoldsRetop DEF Alike
    <3> QED
        BY Zenon, <3>1, <2>2, <1>2, SameHolders DEF Inv, Types
  <2>3. CASE /\ loading_modules' = [loading_modules EXCEPT ![f.id] = @ + 1]
             /\ Guarded(f) /\ ~Holds(st, f.id)
    <3>1. Gains(st, ss, f.id)
        BY Zenon, <2>1, <2>3, <1>1, <1>3, HoldsRetop DEF Gains
    <3> QED
        BY Zenon, <3>1, <2>1, <2>3, <1>2, GainsHolder
  <2> QED
      BY Zenon, <2>2, <2>3
<1>8. ~overlap' => /\ ~overlap
                   /\ Len(ss) > 0 => \A u \in Threads : u # t => ~(Len(stack[u]) > 0)
                   /\ Alone(ss, r, graph, module_cache)
  <2> SUFFICES ASSUME ~overlap PROVE Alone(ss, r, graph, module_cache)
      BY Zenon, <1>1
  <2>1. Alone(st, ret[t], graph, module_cache) /\ r.outcome # "circular"
      BY Zenon, <1>1
  <2>2. ASSUME NEW i \in 1..n, ss[i].pc \in {"check", "enter", "body"}
        PROVE  module_cache[ss[i].id] = NoVersion
    <3>1. CASE i # n
        BY Zenon, <3>1, <2>1, <2>2, <1>4 DEF Alone
    <3>2. CASE i = n
      <4>1. f.pc \in {"check", "enter", "body"} /\ ss[i] = f
          BY Zenon, <3>2, <2>2, <1>4
      <4>2. Top(t).pc \in {"check", "enter", "body"} => module_cache[Top(t).id] = NoVersion
          BY Zenon, <2>1, <1>1 DEF Alone
      <4> QED
          BY Zenon, <4>1, <4>2
    <3> QED
        BY Zenon, <3>1, <3>2
  <2> QED
      BY Zenon, <2>1, <2>2, <1>4 DEF Alone
<1>9. ASSUME NEW m \in Modules \ edited, workspace[m] = NoVersion PROVE FramesOf(ss, m, disk[m])
  <2>1. FramesOf(st, m, disk[m])
      BY Zenon, <1>9 DEF Inv, Unedited
  <2> SUFFICES ASSUME NEW i \in 1..n, ss[i].id = m
               PROVE  ss[i].ver = disk[m] /\ Same(ss[i].pin, disk[m])
      BY Zenon, <1>4 DEF FramesOf
  <2>2. CASE i # n
      BY Zenon, <2>1, <2>2, <1>4 DEF FramesOf
  <2>3. CASE i = n
    <3>1. f.pin = st[n].pin /\ f.ver = st[n].ver /\ st[n].id = m
        BY Zenon, <2>3, <1>1, <1>4, <1>9
    <3> QED
        BY Zenon, <3>1, <2>1, <2>3, <1>4 DEF FramesOf
  <2> QED
      BY Zenon, <2>2, <2>3
<1>10. overlap' \in BOOLEAN
    BY Zenon DEF Inv, Types
<1> QED
    BY Zenon, <1>2, <1>4, <1>5, <1>6, <1>7, <1>8, <1>9, <1>10, QuietStep

\* The innermost load of a thread returns r.
LEMMA ReturnStep ==
    ASSUME Inv, NEW t \in Threads, Busy(t), Pop(t), NEW r \in Rets, ret' = [ret EXCEPT ![t] = r],
           Record(t, Top(t), r),
           UNCHANGED <<graph, workspace, disk, edited, overlap, module_cache>>,
           r.outcome = "ok" => Top(t).id \in Cached(module_cache),
           r.outcome = "circular" /\ ~overlap => MeetsCycle(graph, Top(t).id),
           r.outcome = "ok" => \A m \in Modules \ edited : workspace[m] = NoVersion /\ Top(t).id = m =>
              r.ver = disk[m],
           \/ loading_modules' = loading_modules /\ ~Guarded(Top(t))
           \/ /\ loading_modules' = [loading_modules EXCEPT ![Top(t).id] = @ - 1]
              /\ Guarded(Top(t))
    PROVE  Inv'
<1> DEFINE st == stack[t]
           n  == Len(st)
           f  == Top(t)
           C  == Cached(module_cache)
           ss == Front(st)
           X  == IF n = 1 THEN {<<f.id, f.pin, r.outcome, r.ver>>} ELSE {}
<1>1. /\ st \in Seq(Frames) /\ n > 0 /\ n \in 1..n /\ StackOK(st, graph, C)
      /\ f = st[n] /\ f \in Frames /\ graph \in ImportGraphs
      /\ ~overlap => \A u \in Threads : u # t => ~(Len(stack[u]) > 0)
      /\ ~overlap => Alone(st, ret[t], graph, module_cache)
    BY Zenon, TopFacts
<1>2. stack' = [stack EXCEPT ![t] = ss]
    BY Zenon DEF Pop
<1>3. /\ ss \in Seq(Frames) /\ StackOK(ss, graph, C)
      /\ \A i \in 1..Len(ss) : ss[i] = st[i] /\ i \in 1..n
      /\ Len(ss) > 0 => Waits(ss[Len(ss)], f, graph) /\ ss[Len(ss)] \in Frames
  <2>1. /\ ss \in Seq(Frames) /\ StackOK(ss, graph, C)
        /\ \A i \in 1..Len(ss) : ss[i] = st[i] /\ i \in 1..n
        /\ Len(ss) > 0 => Waits(ss[Len(ss)], st[n], graph) /\ ss[Len(ss)] \in Frames
      BY Zenon, <1>1, StackPop
  <2> QED
      BY Zenon, <2>1, <1>1
<1>4. /\ loading_modules' \in [Modules -> Nat]
      /\ \A m \in Modules : loading_modules'[m] = Cardinality(Holders(stack', m))
  <2>1. CASE loading_modules' = loading_modules /\ ~Guarded(f)
    <3>1. Alike(st, ss)
        BY Zenon, <2>1, <1>1, HoldsPop DEF Alike
    <3> QED
        BY Zenon, <3>1, <2>1, <1>2, SameHolders DEF Inv, Types
  <2>2. CASE loading_modules' = [loading_modules EXCEPT ![f.id] = @ - 1] /\ Guarded(f)
    <3>1. Loses(st, ss, f.id)
        BY Zenon, <2>2, <1>1, HoldsPop DEF Loses
    <3>2. f.id \in Modules
        BY Zenon, <1>1 DEF Frames
    <3> QED
        BY Zenon, <3>1, <3>2, <2>2, <1>2, LosesHolder
  <2> QED
      BY Zenon, <2>1, <2>2
<1>5. results' = results \cup X
    BY Zenon DEF Record
<1>6. X \in SUBSET (Modules \X Texts \X Outcomes \X Texts)
      /\ \A x \in X : x[1] = f.id /\ x[2] = f.pin /\ x[3] = r.outcome /\ x[4] = r.ver
  <2>1. f.id \in Modules /\ f.pin \in Texts /\ r.outcome \in Outcomes /\ r.ver \in Texts
      BY Zenon, <1>1 DEF Frames, Rets
  <2> DEFINE x0 == <<f.id, f.pin, r.outcome, r.ver>>
  <2> HIDE DEF f
  <2>2. /\ x0 \in Modules \X Texts \X Outcomes \X Texts
        /\ x0[1] = f.id /\ x0[2] = f.pin /\ x0[3] = r.outcome /\ x0[4] = r.ver
      BY <2>1
  <2>3. \A x \in X : x = x0
      BY Zenon
  <2> HIDE DEF x0, X
  <2> QED
      BY Zenon, <2>2, <2>3
<1> HIDE DEF X
<1>7. \A x \in X : ResultOK(x, graph, C, overlap)
    BY Zenon, <1>6 DEF ResultOK
<1>8. ASSUME NEW m \in Modules \ edited, workspace[m] = NoVersion
      PROVE  /\ FramesOf(ss, m, disk[m])
             /\ \A x \in X : ResultOf(x, m, disk[m])
  <2>1. FramesOf(st, m, disk[m])
      BY Zenon, <1>8 DEF Inv, Unedited
  <2>2. FramesOf(ss, m, disk[m])
      BY Zenon, <2>1, <1>3 DEF FramesOf
  <2>3. f.id = m => Same(f.pin, disk[m])
      BY Zenon, <2>1, <1>1 DEF FramesOf
  <2>4. \A x \in X : ResultOf(x, m, disk[m])
      BY Zenon, <2>3, <1>6, <1>8 DEF ResultOf
  <2> QED
      BY <2>2, <2>4
<1> HIDE DEF ss, f
<1>9. RetOK(ss, r, graph, C)
    BY Zenon, <1>3 DEF RetOK, Waits, f
<1>10. ~overlap' => /\ ~overlap
                    /\ Len(ss) > 0 => \A u \in Threads : u # t => ~(Len(stack[u]) > 0)
                    /\ Alone(ss, r, graph, module_cache)
  <2> SUFFICES ASSUME ~overlap PROVE Alone(ss, r, graph, module_cache)
      BY Zenon, <1>1
  <2>1. \A i \in 1..Len(ss) : ss[i].pc \in {"check", "enter", "body"} => module_cache[ss[i].id] = NoVersion
      BY Zenon, <1>1, <1>3 DEF Alone
  <2>2. ASSUME Len(ss) > 0, r.outcome = "circular" PROVE MeetsCycle(graph, ss[Len(ss)].id)
    <3>1. MeetsCycle(graph, f.id)
        BY Zenon, <2>2 DEF f
    <3>2. Waits(ss[Len(ss)], f, graph) /\ ss[Len(ss)].id \in Modules
        BY Zenon, <2>2, <1>3 DEF Frames
    <3>3. f.id \in Direct(graph, ss[Len(ss)].id)
        BY Zenon, <3>2, <1>1, DirectTyped DEF Waits, Import_
    <3>4. f.id \in Reachable(graph, ss[Len(ss)].id)
        BY ZenonT(40), <3>2, <3>3, <1>1, ReachableFacts, ReachableTrans
    <3>5. Reachable(graph, f.id) \subseteq Reachable(graph, ss[Len(ss)].id)
        BY Zenon, <3>2, <3>4, <1>1, ReachableTrans
    <3> QED
        BY Zenon, <3>1, <3>5 DEF MeetsCycle
  <2> QED
      BY Zenon, <2>1, <2>2 DEF Alone
<1>11. /\ overlap' \in BOOLEAN /\ module_cache' \in [Modules -> Texts]
       /\ UNCHANGED <<graph, workspace, disk, edited>> /\ module_cache' = module_cache
    BY Zenon DEF Inv, Types
<1> DEFINE D == Cached(module_cache')
<1>12. D = C /\ C \subseteq D
    BY Zenon
<1>13. Settled(graph, D) /\ StackOK(ss, graph, D) /\ RetOK(ss, r, graph, D)
    BY Zenon, <1>3, <1>9, <1>12 DEF Inv
<1>14. \A x \in X : ResultOK(x, graph, D, overlap')
    BY Zenon, <1>7, <1>12
<1>15. ~overlap' => /\ ~overlap
                    /\ Len(ss) > 0 => \A u \in Threads : u # t => ~(Len(stack[u]) > 0)
                    /\ Alone(ss, r, graph, module_cache')
    BY Zenon, <1>10, <1>11
<1>16. \A m \in Modules \ edited : workspace[m] = NoVersion =>
          /\ Same(module_cache'[m], disk[m])
          /\ FramesOf(ss, m, disk[m])
          /\ \A x \in X : ResultOf(x, m, disk[m])
    BY Zenon, <1>8, <1>11 DEF Inv, Unedited
<1> QED
    BY Zenon, <1>2, <1>3, <1>4, <1>5, <1>6, <1>11, <1>12, <1>13, <1>14, <1>15, <1>16, ThreadStep

-----------------------------------------------------------------------------
(* The actions. *)

\* h is f, at another point, with another text or at another import.
Moved(f, h, p, v, a) ==
    h \in Frames /\ h.id = f.id /\ h.pin = f.pin /\ h.ver = v /\ h.pc = p /\ h.at = a

LEMMA Moves ==
    ASSUME NEW f \in Frames
    PROVE  /\ \A p \in Pcs : Moved(f, [f EXCEPT !.pc = p], p, f.ver, f.at)
           /\ \A v \in Versions : Moved(f, [f EXCEPT !.pc = "body", !.ver = v], "body", v, f.at)
           /\ Moved(f, [f EXCEPT !.at = @ + 1], f.pc, f.ver, f.at + 1)
<1>1. "body" \in Pcs /\ f.at + 1 \in Nat \ {0}
    BY DEF Frames, Pcs
<1> QED
    BY Zenon, <1>1 DEF Frames, Moved

\* A count above zero is some thread's, and with no overlap it is the busy one's.
LEMMA Loading ==
    ASSUME Inv, NEW t \in Threads, Busy(t), NEW m \in Modules
    PROVE  /\ loading_modules[m] = 0 => ~Holds(stack[t], m)
           /\ loading_modules[m] > 0 /\ ~overlap => Holds(stack[t], m)
<1> DEFINE H == Holders(stack, m)
<1>1. IsFiniteSet(H) /\ loading_modules[m] = Cardinality(H)
  <2>1. H \subseteq Threads
      BY Zenon DEF Holders
  <2> QED
      BY Zenon, <2>1, ConstantsAssumption, FS_Subset DEF Inv, Counted
<1>2. loading_modules[m] = 0 => H = {}
    BY Zenon, <1>1, FS_EmptySet
<1>3. loading_modules[m] > 0 => H # {}
  <2>1. H = {} => loading_modules[m] = 0
      BY Zenon, <1>1, FS_EmptySet
  <2> HIDE DEF H
  <2> QED
      BY <2>1
<1>4. loading_modules[m] = 0 => ~Holds(stack[t], m)
    BY Zenon, <1>2 DEF Holders
<1>5. ASSUME loading_modules[m] > 0, ~overlap PROVE Holds(stack[t], m)
  <2>1. PICK u \in Threads : Holds(stack[u], m)
      BY Zenon, <1>3, <1>5 DEF Holders
  <2>2. Len(stack[u]) > 0
    <3>1. stack[u] \in Seq(Frames)
        BY Zenon DEF Inv, Types
    <3>2. \E i : i \in 1..Len(stack[u])
        BY Zenon, <2>1 DEF Holds
    <3> QED
        BY <3>1, <3>2, LenProperties
  <2>3. u = t
      BY Zenon, <2>2, <1>5, TopFacts
  <2> QED
      BY Zenon, <2>1, <2>3
<1> QED
    BY Zenon, <1>4, <1>5

LEMMA ImportInv == ASSUME Inv, NEW t \in Threads, Import(t) PROVE Inv'
<1>1. PICK name \in Names, pin \in Texts : Load(t, name, pin)
    BY Zenon DEF Import, Texts
<1>2. \A u \in Threads : Len(stack[u]) > 0 => Busy(u)
  <2> SUFFICES ASSUME NEW u \in Threads, stack[u] = <<>> PROVE ~(Len(stack[u]) > 0)
      BY Zenon DEF Busy
  <2> QED
      OBVIOUS
<1>3. ~(Len(stack[t]) > 0) /\ ret[t] = NoRet
    BY Zenon, <1>2 DEF Import
<1>4. overlap' \in BOOLEAN /\ (~overlap' => ~overlap /\ \A u \in Threads : ~(Len(stack[u]) > 0))
  <2>1. overlap \in BOOLEAN
      BY Zenon DEF Inv, Types
  <2> QED
      BY Zenon, <2>1, <1>2 DEF Import
<1>5. UNCHANGED <<graph, workspace, disk, module_cache, loading_modules, edited, results>>
    BY Zenon DEF Import
<1> QED
    BY Zenon, <1>1, <1>3, <1>4, <1>5, LoadInv

LEMMA ImportNestedInv == ASSUME Inv, NEW t \in Threads, ImportNested(t) PROVE Inv'
<1> DEFINE f == Top(t)
           name == graph[f.id][f.at]
<1>1. /\ Busy(t) /\ ret[t] = NoRet /\ f.pc = "body" /\ f.at <= Len(graph[f.id])
      /\ Load(t, name, NoVersion)
    BY Zenon DEF ImportNested, At
<1>2. /\ f = stack[t][Len(stack[t])] /\ f \in Frames /\ graph \in ImportGraphs
      /\ (~overlap => \A u \in Threads : u # t => ~(Len(stack[u]) > 0))
    BY Zenon, <1>1, TopFacts
<1>3. f.id \in Modules /\ f.at \in Nat \ {0}
    BY Zenon, <1>2 DEF Frames
<1>4. graph[f.id] \in Seq(Names)
    BY Zenon, <1>2, <1>3 DEF ImportGraphs
<1> HIDE DEF f
<1>5. f.at \in 1..Len(graph[f.id])
    BY <1>1, <1>3, <1>4, LenProperties
<1>6. name \in Names
    BY <1>4, <1>5, ElementOfSeq
<1>7. NoVersion \in Texts /\ CanonicalId[name] = Import_(graph, f)
    BY Zenon DEF Texts, Import_
<1>8. /\ UNCHANGED <<graph, workspace, disk, module_cache, loading_modules, edited, results>>
      /\ overlap' = overlap /\ overlap' \in BOOLEAN
    BY Zenon DEF ImportNested, seldom, Inv, Types
<1> HIDE DEF name
<1> QED
    BY Zenon, <1>1, <1>2, <1>5, <1>6, <1>7, <1>8, LoadInv

LEMMA CacheLookupInv == ASSUME Inv, NEW t \in Threads, CacheLookup(t) PROVE Inv'
<1> DEFINE f == Top(t)
           v == module_cache[f.id]
<1>1. /\ Busy(t) /\ ret[t] = NoRet /\ f.pc = "cache"
      /\ UNCHANGED <<graph, workspace, disk, edited, overlap, module_cache, loading_modules>>
    BY Zenon DEF CacheLookup, At, seldom
<1>2. /\ f \in Frames /\ FrameOK(f, graph, Cached(module_cache))
    BY Zenon, <1>1, TopFacts
<1>3. f.id \in Modules /\ v \in Texts /\ ~Guarded(f)
    BY Zenon, <1>1, <1>2 DEF Inv, Types, Frames, Guarded
<1>4. CASE v # NoVersion /\ Pop(t) /\ Return(t, Got(v)) /\ Record(t, f, Got(v))
  <2> DEFINE r == Got(v)
  <2>1. r \in Rets /\ r.outcome = "ok" /\ r.ver = v
      BY Zenon, <1>3, RetTypes
  <2>2. ret' = [ret EXCEPT ![t] = r]
      BY Zenon, <1>4 DEF Return
  <2>3. f.id \in Cached(module_cache)
      BY Zenon, <1>3, <1>4 DEF Cached
  <2>4. \A m \in Modules \ edited : workspace[m] = NoVersion /\ f.id = m => v = disk[m]
      BY Zenon, <1>4 DEF Inv, Unedited, Same
  <2>5. r.outcome # "circular"
      BY Zenon, <2>1
  <2> HIDE DEF r
  <2>6. Record(t, f, r)
      BY Zenon, <1>4 DEF r
  <2> QED
      BY Zenon, <1>1, <1>3, <1>4, <2>1, <2>2, <2>3, <2>4, <2>5, <2>6, ReturnStep
<1>5. CASE v = NoVersion /\ SetTop(t, [f EXCEPT !.pc = "check"]) /\ UNCHANGED <<ret, results>>
  <2> DEFINE h == [f EXCEPT !.pc = "check"]
  <2>1. /\ h \in Frames /\ h.id = f.id /\ h.pin = f.pin /\ h.ver = f.ver /\ h.pc = "check"
        /\ h.at = f.at
    <3>1. "check" \in Pcs
        BY Zenon DEF Pcs
    <3>2. Moved(f, h, "check", f.ver, f.at)
        BY Zenon, <3>1, <1>2, Moves
    <3> HIDE DEF h
    <3> QED
        BY Zenon, <3>2 DEF Moved
  <2>2. SetTop(t, h)
      BY Zenon, <1>5
  <2> HIDE DEF h
  <2>3. FrameOK(h, graph, Cached(module_cache)) /\ ~Guarded(h) /\ h.pc \notin {"enter", "body", "stored"}
      BY Zenon, <2>1, <1>1, <1>2 DEF FrameOK, Guarded
  <2>4. ret' = [ret EXCEPT ![t] = NoRet] /\ NoRet \in Rets /\ NoRet.outcome # "circular"
      BY Zenon, <1>1, <1>5, RetTypes DEF Inv, Types
  <2> QED
      BY ZenonT(40), <1>1, <1>3, <1>5, <2>1, <2>2, <2>3, <2>4, FrameStep
<1> QED
    BY Zenon, <1>4, <1>5 DEF CacheLookup

LEMMA CheckLoadingInv == ASSUME Inv, NEW t \in Threads, CheckLoading(t) PROVE Inv'
<1> DEFINE f  == Top(t)
           st == stack[t]
           n  == Len(st)
           C  == Cached(module_cache)
<1>1. /\ Busy(t) /\ ret[t] = NoRet /\ f.pc = "check"
      /\ UNCHANGED <<graph, workspace, disk, edited, overlap, module_cache, loading_modules>>
    BY Zenon DEF CheckLoading, At, seldom
<1>2. /\ f \in Frames /\ FrameOK(f, graph, C) /\ f = st[n] /\ n \in 1..n /\ graph \in ImportGraphs
      /\ st \in Seq(Frames) /\ StackOK(st, graph, C)
    BY Zenon, <1>1, TopFacts
<1>3. f.id \in Modules /\ ~Guarded(f)
    BY Zenon, <1>1, <1>2 DEF Frames, Guarded
<1> HIDE DEF f
<1>4. CASE /\ loading_modules[f.id] > 0
           /\ Pop(t) /\ Return(t, Err("circular")) /\ Record(t, f, Err("circular"))
  <2> DEFINE r == Err("circular")
  <2>1. r \in Rets /\ r.outcome = "circular"
    <3>1. "circular" \in Errors
        BY Zenon DEF Errors
    <3> QED
        BY Zenon, <3>1, RetTypes
  <2>2. ret' = [ret EXCEPT ![t] = r] /\ Record(t, f, r)
      BY Zenon, <1>4 DEF Return
  <2> HIDE DEF r
  <2>3. ASSUME ~overlap PROVE MeetsCycle(graph, f.id)
    <3>1. Holds(st, f.id)
        BY Zenon, <2>3, <1>1, <1>3, <1>4, Loading
    <3>2. PICK i \in 1..n : Guarded(st[i]) /\ st[i].id = f.id
        BY Zenon, <3>1 DEF Holds
    <3>3. i # n
        BY Zenon, <3>2, <1>2, <1>3
    <3>4. n \in Nat
        BY <1>2, LenProperties
    <3> DEFINE j == i + 1
    <3>5. j \in 1..n /\ (j # n => j < n) /\ j = i + 1
        BY <3>3, <3>4
    <3> HIDE DEF j
    <3>6. Waits(st[i], st[j], graph)
        BY Zenon, <3>5, <1>2 DEF StackOK
    <3>7. st[j].id \in Direct(graph, f.id)
      <4>1. st[j].id = CanonicalId[graph[f.id][st[i].at]] /\ st[i].at \in 1..Len(graph[f.id])
          BY Zenon, <3>2, <3>6 DEF Waits, Import_
      <4> QED
          BY Zenon, <4>1, <1>2, <1>3, DirectTyped
    <3>8. st[j].id \in Modules
        BY Zenon, <3>7, <1>2, <1>3, DirectTyped
    <3>9. f.id \in Reachable(graph, st[j].id)
      <4>1. CASE j = n
          BY Zenon, <4>1, <3>8, <1>2, ReachableFacts
      <4>2. CASE j # n
          BY Zenon, <4>2, <3>5, <1>2 DEF StackOK, Below
      <4> QED
          BY Zenon, <4>1, <4>2
    <3>10. OnCycle(graph, f.id)
        BY Zenon, <3>7, <3>9 DEF OnCycle
    <3>11. f.id \in Reachable(graph, f.id)
        BY Zenon, <1>2, <1>3, ReachableFacts
    <3> QED
        BY Zenon, <3>10, <3>11 DEF MeetsCycle
  <2>4. r.outcome # "ok"
      BY Zenon, <2>1
  <2> QED
      BY Zenon, <1>1, <1>3, <1>4, <2>1, <2>2, <2>3, <2>4, ReturnStep DEF f
<1>5. CASE /\ loading_modules[f.id] = 0
           /\ SetTop(t, [f EXCEPT !.pc = "enter"]) /\ UNCHANGED <<ret, results>>
  <2> DEFINE h == [f EXCEPT !.pc = "enter"]
  <2>1. /\ h \in Frames /\ h.id = f.id /\ h.pin = f.pin /\ h.ver = f.ver /\ h.pc = "enter"
        /\ h.at = f.at
    <3>1. "enter" \in Pcs
        BY Zenon DEF Pcs
    <3>2. Moved(f, h, "enter", f.ver, f.at)
        BY Zenon, <3>1, <1>2, Moves
    <3> HIDE DEF h
    <3> QED
        BY Zenon, <3>2 DEF Moved
  <2>2. SetTop(t, h)
      BY Zenon, <1>5
  <2> HIDE DEF h
  <2>3. FrameOK(h, graph, C) /\ ~Guarded(h) /\ ~Holds(st, h.id)
    <3>1. FrameOK(h, graph, C) /\ ~Guarded(h)
        BY Zenon, <2>1, <1>1, <1>2 DEF FrameOK, Guarded
    <3>2. ~Holds(st, f.id)
        BY Zenon, <1>1, <1>3, <1>5, Loading
    <3> QED
        BY Zenon, <2>1, <3>1, <3>2
  <2>4. ret' = [ret EXCEPT ![t] = NoRet] /\ NoRet \in Rets /\ NoRet.outcome # "circular"
      BY Zenon, <1>1, <1>5, RetTypes DEF Inv, Types
  <2>5. h.id = Top(t).id /\ h.pin = Top(t).pin /\ h.ver = Top(t).ver
        /\ ~Guarded(Top(t)) /\ Top(t).pc \in {"check", "enter", "body"}
      BY Zenon, <2>1, <1>1, <1>3 DEF f
  <2> QED
      BY Zenon, <1>1, <1>5, <2>1, <2>2, <2>3, <2>4, <2>5, FrameStep
<1> QED
    BY Zenon, <1>4, <1>5 DEF CheckLoading, f

LEMMA EnterLoadingInv == ASSUME Inv, NEW t \in Threads, EnterLoading(t) PROVE Inv'
<1> DEFINE f  == Top(t)
           st == stack[t]
           n  == Len(st)
           C  == Cached(module_cache)
           v  == IF workspace[f.id] # NoVersion THEN workspace[f.id] ELSE f.ver
           h  == [f EXCEPT !.pc = "body", !.ver = v]
           r  == IF v = Bad THEN Err("invalid") ELSE NoRet
<1>1. /\ Busy(t) /\ ret[t] = NoRet /\ f.pc = "enter"
      /\ UNCHANGED <<graph, workspace, disk, edited, overlap, module_cache, results>>
      /\ loading_modules' = [loading_modules EXCEPT ![f.id] = @ + 1]
      /\ SetTop(t, h)
    BY Zenon DEF EnterLoading, At, seldom
<1>2. /\ f \in Frames /\ FrameOK(f, graph, C) /\ f = st[n] /\ n \in 1..n /\ graph \in ImportGraphs
      /\ st \in Seq(Frames) /\ StackOK(st, graph, C)
    BY Zenon, <1>1, TopFacts
<1>3. f.id \in Modules /\ f.ver \in Versions
    BY Zenon, <1>2 DEF Frames
<1>4. ret' = [ret EXCEPT ![t] = r]
  <2>1. IF v = Bad THEN Return(t, Err("invalid")) ELSE UNCHANGED ret
      BY Zenon DEF EnterLoading
  <2>2. ret = [ret EXCEPT ![t] = NoRet]
      BY Zenon, <1>1 DEF Inv, Types
  <2> QED
      BY Zenon, <2>1, <2>2 DEF Return
<1>5. /\ r \in Rets /\ r.outcome # "ok" /\ r.outcome # "circular"
  <2>1. "invalid" \in Errors
      BY Zenon DEF Errors
  <2> QED
      BY Zenon, <2>1, RetTypes
<1>6. v \in Versions
  <2>1. workspace[f.id] \in Texts
      BY Zenon, <1>3 DEF Inv, Types
  <2> QED
      BY Zenon, <2>1, <1>3 DEF Texts
<1>7. \A m \in Modules \ edited : workspace[m] = NoVersion /\ f.id = m => v = f.ver
    BY Zenon
<1>8. /\ h \in Frames /\ h.id = f.id /\ h.pin = f.pin /\ h.ver = v /\ h.pc = "body"
      /\ h.at = f.at
  <2> HIDE DEF v
  <2>1. Moved(f, h, "body", v, f.at)
      BY Zenon, <1>2, <1>6, Moves
  <2> HIDE DEF h
  <2> QED
      BY Zenon, <2>1 DEF Moved
<1> HIDE DEF f, r, h, v
<1>9. ~Holds(st, h.id)
  <2>1. n \in Nat
      BY <1>2, LenProperties
  <2>2. \A i \in 1..n : i # n => i < n
      BY <2>1
  <2>3. \A i \in 1..n : i # n => st[i].id # f.id
      BY Zenon, <2>2, <1>1, <1>2 DEF StackOK, Below
  <2>4. ~Guarded(st[n])
      BY Zenon, <1>1, <1>2 DEF Guarded
  <2> QED
      BY Zenon, <2>3, <2>4, <1>8 DEF Holds
<1>10. FrameOK(h, graph, C) /\ Guarded(h)
  <2>1. h.at = 1
      BY Zenon, <1>1, <1>2, <1>8 DEF FrameOK
  <2>2. \A k \in 1..Len(graph[h.id]) : ~(k < 1)
      OBVIOUS
  <2> QED
      BY Zenon, <2>1, <2>2, <1>8 DEF FrameOK, Guarded
<1>11. /\ h.id = Top(t).id /\ h.pin = Top(t).pin /\ Top(t).pc \in {"check", "enter", "body"}
       /\ Top(t).pc \in {"enter", "body", "stored"}
       /\ \A m \in Modules \ edited : workspace[m] = NoVersion /\ h.id = m => h.ver = Top(t).ver
       /\ loading_modules' = [loading_modules EXCEPT ![h.id] = @ + 1]
    BY Zenon, <1>1, <1>7, <1>8 DEF f
<1> QED
    BY Zenon, <1>1, <1>4, <1>5, <1>8, <1>9, <1>10, <1>11, FrameStep

LEMMA BindInv == ASSUME Inv, NEW t \in Threads, Bind(t) PROVE Inv'
<1> DEFINE f  == Top(t)
           C  == Cached(module_cache)
           h  == [f EXCEPT !.at = @ + 1]
<1>1. /\ Busy(t) /\ ret[t].outcome = "ok" /\ SetTop(t, h) /\ ret' = [ret EXCEPT ![t] = NoRet]
      /\ UNCHANGED <<graph, workspace, disk, edited, overlap, module_cache, loading_modules, results>>
    BY Zenon DEF Bind, Return, seldom
<1>2. /\ f \in Frames /\ FrameOK(f, graph, C) /\ f = stack[t][Len(stack[t])] /\ Len(stack[t]) > 0
      /\ RetOK(stack[t], ret[t], graph, C)
    BY Zenon, <1>1, TopFacts
<1>3. ret[t] # NoRet /\ NoRet \in Rets /\ NoRet.outcome # "circular"
    BY Zenon, <1>1, RetTypes
<1>4. f.pc = "body" /\ f.at \in 1..Len(graph[f.id]) /\ Import_(graph, f) \in C
    BY Zenon, <1>1, <1>2, <1>3 DEF RetOK
<1>5. h \in Frames /\ h.id = f.id /\ h.pin = f.pin /\ h.ver = f.ver /\ h.pc = f.pc /\ h.at = f.at + 1
  <2>1. Moved(f, h, f.pc, f.ver, f.at + 1)
      BY Zenon, <1>2, Moves
  <2> HIDE DEF h
  <2> QED
      BY Zenon, <2>1 DEF Moved
<1> HIDE DEF f, h
<1>6. FrameOK(h, graph, C)
  <2>1. \A k \in 1..Len(graph[f.id]) : k < h.at => k < f.at \/ k = f.at
      BY <1>4, <1>5
  <2> QED
      BY Zenon, <2>1, <1>2, <1>4, <1>5 DEF FrameOK, Import_
<1>7. /\ h.id = Top(t).id /\ h.pin = Top(t).pin /\ h.ver = Top(t).ver
      /\ Top(t).pc \in {"check", "enter", "body"}
      /\ Top(t).pc \in {"enter", "body", "stored"}
      /\ Guarded(h) /\ Guarded(Top(t))
    BY Zenon, <1>4, <1>5 DEF f, Guarded
<1> QED
    BY Zenon, <1>1, <1>3, <1>5, <1>6, <1>7, FrameStep

LEMMA DropGuardInv == ASSUME Inv, NEW t \in Threads, DropGuard(t) PROVE Inv'
<1> DEFINE f == Top(t)
           r == Got(f.ver)
<1>1. /\ Busy(t) /\ f.pc = "stored" /\ Pop(t) /\ ret' = [ret EXCEPT ![t] = r] /\ Record(t, f, r)
      /\ loading_modules' = [loading_modules EXCEPT ![f.id] = @ - 1]
      /\ UNCHANGED <<graph, workspace, disk, edited, overlap, module_cache>>
    BY Zenon DEF DropGuard, At, Return, seldom
<1>2. /\ f \in Frames /\ FrameOK(f, graph, Cached(module_cache))
      /\ f = stack[t][Len(stack[t])] /\ Len(stack[t]) \in 1..Len(stack[t])
    BY Zenon, <1>1, TopFacts
<1>3. Guarded(f) /\ f.id \in Cached(module_cache) /\ f.ver \in Texts
    BY Zenon, <1>1, <1>2 DEF Guarded, FrameOK, Frames, Texts
<1>4. r \in Rets /\ r.outcome = "ok" /\ r.ver = f.ver /\ r.outcome # "circular"
    BY Zenon, <1>3, RetTypes
<1>5. \A m \in Modules \ edited : workspace[m] = NoVersion /\ f.id = m => f.ver = disk[m]
  <2>1. ASSUME NEW m \in Modules \ edited, workspace[m] = NoVersion
        PROVE  FramesOf(stack[t], m, disk[m])
      BY Zenon, <2>1 DEF Inv, Unedited
  <2> HIDE DEF f
  <2> QED
      BY Zenon, <1>2, <2>1 DEF FramesOf
<1> HIDE DEF r
<1> QED
    BY Zenon, <1>1, <1>3, <1>4, <1>5, ReturnStep

LEMMA UnwindInv == ASSUME Inv, NEW t \in Threads, Unwind(t) PROVE Inv'
<1> DEFINE f == Top(t)
           r == ret[t]
<1>1. /\ Busy(t) /\ r.outcome \in Errors /\ Pop(t) /\ ret' = ret /\ Record(t, f, r)
      /\ loading_modules' = [loading_modules EXCEPT ![f.id] = @ - 1]
      /\ UNCHANGED <<graph, workspace, disk, edited, overlap, module_cache>>
    BY Zenon DEF Unwind, seldom
<1>2. /\ f = stack[t][Len(stack[t])] /\ Len(stack[t]) > 0 /\ r \in Rets
      /\ RetOK(stack[t], r, graph, Cached(module_cache))
      /\ ~overlap => Alone(stack[t], r, graph, module_cache)
    BY Zenon, <1>1, TopFacts
<1>3. r # NoRet /\ r.outcome # "ok"
    BY Zenon, <1>1, RetTypes
<1>4. Guarded(f)
    BY Zenon, <1>2, <1>3 DEF RetOK, Guarded
<1>5. r.outcome = "circular" /\ ~overlap => MeetsCycle(graph, f.id)
    BY Zenon, <1>2 DEF Alone
<1>6. ret' = [ret EXCEPT ![t] = r]
    BY Zenon, <1>1 DEF Inv, Types
<1> HIDE DEF r
<1> QED
    BY Zenon, <1>1, <1>2, <1>3, <1>4, <1>5, <1>6, ReturnStep

LEMMA EndImportInv == ASSUME Inv, NEW t \in Threads, EndImport(t) PROVE Inv'
<1> DEFINE st == stack[t]
<1>1. /\ ~Busy(t) /\ ret' = [ret EXCEPT ![t] = NoRet] /\ stack' = stack
      /\ UNCHANGED <<graph, workspace, disk, edited, overlap, module_cache, loading_modules, results>>
    BY Zenon DEF EndImport, Return, seldom
<1>2. NoRet \in Rets /\ NoRet.outcome # "circular"
    BY Zenon, RetTypes
<1>3. ~(Len(st) > 0)
    BY <1>1 DEF Busy
<1>4. /\ st \in Seq(Frames) /\ stack' = [stack EXCEPT ![t] = st] /\ StackOK(st, graph, Cached(module_cache))
      /\ loading_modules' \in [Modules -> Nat] /\ overlap' \in BOOLEAN
      /\ \A m \in Modules : loading_modules'[m] = Cardinality(Holders(stack', m))
    BY Zenon, <1>1 DEF Inv, Types, Counted
<1>5. RetOK(st, NoRet, graph, Cached(module_cache))
    BY Zenon DEF RetOK
<1>6. ~overlap => Alone(st, NoRet, graph, module_cache)
    BY Zenon, <1>2 DEF Inv, NoOverlap, Alone
<1>7. \A m \in Modules \ edited : workspace[m] = NoVersion => FramesOf(st, m, disk[m])
    BY Zenon DEF Inv, Unedited
<1> QED
    BY Zenon, <1>1, <1>2, <1>3, <1>4, <1>5, <1>6, <1>7, QuietStep

\* The cache gets a module whose imports it has.
LEMMA StoreModuleInv == ASSUME Inv, NEW t \in Threads, StoreModule(t) PROVE Inv'
<1> DEFINE f  == Top(t)
           st == stack[t]
           n  == Len(st)
           C  == Cached(module_cache)
           D  == Cached(module_cache')
           h  == [f EXCEPT !.pc = "stored"]
           ss == Append(Front(st), h)
<1>1. /\ Busy(t) /\ ret[t] = NoRet /\ f.pc = "body" /\ f.at > Len(graph[f.id])
      /\ UNCHANGED <<graph, workspace, disk, edited, overlap, loading_modules, ret, results>>
      /\ module_cache' = [module_cache EXCEPT ![f.id] = f.ver]
      /\ stack' = [stack EXCEPT ![t] = ss]
    BY Zenon DEF StoreModule, At, SetTop, seldom
<1>2. /\ f \in Frames /\ FrameOK(f, graph, C) /\ f = st[n] /\ n \in 1..n /\ graph \in ImportGraphs
      /\ st \in Seq(Frames) /\ StackOK(st, graph, C) /\ n > 0
      /\ ~overlap => \A u \in Threads : u # t => ~(Len(stack[u]) > 0)
      /\ ~overlap => Alone(st, ret[t], graph, module_cache)
    BY Zenon, <1>1, TopFacts
<1>3. f.id \in Modules /\ f.ver \in Versions /\ f.ver \in Texts /\ f.ver # NoVersion /\ f.at \in Nat
    BY Zenon, <1>2, ConstantsAssumption DEF Frames, Texts
<1>4. Moved(f, h, "stored", f.ver, f.at)
  <2>1. "stored" \in Pcs
      BY Zenon DEF Pcs
  <2> QED
      BY Zenon, <2>1, <1>2, Moves
<1> HIDE DEF h, f
<1>5. h \in Frames /\ h.id = f.id /\ h.pin = f.pin /\ h.ver = f.ver /\ h.pc = "stored" /\ h.at = f.at
    BY Zenon, <1>4 DEF Moved
<1>6. Retopped(st, h, ss)
    BY Zenon, <1>2, <1>5, RetopFacts
<1> HIDE DEF ss
<1>7. /\ ss \in Seq(Frames) /\ Len(ss) = n /\ ss[n] = h
      /\ \A i \in 1..n : i # n => ss[i] = st[i]
    BY Zenon, <1>6 DEF Retopped
<1>8. /\ module_cache' \in [Modules -> Texts]
      /\ \A m \in Modules : module_cache'[m] = IF m = f.id THEN f.ver ELSE module_cache[m]
    BY Zenon, <1>1, <1>3 DEF Inv, Types
<1>9. C \in SUBSET Modules /\ D = C \cup {f.id} /\ C \subseteq D /\ f.id \in D
    BY Zenon, <1>3, <1>8 DEF Cached
<1>10. Settled(graph, D)
  <2>1. graph[f.id] \in Seq(Names)
      BY Zenon, <1>2, <1>3 DEF ImportGraphs
  <2>2. \A k \in 1..Len(graph[f.id]) : k < f.at
      BY <1>1, <1>3, <2>1, LenProperties
  <2>3. \A k \in 1..Len(graph[f.id]) : CanonicalId[graph[f.id][k]] \in C
      BY Zenon, <2>2, <1>1, <1>2 DEF FrameOK
  <2>4. Direct(graph, f.id) \subseteq C
      BY Zenon, <2>3 DEF Direct
  <2>5. Settled(graph, C)
      BY Zenon DEF Inv
  <2>6. Settled(graph, C \cup {f.id})
      BY Zenon, <2>4, <2>5, <1>2, <1>3, <1>9, SettledGrows
  <2> QED
      BY Zenon, <2>6, <1>9
<1> HIDE DEF C, D
<1>11. StackOK(ss, graph, D)
  <2>1. StackOK(st, graph, D)
      BY Zenon, <1>2, <1>9, CachedGrows
  <2>2. FrameOK(h, graph, D)
      BY Zenon, <1>5, <1>9 DEF FrameOK
  <2>3. st[n].pc \in {"enter", "body", "stored"} /\ h.id = st[n].id
      BY Zenon, <1>1, <1>2, <1>5
  <2> QED
      BY Zenon, <2>1, <2>2, <2>3, <1>2, <1>5, <1>6, StackRetop
<1>12. RetOK(ss, NoRet, graph, D) /\ NoRet \in Rets /\ NoRet.outcome # "circular"
    BY Zenon, RetTypes DEF RetOK
<1>13. ret' = [ret EXCEPT ![t] = NoRet]
    BY Zenon, <1>1 DEF Inv, Types
<1>14. Alike(st, ss)
  <2>1. Guarded(h) /\ Guarded(st[n]) /\ h.id = st[n].id
      BY Zenon, <1>1, <1>2, <1>5 DEF Guarded
  <2> QED
      BY Zenon, <2>1, <1>2, <1>6, HoldsRetop DEF Alike
<1>15. \A m \in Modules : loading_modules'[m] = Cardinality(Holders(stack', m))
    BY Zenon, <1>1, <1>14, SameHolders
<1>16. ~overlap' => /\ ~overlap
                    /\ Len(ss) > 0 => \A u \in Threads : u # t => ~(Len(stack[u]) > 0)
                    /\ Alone(ss, NoRet, graph, module_cache')
  <2> SUFFICES ASSUME ~overlap PROVE Alone(ss, NoRet, graph, module_cache')
      BY Zenon, <1>1, <1>2
  <2>1. ASSUME NEW i \in 1..n, ss[i].pc \in {"check", "enter", "body"}
        PROVE  module_cache'[ss[i].id] = NoVersion
    <3>1. i # n
        BY Zenon, <2>1, <1>5, <1>7
    <3>2. i < n
        BY <3>1, <1>2, LenProperties
    <3>3. st[n].id # st[i].id
        BY Zenon, <3>2, <1>1, <1>2 DEF StackOK, Below
    <3>4. module_cache[st[i].id] = NoVersion
        BY Zenon, <2>1, <3>1, <1>2, <1>7 DEF Alone
    <3>5. st[i].id \in Modules
      <4>1. st[i] \in Frames
          BY <1>2, ElementOfSeq
      <4> QED
          BY Zenon, <4>1 DEF Frames
    <3> QED
        BY Zenon, <3>1, <3>3, <3>4, <3>5, <1>2, <1>7, <1>8
  <2> QED
      BY Zenon, <2>1, <1>7, <1>12 DEF Alone
<1>17. ASSUME NEW m \in Modules \ edited, workspace[m] = NoVersion
       PROVE  Same(module_cache'[m], disk[m]) /\ FramesOf(ss, m, disk[m])
  <2>1. Same(module_cache[m], disk[m]) /\ FramesOf(st, m, disk[m])
      BY Zenon, <1>17 DEF Inv, Unedited
  <2>2. f.id = m => f.ver = disk[m] /\ Same(f.pin, disk[m])
      BY Zenon, <2>1, <1>2 DEF FramesOf
  <2>3. Same(module_cache'[m], disk[m])
    <3>1. CASE m = f.id
        BY Zenon, <3>1, <2>2, <1>8 DEF Same
    <3>2. CASE m # f.id
        BY Zenon, <3>2, <2>1, <1>8
    <3> QED
        BY Zenon, <3>1, <3>2
  <2>4. ASSUME NEW i \in 1..n, ss[i].id = m
        PROVE  ss[i].ver = disk[m] /\ Same(ss[i].pin, disk[m])
    <3>1. CASE i = n
        BY Zenon, <3>1, <2>2, <2>4, <1>5, <1>7
    <3>2. CASE i # n
        BY Zenon, <3>2, <2>1, <2>4, <1>7 DEF FramesOf
    <3> QED
        BY Zenon, <3>1, <3>2
  <2> QED
      BY Zenon, <2>3, <2>4, <1>7 DEF FramesOf
<1> DEFINE X == {}
<1>18. /\ X \in SUBSET (Modules \X Texts \X Outcomes \X Texts) /\ results' = results \cup X
       /\ \A x \in X : ResultOK(x, graph, D, overlap')
       /\ \A m \in Modules \ edited : workspace[m] = NoVersion =>
             /\ Same(module_cache'[m], disk[m])
             /\ FramesOf(ss, m, disk[m])
             /\ \A x \in X : ResultOf(x, m, disk[m])
    BY Zenon, <1>1, <1>17
<1>19. loading_modules' \in [Modules -> Nat] /\ overlap' \in BOOLEAN
    BY Zenon, <1>1 DEF Inv, Types
<1>20. /\ stack' = [stack EXCEPT ![t] = ss] /\ UNCHANGED <<graph, workspace, disk, edited>>
       /\ Len(stack[t]) > 0
    BY Zenon, <1>1, <1>2
<1> HIDE DEF X
<1> QED
    BY Zenon, <1>7, <1>8, <1>9, <1>10, <1>11, <1>12, <1>13, <1>15, <1>16, <1>18, <1>19, <1>20,
       ThreadStep DEF C, D

\* A file is replaced: nothing is known of its module any more.
LEMMA EditFileInv == ASSUME Inv, EditFile PROVE Inv'
<1>1. PICK m \in Modules, v \in Texts :
         disk' = [disk EXCEPT ![m] = v] /\ edited' = edited \cup {m}
    BY Zenon DEF EditFile, Texts
<1>2. UNCHANGED <<graph, workspace, module_cache, loading_modules, stack, ret, loads, overlap, results>>
    BY Zenon DEF EditFile
<1>3. Types'
    BY Zenon, <1>1, <1>2 DEF Inv, Types
<1>4. \A k \in Modules : k \notin edited' => k \notin edited /\ disk'[k] = disk[k]
    BY Zenon, <1>1 DEF Inv, Types
<1>5. Unedited'
    BY Zenon, <1>2, <1>4 DEF Inv, Unedited
<1>6. Counted' /\ NoOverlap'
    BY Zenon, <1>2 DEF Inv, Counted, NoOverlap
<1> QED
    BY Zenon, <1>2, <1>3, <1>5, <1>6 DEF Inv

LEMMA InitInv == Init => Inv
<1> SUFFICES ASSUME Init PROVE Inv
    OBVIOUS
<1>1. \A t \in Threads : stack[t] = <<>> /\ ret[t] = NoRet
    BY Zenon DEF Init
<1>2. <<>> \in Seq(Frames) /\ Len(<<>>) = 0 /\ ~(Len(<<>>) > 0) /\ 1..Len(<<>>) = {}
    OBVIOUS
<1>3. \A t \in Threads : ~(Len(stack[t]) > 0) /\ 1..Len(stack[t]) = {}
    BY Zenon, <1>1, <1>2
<1>4. Types
  <2>1. NoVersion \in Texts /\ 0 \in Nat /\ NoRet \in Rets
      BY Zenon, RetTypes DEF Texts
  <2>2. graph \in [Modules -> Seq(Names)] /\ workspace \in [Modules -> Texts]
      BY Zenon, ConstantsAssumption DEF Init, Texts
  <2> QED
      BY Zenon, <1>2, <2>1, <2>2 DEF Init, Types, Texts
<1>5. Cached(module_cache) = {}
    BY Zenon DEF Init, Cached
<1>6. Settled(graph, Cached(module_cache))
    BY Zenon, <1>5 DEF Settled, Closed
<1>7. \A t \in Threads : /\ StackOK(stack[t], graph, Cached(module_cache))
                         /\ RetOK(stack[t], ret[t], graph, Cached(module_cache))
    BY Zenon, <1>3 DEF StackOK, RetOK
<1>8. Counted
  <2>1. \A m \in Modules : Holders(stack, m) = {}
      BY Zenon, <1>3 DEF Holders, Holds
  <2>2. Cardinality({}) = 0
      BY Zenon, FS_EmptySet
  <2> QED
      BY Zenon, <2>1, <2>2 DEF Counted, Init
<1>9. NoOverlap
    BY Zenon, <1>3 DEF NoOverlap, Alone
<1>10. (\A r \in results : ResultOK(r, graph, Cached(module_cache), overlap)) /\ Unedited
    BY Zenon, <1>3 DEF Init, Unedited, Same, FramesOf
<1> QED
    BY Zenon, <1>4, <1>6, <1>7, <1>8, <1>9, <1>10 DEF Inv

LEMMA StepInv == Inv /\ [Next]_vars => Inv'
<1> SUFFICES ASSUME Inv, [Next]_vars PROVE Inv'
    OBVIOUS
<1>1. ASSUME NEW t \in Threads, Progress(t) PROVE Inv'
    BY Zenon, <1>1, CacheLookupInv, CheckLoadingInv, EnterLoadingInv, ImportNestedInv, BindInv,
       StoreModuleInv, DropGuardInv, UnwindInv, EndImportInv DEF Progress
<1>2. CASE UNCHANGED vars
  <2>1. Types' /\ Counted' /\ NoOverlap' /\ Unedited'
      BY Zenon, <1>2 DEF Inv, Types, Counted, NoOverlap, Unedited, vars
  <2> QED
      BY Zenon, <2>1, <1>2 DEF Inv, vars
<1> QED
    BY Zenon, <1>1, <1>2, ImportInv, EditFileInv DEF Next

LEMMA AlwaysInv == Spec => []Inv
BY InitInv, StepInv, PTL DEF Spec

-----------------------------------------------------------------------------
(* Theorems. *)

\* An import that reaches a cycle of imports yields no value, and no thread
\* evaluates a module inside its own evaluation: what load_module and
\* evaluate_module_source promise, for any threads and import graph.
THEOREM CyclesHaveNoValue == Spec => []NoValueFromCycle
<1>1. ASSUME Inv PROVE NoValueFromCycle
  <2>1. /\ graph \in ImportGraphs /\ Cached(module_cache) \in SUBSET Modules
        /\ Settled(graph, Cached(module_cache))
      BY Zenon, <1>1 DEF Inv, Types, ImportGraphs, Cached
  <2>2. \A r \in results : r[3] = "ok" => r[1] \in Cached(module_cache)
      BY Zenon, <1>1 DEF Inv, ResultOK
  <2>3. \A r \in results : r[3] = "ok" => \A m \in Reachable(graph, r[1]) : ~OnCycle(graph, m)
      BY Zenon, <2>1, <2>2, SettledMeetsNoCycle
  <2>4. ASSUME NEW t \in Threads, NEW i \in DOMAIN stack[t], NEW j \in DOMAIN stack[t],
               Guarded(stack[t][i]), Guarded(stack[t][j]), stack[t][i].id = stack[t][j].id
        PROVE  i = j
    <3>1. stack[t] \in Seq(Frames) /\ StackOK(stack[t], graph, Cached(module_cache))
        BY Zenon, <1>1 DEF Inv, Types
    <3>2. i \in 1..Len(stack[t]) /\ j \in 1..Len(stack[t])
        BY <3>1
    <3>3. ~(i < j) /\ ~(j < i)
        BY Zenon, <3>1, <3>2, <2>4 DEF StackOK, Below, Guarded
    <3> QED
        BY <3>2, <3>3
  <2> QED
      BY Zenon, <2>3, <2>4 DEF NoValueFromCycle
<1> QED
    BY <1>1, AlwaysInv, PTL

\* While loads do not overlap, CircularImport is reported only for a module
\* that reaches a cycle.
THEOREM CircularImportIsReal == Spec => []NoFalseCircularImport
<1>1. ASSUME Inv PROVE NoFalseCircularImport
    BY Zenon, <1>1 DEF Inv, ResultOK, MeetsCycle, NoFalseCircularImport
<1> QED
    BY <1>1, AlwaysInv, PTL

\* What a pinned import yields was evaluated from the text the pin names, for a
\* module whose file was not replaced and which the workspace pass did not read.
THEOREM PinsAreKept == Spec => []PinnedBindingsMatch
<1>1. ASSUME Inv PROVE PinnedBindingsMatch
  <2> SUFFICES ASSUME NEW r \in results, r[2] # NoVersion, r[3] = "ok", r[1] \notin edited,
                      workspace[r[1]] = NoVersion
               PROVE  r[4] = r[2]
      BY Zenon DEF PinnedBindingsMatch
  <2>1. r \in Modules \X Texts \X Outcomes \X Texts
      BY Zenon, <1>1 DEF Inv, Types
  <2>2. r[1] \in Modules
      BY <2>1
  <2>3. ResultOf(r, r[1], disk[r[1]])
      BY Zenon, <2>2, <1>1 DEF Inv, Unedited
  <2> QED
      BY Zenon, <2>3 DEF ResultOf, Same
<1> QED
    BY <1>1, AlwaysInv, PTL

\* A cached module keeps its value while loads do not overlap: evaluate_module_
\* source stores only what the cache did not have.
THEOREM CachedForGood == Spec => CacheIsStable
<1> DEFINE Stable == ~overlap => \A m \in Modules : module_cache[m] # NoVersion =>
                                                       module_cache'[m] = module_cache[m]
<1>1. ASSUME Inv, [Next]_vars PROVE Stable
  <2>1. ASSUME NEW t \in Threads, StoreModule(t), ~overlap, NEW m \in Modules,
               module_cache[m] # NoVersion
        PROVE  module_cache'[m] = module_cache[m]
    <3>1. Busy(t) /\ Top(t).pc = "body" /\ module_cache' = [module_cache EXCEPT ![Top(t).id] = Top(t).ver]
        BY Zenon, <2>1 DEF StoreModule, At
    <3>2. Len(stack[t]) \in 1..Len(stack[t]) /\ Top(t) = stack[t][Len(stack[t])]
          /\ Alone(stack[t], ret[t], graph, module_cache)
        BY Zenon, <3>1, <2>1, <1>1, TopFacts
    <3>3. module_cache[Top(t).id] = NoVersion
        BY Zenon, <3>1, <3>2 DEF Alone
    <3>4. m # Top(t).id
        BY Zenon, <3>3, <2>1
    <3> QED
        BY Zenon, <3>1, <3>4, <1>1 DEF Inv, Types
  <2>2. ASSUME NEW t \in Threads, Import(t) \/ Progress(t), ~StoreModule(t)
        PROVE  module_cache' = module_cache
      BY Zenon, <2>2 DEF Import, Progress, CacheLookup, CheckLoading, EnterLoading, ImportNested, Bind,
         DropGuard, Unwind, EndImport
  <2>3. EditFile \/ UNCHANGED vars => module_cache' = module_cache
      BY Zenon DEF EditFile, vars
  <2> QED
      BY Zenon, <2>1, <2>2, <2>3, <1>1 DEF Next
<1>2. ASSUME Inv, [Next]_vars PROVE [Stable]_vars
    BY Zenon, <1>1, <1>2
<1> QED
    BY <1>2, AlwaysInv, PTL DEF Spec, CacheIsStable
=============================================================================
