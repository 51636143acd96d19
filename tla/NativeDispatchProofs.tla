------------------------ MODULE NativeDispatchProofs -----------------------
(***************************************************************************)
(* Pooled sandbox states and arenas are never mixed up, for any number of  *)
(* threads and evaluators, any depth of reentrant calls and any deadlines. *)
(***************************************************************************)
EXTENDS NativeDispatch, FiniteSetTheorems, SequenceTheorems, TLAPS

Pcs == {"acquire", "prologue", "body", "host", "post"}

Frames == [e : Evaluators, arena : 0..(MaxDepth + 1), box : 0..MaxDepth, pc : Pcs,
           lambda : 0..MaxLambda, started : Nat, deadline : Deadlines \cup {Never},
           trapped : Traps \cup {NoTrap}]

Boxes == [deadline : Deadlines \cup {Never}, epoch : Nat, granted : BOOLEAN,
          closures : Evaluators \cup {"none"}, trap : Traps \cup {NoTrap},
          arena : 0..(MaxDepth + 1)]

Types ==
    /\ deadline_ns \in [Evaluators -> Deadlines \cup {Never}]
    /\ granted \in [Evaluators -> BOOLEAN]
    /\ pool \in [Threads -> 0..MaxDepth]
    /\ boxes \in [Threads -> [1..MaxDepth -> Boxes]]
    /\ stack \in [Threads -> Seq(Frames)]
    /\ \A t \in Threads : Len(stack[t]) <= MaxDepth
    /\ clock \in 0..MaxClock
    /\ calls \in 0..MaxCalls

\* The box b is filled for the dispatch f, under the grants g.
Serves(b, f, g) ==
    /\ b.deadline = f.deadline
    /\ b.epoch = Epoch[f.e]
    /\ b.granted = g[f.e]
    /\ b.closures = f.e
    /\ f.arena # NoArena => b.arena = f.arena
    /\ b.trap # NoTrap <=> f.trapped # NoTrap

\* A dispatch has a box of its own, filled for it, once it is in machine code.
FrameOK(f, bx, pl, g) ==
    /\ f.pc = "acquire" => f.box = 0 /\ f.trapped = NoTrap
    /\ InMachineCode(f) => f.box # 0 /\ f.box # pl /\ Serves(bx[f.box], f, g)
    /\ f.pc = "host" => g[f.e]

\* Two dispatches have different boxes and arenas.
Apart(f, h) ==
    /\ f.box # 0 => f.box # h.box
    /\ f.arena # NoArena => f.arena # h.arena

\* The dispatches of a thread: all but the innermost wait for a host function,
\* an arena that is not the pooled one belongs to its depth, and nothing is
\* shared.
ThreadOK(st, bx, pl, g) ==
    \A i \in 1..Len(st) :
       /\ FrameOK(st[i], bx, pl, g)
       /\ i # Len(st) => st[i].pc = "host"
       /\ st[i].arena \in {NoArena, Pooled, Own(i)}
       /\ \A j \in 1..Len(st) : j # i => Apart(st[i], st[j])

Inv == Types /\ \A t \in Threads : ThreadOK(stack[t], boxes[t], pool[t], granted)

-----------------------------------------------------------------------------
(* Stacks. *)

\* The dispatch at the top of st, in machine code, becomes f, and its box k
\* becomes b.
Running(st, bx, pl, g, k, f, b) ==
    /\ st \in Seq(Frames) /\ bx \in [1..MaxDepth -> Boxes] /\ pl \in 0..MaxDepth
    /\ ThreadOK(st, bx, pl, g)
    /\ Len(st) > 0 /\ InMachineCode(st[Len(st)])
    /\ k \in 1..MaxDepth /\ k = st[Len(st)].box
    /\ f \in Frames /\ f.arena = st[Len(st)].arena /\ f.box = k /\ InMachineCode(f)
    /\ f.pc = "host" => g[f.e]
    /\ b \in Boxes /\ Serves(b, f, g)

\* The other dispatches have other boxes.
LEMMA TopChanges ==
    ASSUME NEW st, NEW bx, NEW pl, NEW g, NEW k, NEW f, NEW b, Running(st, bx, pl, g, k, f, b)
    PROVE  /\ [st EXCEPT ![Len(st)] = f] \in Seq(Frames)
           /\ Len([st EXCEPT ![Len(st)] = f]) = Len(st)
           /\ [bx EXCEPT ![k] = b] \in [1..MaxDepth -> Boxes]
           /\ ThreadOK([st EXCEPT ![Len(st)] = f], [bx EXCEPT ![k] = b], pl, g)
<1> USE DEF Running
<1> DEFINE n  == Len(st)
           ss == [st EXCEPT ![n] = f]
           bb == [bx EXCEPT ![k] = b]
<1>1. n \in 1..Len(st) /\ n \in Nat
    BY LenProperties
<1>2. /\ ss \in Seq(Frames) /\ Len(ss) = n
      /\ \A j \in 1..n : ss[j] = IF j = n THEN f ELSE st[j]
    BY <1>1, ExceptSeq
<1>3. \A i \in 1..n : st[i] \in Frames
    BY ElementOfSeq
<1>4. k \in 1..MaxDepth /\ k # pl
  <2>1. FrameOK(st[n], bx, pl, g)
      BY Zenon, <1>1 DEF ThreadOK
  <2>2. k # 0 /\ k # pl
      BY Zenon, <2>1 DEF FrameOK
  <2> QED
      BY Zenon, <2>2
<1>5. bb \in [1..MaxDepth -> Boxes] /\ bb[k] = b /\ \A i \in 1..MaxDepth : i # k => bb[i] = bx[i]
    BY Zenon, <1>4
<1>6. ASSUME NEW i \in 1..n, i # n PROVE FrameOK(ss[i], bb, pl, g)
  <2>1. ss[i] = st[i] /\ st[i].pc = "host" /\ FrameOK(st[i], bx, pl, g)
      BY Zenon, <1>6, <1>2 DEF ThreadOK
  <2>2. st[i].box # k /\ st[i].box # 0
      BY Zenon, <1>1, <1>6, <2>1 DEF ThreadOK, FrameOK, InMachineCode, Apart
  <2>3. st[i].box \in 0..MaxDepth
      BY Zenon, <1>3 DEF Frames
  <2>4. st[i].box \in 1..MaxDepth
      BY <2>2, <2>3, ConstantsAssumption
  <2>5. bb[st[i].box] = bx[st[i].box]
      BY Zenon, <2>2, <2>4, <1>5
  <2> QED
      BY Zenon, <2>1, <2>5 DEF FrameOK
<1>7. FrameOK(ss[n], bb, pl, g)
  <2>1. ss[n] = f
      BY Zenon, <1>1, <1>2
  <2>2. f.box # 0
      BY ConstantsAssumption
  <2>3. f.pc # "acquire"
      BY Zenon DEF InMachineCode
  <2>4. f.box # pl
      BY Zenon, <1>4
  <2>5. Serves(bb[f.box], f, g)
      BY Zenon, <1>5
  <2>6. f.pc = "host" => g[f.e]
      BY Zenon
  <2> HIDE DEF Running, ss, bb
  <2>7. FrameOK(f, bb, pl, g)
      BY Zenon, <2>2, <2>3, <2>4, <2>5, <2>6 DEF FrameOK
  <2> QED
      BY Zenon, <2>1, <2>7
<1>8. \A i \in 1..n : ss[i].box = st[i].box /\ ss[i].arena = st[i].arena
    BY Zenon, <1>2
<1> HIDE DEF ss, bb
<1>9. ThreadOK(ss, bb, pl, g)
  <2> SUFFICES ASSUME NEW i \in 1..n
               PROVE  /\ FrameOK(ss[i], bb, pl, g)
                      /\ i # n => ss[i].pc = "host"
                      /\ ss[i].arena \in {NoArena, Pooled, Own(i)}
                      /\ \A j \in 1..n : j # i => Apart(ss[i], ss[j])
      BY Zenon, <1>2 DEF ThreadOK
  <2>1. FrameOK(ss[i], bb, pl, g)
      BY Zenon, <1>6, <1>7
  <2>2. i # n => ss[i].pc = "host"
      BY Zenon, <1>2 DEF ThreadOK
  <2>3. ss[i].arena \in {NoArena, Pooled, Own(i)}
      BY Zenon, <1>8 DEF ThreadOK
  <2>4. ASSUME NEW j \in 1..n, j # i
        PROVE  Apart(ss[i], ss[j])
    <3>1. Apart(st[i], st[j])
        BY Zenon, <2>4 DEF ThreadOK
    <3> QED
        BY Zenon, <3>1, <1>8 DEF Apart
  <2> QED
      BY Zenon, <2>1, <2>2, <2>3, <2>4
<1> QED
    BY Zenon, <1>2, <1>5, <1>9 DEF ss, bb

\* A dispatch that begins inside another finds the pooled arena borrowed, or
\* takes it.
LEMMA Pushed ==
    ASSUME NEW st \in Seq(Frames), NEW bx, NEW pl, NEW g, ThreadOK(st, bx, pl, g),
           Len(st) > 0 => st[Len(st)].pc = "host",
           NEW f \in Frames, f.pc = "acquire", f.box = 0, f.trapped = NoTrap,
           \/ f.arena = NoArena
           \/ f.arena = Own(Len(st) + 1)
           \/ f.arena = Pooled /\ \A i \in 1..Len(st) : st[i].arena # Pooled
    PROVE  /\ Append(st, f) \in Seq(Frames) /\ Len(Append(st, f)) = Len(st) + 1
           /\ ThreadOK(Append(st, f), bx, pl, g)
<1> DEFINE n  == Len(st)
           ss == Append(st, f)
<1>0. n \in Nat
    BY LenProperties
<1>1. /\ ss \in Seq(Frames) /\ Len(ss) = n + 1
      /\ \A i \in 1..n : ss[i] = st[i]
      /\ ss[n + 1] = f
    BY AppendProperties
<1>2. \A i \in 1..(n + 1) : i \in 1..n \/ i = n + 1
    BY <1>0
<1>3. \A i \in 1..n : i # n + 1
    BY <1>0
<1>4. \A i \in 1..n : st[i].pc = "host"
  <2>1. \A i \in 1..n : n > 0
      BY <1>0
  <2> QED
      BY Zenon, <2>1 DEF ThreadOK
<1>5. ASSUME NEW i \in 1..n PROVE st[i].arena = NoArena \/ st[i].arena # f.arena
  <2>1. st[i].arena \in {NoArena, Pooled, Own(i)}
      BY Zenon DEF ThreadOK
  <2>2. Own(i) # Own(n + 1) /\ Pooled # Own(n + 1)
      BY <1>0 DEF Own, Pooled
  <2>3. Own(i) # Pooled
      BY <1>0 DEF Own, Pooled
  <2> QED
      BY Zenon, <2>1, <2>2, <2>3
<1>6. \A i \in 1..n : st[i].box # 0
    BY Zenon, <1>4 DEF ThreadOK, FrameOK, InMachineCode
<1>7. FrameOK(f, bx, pl, g)
    BY Zenon DEF FrameOK, InMachineCode
<1>8. f.arena \in {NoArena, Pooled, Own(n + 1)}
    BY Zenon
<1> HIDE DEF ss
<1>9. ThreadOK(ss, bx, pl, g)
  <2> SUFFICES ASSUME NEW i \in 1..(n + 1)
               PROVE  /\ FrameOK(ss[i], bx, pl, g)
                      /\ i # n + 1 => ss[i].pc = "host"
                      /\ ss[i].arena \in {NoArena, Pooled, Own(i)}
                      /\ \A j \in 1..(n + 1) : j # i => Apart(ss[i], ss[j])
      BY Zenon, <1>1 DEF ThreadOK
  <2>1. CASE i = n + 1
    <3>1. ss[i] = f
        BY Zenon, <2>1, <1>1
    <3>2. ASSUME NEW j \in 1..(n + 1), j # i PROVE Apart(ss[i], ss[j])
      <4>1. j \in 1..n
          BY Zenon, <3>2, <2>1, <1>2
      <4> QED
          BY Zenon, <4>1, <3>1, <1>1, <1>5 DEF Apart
    <3> QED
        BY Zenon, <2>1, <3>1, <3>2, <1>7, <1>8
  <2>2. CASE i \in 1..n
    <3>1. FrameOK(ss[i], bx, pl, g) /\ ss[i].arena \in {NoArena, Pooled, Own(i)}
        BY Zenon, <2>2, <1>1 DEF ThreadOK
    <3>2. ASSUME NEW j \in 1..(n + 1), j # i
          PROVE  Apart(ss[i], ss[j])
      <4>1. CASE j = n + 1
          BY Zenon, <4>1, <2>2, <1>1, <1>5 DEF Apart
      <4>2. CASE j \in 1..n
        <5>1. Apart(st[i], st[j])
            BY Zenon, <4>2, <3>2, <2>2 DEF ThreadOK
        <5> QED
            BY Zenon, <5>1, <4>2, <2>2, <1>1
      <4> QED
          BY <4>1, <4>2, <1>2
    <3> QED
        BY Zenon, <3>1, <3>2, <2>2, <1>1, <1>4
  <2> QED
      BY <2>1, <2>2, <1>2
<1> QED
    BY Zenon, <1>1, <1>9 DEF ss

\* A thread at the bound has a box left for the innermost dispatch.
LEMMA ABoxIsFree ==
    ASSUME NEW st \in Seq(Frames), Len(st) > 0, Len(st) <= MaxDepth, st[Len(st)].box = 0
    PROVE  \E i \in 1..MaxDepth : i \notin {st[j].box : j \in 1..Len(st)}
<1> SUFFICES ASSUME \A i \in 1..MaxDepth : \E j \in 1..Len(st) : st[j].box = i
             PROVE  FALSE
    BY Zenon
<1> DEFINE n == Len(st)
           owner == [i \in 1..MaxDepth |-> CHOOSE j \in 1..n : st[j].box = i]
<1>0. n \in Nat /\ MaxDepth \in Nat
    BY LenProperties, ConstantsAssumption
<1>1. \A i \in 1..MaxDepth : owner[i] \in 1..n /\ st[owner[i]].box = i
    BY Zenon
<1>2. \A i \in 1..MaxDepth : owner[i] # n /\ i # 0
  <2>1. \A i \in 1..MaxDepth : i # 0
      BY <1>0
  <2> QED
      BY Zenon, <1>1, <2>1
<1>3. \A j \in 1..n : j # n => j \in 1..(n - 1)
    BY <1>0
<1>4. owner \in [1..MaxDepth -> 1..(n - 1)]
  <2>1. \A i \in 1..MaxDepth : owner[i] \in 1..(n - 1)
      BY Zenon, <1>1, <1>2, <1>3
  <2> QED
      BY Zenon, <2>1
<1> HIDE DEF owner
<1>5. /\ IsFiniteSet(1..MaxDepth) /\ Cardinality(1..MaxDepth) = MaxDepth
      /\ IsFiniteSet(1..(n - 1)) /\ Cardinality(1..(n - 1)) = n - 1
  <2>1. 1 \in Int /\ MaxDepth \in Int /\ n - 1 \in Int /\ n > 0 /\ MaxDepth > 0
      BY <1>0, ConstantsAssumption
  <2>2. IsFiniteSet(1..MaxDepth) /\ Cardinality(1..MaxDepth) = IF 1 > MaxDepth THEN 0 ELSE MaxDepth - 1 + 1
      BY <2>1, FS_Interval
  <2>3. IsFiniteSet(1..(n - 1)) /\ Cardinality(1..(n - 1)) = IF 1 > n - 1 THEN 0 ELSE n - 1 - 1 + 1
      BY Zenon, <2>1, FS_Interval
  <2> QED
      BY <2>1, <2>2, <2>3, <1>0
<1>6. Cardinality(1..(n - 1)) < Cardinality(1..MaxDepth)
    BY <1>0, <1>5
<1>7. \E x, y \in 1..MaxDepth : x # y /\ owner[x] = owner[y]
  <2> DEFINE S == 1..MaxDepth
             T == 1..(n - 1)
  <2>1. IsFiniteSet(S) /\ IsFiniteSet(T) /\ Cardinality(T) < Cardinality(S) /\ owner \in [S -> T]
      BY Zenon, <1>4, <1>5, <1>6
  <2> HIDE DEF S, T
  <2>2. \E x, y \in S : x # y /\ owner[x] = owner[y]
      BY <2>1, FS_PigeonHole
  <2> QED
      BY Zenon, <2>2 DEF S
<1> QED
    BY Zenon, <1>1, <1>7

\* The dispatch at the top of st becomes f when it takes the box k, which no
\* dispatch has, and fills it with b; ss and bb are the stack and the boxes then.
Taking(st, bx, pl, g, k, f, b, ss, bb) ==
    /\ st \in Seq(Frames) /\ bx \in [1..MaxDepth -> Boxes]
    /\ ThreadOK(st, bx, pl, g)
    /\ Len(st) > 0 /\ st[Len(st)].pc = "acquire"
    /\ k \in 1..MaxDepth /\ \A i \in 1..Len(st) : st[i].box # k
    /\ f \in Frames /\ f.arena = st[Len(st)].arena /\ f.box = k /\ f.pc = "prologue"
    /\ b \in Boxes /\ Serves(b, f, g)
    /\ ss = [st EXCEPT ![Len(st)] = f] /\ bb = [bx EXCEPT ![k] = b]

\* The pool of the thread is empty then.
LEMMA BoxTaken ==
    ASSUME NEW st, NEW bx, NEW pl, NEW g, NEW k, NEW f, NEW b, NEW ss, NEW bb,
           Taking(st, bx, pl, g, k, f, b, ss, bb)
    PROVE  /\ ss \in Seq(Frames) /\ Len(ss) = Len(st)
           /\ bb \in [1..MaxDepth -> Boxes]
           /\ ThreadOK(ss, bb, 0, g)
<1> USE DEF Taking
<1> DEFINE n  == Len(st)
<1>1. n \in 1..Len(st) /\ n \in Nat /\ k # 0
    BY LenProperties, ConstantsAssumption
<1>2. /\ ss \in Seq(Frames) /\ Len(ss) = n
      /\ \A j \in 1..n : ss[j] = IF j = n THEN f ELSE st[j]
    BY <1>1, ExceptSeq
<1>3. \A i \in 1..n : st[i] \in Frames
    BY ElementOfSeq
<1>5. bb \in [1..MaxDepth -> Boxes] /\ bb[k] = b /\ \A i \in 1..MaxDepth : i # k => bb[i] = bx[i]
    BY Zenon
<1>6. ASSUME NEW i \in 1..n, i # n PROVE FrameOK(ss[i], bb, 0, g)
  <2>1. ss[i] = st[i] /\ st[i].pc = "host" /\ FrameOK(st[i], bx, pl, g)
      BY Zenon, <1>6, <1>2 DEF ThreadOK
  <2>2. st[i].box # k /\ st[i].box # 0
      BY Zenon, <1>1, <1>6, <2>1 DEF FrameOK, InMachineCode
  <2>3. st[i].box \in 0..MaxDepth
      BY Zenon, <1>3 DEF Frames
  <2>4. st[i].box \in 1..MaxDepth
      BY <2>2, <2>3, ConstantsAssumption
  <2>5. bb[st[i].box] = bx[st[i].box]
      BY Zenon, <2>2, <2>4, <1>5
  <2> QED
      BY Zenon, <2>1, <2>2, <2>5 DEF FrameOK
<1>7. FrameOK(ss[n], bb, 0, g)
  <2>1. ss[n] = f
      BY Zenon, <1>1, <1>2
  <2> QED
      BY Zenon, <2>1, <1>1, <1>5 DEF FrameOK
<1>8. \A i \in 1..n : ss[i].arena = st[i].arena
    BY Zenon, <1>2
<1>9. ThreadOK(ss, bb, 0, g)
  <2> SUFFICES ASSUME NEW i \in 1..n
               PROVE  /\ FrameOK(ss[i], bb, 0, g)
                      /\ i # n => ss[i].pc = "host"
                      /\ ss[i].arena \in {NoArena, Pooled, Own(i)}
                      /\ \A j \in 1..n : j # i => Apart(ss[i], ss[j])
      BY Zenon, <1>2 DEF ThreadOK
  <2>1. FrameOK(ss[i], bb, 0, g)
      BY Zenon, <1>6, <1>7
  <2>2. i # n => ss[i].pc = "host"
      BY Zenon, <1>2 DEF ThreadOK
  <2>3. ss[i].arena \in {NoArena, Pooled, Own(i)}
      BY Zenon, <1>8 DEF ThreadOK
  <2>4. ASSUME NEW j \in 1..n, j # i
        PROVE  Apart(ss[i], ss[j])
    <3>1. Apart(st[i], st[j])
        BY Zenon, <2>4 DEF ThreadOK
    <3>2. CASE i = n
        BY Zenon, <3>1, <3>2, <2>4, <1>2 DEF Apart
    <3>3. CASE j = n
        BY Zenon, <3>1, <3>3, <2>4, <1>2 DEF Apart
    <3>4. CASE i # n /\ j # n
        BY Zenon, <3>1, <3>4, <1>2
    <3> QED
        BY <3>2, <3>3, <3>4
  <2> QED
      BY Zenon, <2>1, <2>2, <2>3, <2>4
<1> QED
    BY Zenon, <1>2, <1>5, <1>9

\* Front drops the last element.
LEMMA FrontFacts ==
    ASSUME NEW S, NEW s \in Seq(S), Len(s) > 0
    PROVE  /\ Front(s) \in Seq(S) /\ Len(Front(s)) = Len(s) - 1
           /\ \A i \in 1..(Len(s) - 1) : Front(s)[i] = s[i]
<1> DEFINE m == Len(s) - 1
<1>1. m \in Nat /\ m \in Int /\ 1 \in Int
    BY LenProperties
<1>2. \A i \in 1..m : s[i] \in S
    BY ElementOfSeq, LenProperties
<1>3. Front(s) = SubSeq(s, 1, m)
    BY Zenon DEF Front
<1> HIDE DEF m
<1>4. /\ SubSeq(s, 1, m) \in Seq(S)
      /\ Len(SubSeq(s, 1, m)) = IF 1 <= m THEN m - 1 + 1 ELSE 0
      /\ \A i \in 1..(m - 1 + 1) : SubSeq(s, 1, m)[i] = s[1 + i - 1]
    BY <1>1, <1>2, SubSeqProperties
<1>5. m - 1 + 1 = m /\ (IF 1 <= m THEN m - 1 + 1 ELSE 0) = m /\ \A i \in 1..m : 1 + i - 1 = i
    BY <1>1
<1>6. Len(Front(s)) = m /\ \A i \in 1..m : Front(s)[i] = s[i]
    BY Zenon, <1>3, <1>4, <1>5
<1> QED
    BY Zenon, <1>3, <1>4, <1>6 DEF m

\* The innermost dispatch leaves: its box may be changed, and parked if no
\* other is.
LEMMA Popped ==
    ASSUME NEW st \in Seq(Frames), NEW bx \in [1..MaxDepth -> Boxes], NEW pl, NEW g,
           ThreadOK(st, bx, pl, g), Len(st) > 0, InMachineCode(st[Len(st)]),
           NEW k \in 1..MaxDepth, k = st[Len(st)].box, NEW b \in Boxes, NEW q, q = pl \/ q = k
    PROVE  /\ Front(st) \in Seq(Frames) /\ Len(Front(st)) = Len(st) - 1
           /\ [bx EXCEPT ![k] = b] \in [1..MaxDepth -> Boxes]
           /\ ThreadOK(Front(st), [bx EXCEPT ![k] = b], q, g)
<1> DEFINE n  == Len(st)
           ss == Front(st)
           bb == [bx EXCEPT ![k] = b]
<1>1. n \in 1..Len(st) /\ n \in Nat
    BY LenProperties
<1>2. \A i \in 1..n : st[i] \in Frames
    BY ElementOfSeq
<1>3. \A i \in 1..(n - 1) : i \in 1..n /\ i # n
    BY <1>1
<1>4. ss \in Seq(Frames) /\ Len(ss) = n - 1 /\ \A i \in 1..(n - 1) : ss[i] = st[i]
    BY FrontFacts
<1>6. bb \in [1..MaxDepth -> Boxes] /\ \A i \in 1..MaxDepth : i # k => bb[i] = bx[i]
    BY Zenon
<1>7. ASSUME NEW i \in 1..(n - 1) PROVE FrameOK(ss[i], bb, q, g) /\ ss[i].pc = "host"
  <2>1. ss[i] = st[i] /\ st[i].pc = "host" /\ FrameOK(st[i], bx, pl, g)
      BY Zenon, <1>3, <1>4 DEF ThreadOK
  <2>2. st[i].box # k /\ st[i].box # 0 /\ st[i].box # pl
      BY Zenon, <1>1, <1>3, <2>1 DEF ThreadOK, FrameOK, InMachineCode, Apart
  <2>3. st[i].box \in 0..MaxDepth
      BY Zenon, <1>2, <1>3 DEF Frames
  <2>4. st[i].box \in 1..MaxDepth
      BY <2>2, <2>3, ConstantsAssumption
  <2>5. bb[st[i].box] = bx[st[i].box]
      BY Zenon, <2>2, <2>4, <1>6
  <2>6. st[i].box # q
      BY Zenon, <2>2
  <2> QED
      BY Zenon, <2>1, <2>2, <2>5, <2>6 DEF FrameOK
<1> HIDE DEF ss, bb
<1>8. ThreadOK(ss, bb, q, g)
  <2> SUFFICES ASSUME NEW i \in 1..(n - 1)
               PROVE  /\ FrameOK(ss[i], bb, q, g)
                      /\ ss[i].pc = "host"
                      /\ ss[i].arena \in {NoArena, Pooled, Own(i)}
                      /\ \A j \in 1..(n - 1) : j # i => Apart(ss[i], ss[j])
      BY Zenon, <1>4 DEF ThreadOK
  <2>1. ss[i] = st[i] /\ i \in 1..n /\ st[i].arena \in {NoArena, Pooled, Own(i)}
      BY Zenon, <1>3, <1>4 DEF ThreadOK
  <2>2. ASSUME NEW j \in 1..(n - 1), j # i PROVE Apart(ss[i], ss[j])
    <3>1. Apart(st[i], st[j])
        BY Zenon, <2>1, <2>2, <1>3 DEF ThreadOK
    <3> QED
        BY Zenon, <2>1, <3>1, <1>4
  <2> QED
      BY Zenon, <1>7, <2>1, <2>2
<1> QED
    BY Zenon, <1>4, <1>6, <1>8 DEF ss, bb

-----------------------------------------------------------------------------
(* Steps. *)

\* One thread changes its stack, its boxes and its pool.
LEMMA OneThread ==
    ASSUME Inv, NEW t \in Threads,
           NEW st \in Seq(Frames), Len(st) <= MaxDepth,
           NEW bx \in [1..MaxDepth -> Boxes], NEW pl \in 0..MaxDepth,
           ThreadOK(st, bx, pl, granted),
           stack' = [stack EXCEPT ![t] = st],
           boxes' = [boxes EXCEPT ![t] = bx],
           pool' = [pool EXCEPT ![t] = pl],
           UNCHANGED <<deadline_ns, granted, clock>>, calls' \in 0..MaxCalls
    PROVE  Inv'
<1>1. stack' \in [Threads -> Seq(Frames)] /\ boxes' \in [Threads -> [1..MaxDepth -> Boxes]]
      /\ pool' \in [Threads -> 0..MaxDepth]
    BY Zenon DEF Inv, Types
<1>2. \A u \in Threads : /\ stack'[u] = IF u = t THEN st ELSE stack[u]
                         /\ boxes'[u] = IF u = t THEN bx ELSE boxes[u]
                         /\ pool'[u] = IF u = t THEN pl ELSE pool[u]
    BY Zenon DEF Inv, Types
<1>3. \A u \in Threads : Len(stack'[u]) <= MaxDepth
    BY Zenon, <1>2 DEF Inv, Types
<1>4. \A u \in Threads : ThreadOK(stack'[u], boxes'[u], pool'[u], granted')
    BY Zenon, <1>2 DEF Inv
<1> QED
    BY Zenon, <1>1, <1>3, <1>4 DEF Inv, Types

\* What holds of a dispatch whose machine code runs.
LEMMA TopFacts ==
    ASSUME Inv, NEW t \in Threads, Depth(t) > 0
    PROVE  /\ stack[t] \in Seq(Frames) /\ Len(stack[t]) <= MaxDepth
           /\ Depth(t) = Len(stack[t])
           /\ Top(t) = stack[t][Len(stack[t])] /\ Top(t) \in Frames
           /\ boxes[t] \in [1..MaxDepth -> Boxes] /\ pool[t] \in 0..MaxDepth
           /\ ThreadOK(stack[t], boxes[t], pool[t], granted)
           /\ FrameOK(Top(t), boxes[t], pool[t], granted)
           /\ InMachineCode(Top(t)) =>
                 /\ Top(t).box \in 1..MaxDepth
                 /\ TopBox(t) \in Boxes /\ Serves(TopBox(t), Top(t), granted)
<1>1. stack[t] \in Seq(Frames) /\ Len(stack[t]) <= MaxDepth /\ Depth(t) = Len(stack[t])
      /\ boxes[t] \in [1..MaxDepth -> Boxes] /\ pool[t] \in 0..MaxDepth
      /\ ThreadOK(stack[t], boxes[t], pool[t], granted)
    BY Zenon DEF Inv, Types, Depth
<1>2. Len(stack[t]) \in 1..Len(stack[t])
    BY <1>1, LenProperties DEF Depth
<1>3. Top(t) = stack[t][Len(stack[t])] /\ Top(t) \in Frames
  <2>1. Top(t) = stack[t][Len(stack[t])]
      BY Zenon DEF Top, Depth
  <2>2. stack[t][Len(stack[t])] \in Frames
      BY <1>1, <1>2, ElementOfSeq
  <2> QED
      BY Zenon, <2>1, <2>2
<1>4. FrameOK(Top(t), boxes[t], pool[t], granted)
    BY Zenon, <1>1, <1>2, <1>3 DEF ThreadOK
<1>5. ASSUME InMachineCode(Top(t))
      PROVE  /\ Top(t).box \in 1..MaxDepth
             /\ TopBox(t) \in Boxes /\ Serves(TopBox(t), Top(t), granted)
  <2>1. Top(t).box # 0 /\ Serves(TopBox(t), Top(t), granted)
      BY Zenon, <1>4, <1>5 DEF FrameOK, TopBox
  <2>2. Top(t).box \in 0..MaxDepth
      BY Zenon, <1>3 DEF Frames
  <2>3. Top(t).box \in 1..MaxDepth
      BY <2>1, <2>2, ConstantsAssumption
  <2> QED
      BY Zenon, <1>1, <2>1, <2>3 DEF TopBox
<1> QED
    BY Zenon, <1>1, <1>3, <1>4, <1>5

\* Machine code of the innermost dispatch runs on, with its box and arena.
LEMMA CodeRuns ==
    ASSUME Inv, NEW t \in Threads, Depth(t) > 0, InMachineCode(Top(t)),
           NEW f \in Frames, f.arena = Top(t).arena, f.box = Top(t).box, InMachineCode(f),
           f.pc = "host" => granted[f.e],
           NEW b \in Boxes, Serves(b, f, granted),
           SetTop(t, f), SetTopBox(t, b),
           UNCHANGED <<deadline_ns, granted, pool, clock>>, calls' \in 0..MaxCalls
    PROVE  Inv'
<1> DEFINE k == Top(t).box
           st == [stack[t] EXCEPT ![Len(stack[t])] = f]
           bx == [boxes[t] EXCEPT ![k] = b]
<1>1. stack' = [stack EXCEPT ![t] = st] /\ boxes' = [boxes EXCEPT ![t] = bx]
    BY Zenon DEF SetTop, SetTopBox, Depth
<1>2. st \in Seq(Frames) /\ Len(st) = Len(stack[t]) /\ bx \in [1..MaxDepth -> Boxes]
      /\ ThreadOK(st, bx, pool[t], granted)
  <2>1. /\ stack[t] \in Seq(Frames) /\ boxes[t] \in [1..MaxDepth -> Boxes]
        /\ pool[t] \in 0..MaxDepth /\ ThreadOK(stack[t], boxes[t], pool[t], granted)
        /\ Len(stack[t]) > 0
      BY Zenon, TopFacts
  <2>2. /\ InMachineCode(stack[t][Len(stack[t])])
        /\ k = stack[t][Len(stack[t])].box /\ k \in 1..MaxDepth
        /\ f.arena = stack[t][Len(stack[t])].arena /\ f.box = k
      BY Zenon, TopFacts DEF Depth
  <2> HIDE DEF k
  <2>3. Running(stack[t], boxes[t], pool[t], granted, k, f, b)
      BY Zenon, <2>1, <2>2 DEF Running
  <2> QED
      BY ZenonT(40), <2>3, TopChanges
<1>3. pool' = [pool EXCEPT ![t] = pool[t]]
    BY Zenon DEF Inv, Types
<1>4. Len(st) <= MaxDepth /\ pool[t] \in 0..MaxDepth
    BY Zenon, <1>2 DEF Inv, Types
<1> HIDE DEF st, bx, k
<1> QED
    BY Zenon, <1>1, <1>2, <1>3, <1>4, OneThread

\* The same when its box stays as it is.
LEMMA CodeMoves ==
    ASSUME Inv, NEW t \in Threads, Depth(t) > 0, InMachineCode(Top(t)),
           NEW f \in Frames, f.e = Top(t).e, f.arena = Top(t).arena, f.box = Top(t).box,
           f.deadline = Top(t).deadline, f.trapped = Top(t).trapped, InMachineCode(f),
           f.pc = "host" => granted[f.e],
           SetTop(t, f),
           UNCHANGED <<deadline_ns, granted, pool, boxes, clock>>, calls' \in 0..MaxCalls
    PROVE  Inv'
<1>1. Serves(TopBox(t), f, granted) /\ TopBox(t) \in Boxes
    BY Zenon, TopFacts DEF Serves
<1>2. SetTopBox(t, TopBox(t))
    BY Zenon, TopFacts DEF SetTopBox, TopBox, Inv, Types
<1> QED
    BY Zenon, <1>1, <1>2, CodeRuns

\* What leaving a function changes.
LEMMA LeaveFacts ==
    ASSUME NEW f \in Frames
    PROVE  /\ Leave(f) \in Frames /\ InMachineCode(Leave(f)) /\ Leave(f).pc # "host"
           /\ Leave(f).e = f.e /\ Leave(f).arena = f.arena /\ Leave(f).box = f.box
           /\ Leave(f).deadline = f.deadline /\ Leave(f).trapped = f.trapped
<1>1. f.lambda > 0 => f.lambda - 1 \in 0..MaxLambda
    BY ConstantsAssumption DEF Frames
<1>2. CASE f.lambda > 0
  <2> DEFINE d == f.lambda - 1
  <2>1. Leave(f) = [f EXCEPT !.lambda = d, !.pc = "body"]
      BY Zenon, <1>2 DEF Leave
  <2>2. d \in 0..MaxLambda
      BY Zenon, <1>1, <1>2
  <2> HIDE DEF d
  <2> QED
      BY Zenon, <2>1, <2>2 DEF Frames, Pcs, InMachineCode
<1>3. CASE ~(f.lambda > 0)
    BY Zenon, <1>3 DEF Leave, Frames, Pcs, InMachineCode
<1> QED
    BY <1>2, <1>3

LEMMA Raised ==
    ASSUME Inv, NEW t \in Threads, Depth(t) > 0, InMachineCode(Top(t)),
           NEW kind \in Traps, Raise(t, kind),
           UNCHANGED <<deadline_ns, granted, pool, clock>>, calls' \in 0..MaxCalls
    PROVE  Inv'
<1> DEFINE k == FirstTrap(Top(t), kind)
           h == [Top(t) EXCEPT !.trapped = k]
           b == [TopBox(t) EXCEPT !.trap = kind]
<1>1. Top(t) \in Frames /\ TopBox(t) \in Boxes /\ Serves(TopBox(t), Top(t), granted)
    BY Zenon, TopFacts
<1>2. kind # NoTrap /\ kind \in Traps \cup {NoTrap}
    BY Zenon DEF Traps, NoTrap
<1>3. k # NoTrap /\ k \in Traps \cup {NoTrap}
    BY Zenon, <1>1, <1>2 DEF FirstTrap, Frames
<1> HIDE DEF k
<1>4. h \in Frames /\ h.e = Top(t).e /\ h.arena = Top(t).arena /\ h.box = Top(t).box
      /\ h.deadline = Top(t).deadline /\ h.trapped = k
    BY Zenon, <1>1, <1>3 DEF Frames
<1>5. b \in Boxes /\ Serves(b, h, granted)
    BY Zenon, <1>1, <1>2, <1>3, <1>4 DEF Boxes, Serves
<1> HIDE DEF h, b
<1>6. Leave(h) \in Frames /\ InMachineCode(Leave(h)) /\ Leave(h).pc # "host"
      /\ Leave(h).arena = Top(t).arena /\ Leave(h).box = Top(t).box
    BY Zenon, <1>4, LeaveFacts
<1>7. Serves(b, Leave(h), granted)
  <2>1. Leave(h).e = h.e /\ Leave(h).arena = h.arena
        /\ Leave(h).deadline = h.deadline /\ Leave(h).trapped = h.trapped
      BY Zenon, <1>4, LeaveFacts
  <2> QED
      BY Zenon, <2>1, <1>5 DEF Serves
<1>8. SetTop(t, Leave(h)) /\ SetTopBox(t, b)
    BY Zenon DEF Raise, h, b, k
<1> QED
    BY Zenon, <1>5, <1>6, <1>7, <1>8, CodeRuns

LEMMA InitInv == Init => Inv
<1> SUFFICES ASSUME Init PROVE Inv
    OBVIOUS
<1>1. Blank \in Boxes
  <2>1. 0 \in Nat /\ 0 \in 0..(MaxDepth + 1)
      BY ConstantsAssumption
  <2> QED
      BY Zenon, <2>1 DEF Blank, Boxes, NoTrap, NoArena
<1>2. 0 \in 0..MaxDepth /\ 0 \in 0..MaxCalls /\ clock \in 0..MaxClock
    BY ConstantsAssumption DEF Init
<1>3. \A t \in Threads : stack[t] = <<>>
    BY Zenon DEF Init
<1>4. <<>> \in Seq(Frames) /\ Len(<<>>) = 0
    BY EmptySeq
<1>5. 0 <= MaxDepth /\ 1..0 = {}
    BY ConstantsAssumption
<1>6. Types
    BY Zenon, <1>1, <1>2, <1>3, <1>4, <1>5 DEF Init, Types
<1>7. \A t \in Threads : ThreadOK(stack[t], boxes[t], pool[t], granted)
    BY Zenon, <1>3, <1>4, <1>5 DEF ThreadOK
<1> QED
    BY <1>6, <1>7 DEF Inv

LEMMA RunMainInv ==
    ASSUME Inv, NEW t \in Threads, NEW e \in Evaluators, RunMain(t, e)
    PROVE  Inv'
<1> DEFINE a == Arena(t, e)
           f == [e |-> e, arena |-> a, box |-> 0, pc |-> "acquire", lambda |-> 0,
                 started |-> clock, deadline |-> Never, trapped |-> NoTrap]
           st == Append(stack[t], f)
<1>1. /\ stack[t] \in Seq(Frames) /\ Len(stack[t]) \in Nat /\ Len(stack[t]) < MaxDepth
      /\ boxes[t] \in [1..MaxDepth -> Boxes] /\ pool[t] \in 0..MaxDepth
      /\ ThreadOK(stack[t], boxes[t], pool[t], granted)
  <2>1. stack[t] \in Seq(Frames)
      BY Zenon DEF Inv, Types
  <2>2. Len(stack[t]) \in Nat
      BY <2>1, LenProperties
  <2> QED
      BY Zenon, <2>1, <2>2 DEF RunMain, Inv, Types, Depth
<1>2. /\ \/ a = NoArena
         \/ a = Own(Len(stack[t]) + 1)
         \/ a = Pooled /\ \A i \in 1..Len(stack[t]) : stack[t][i].arena # Pooled
      /\ a \in 0..(MaxDepth + 1)
  <2>1. \/ a = NoArena
        \/ a = Own(Len(stack[t]) + 1)
        \/ a = Pooled /\ \A i \in 1..Len(stack[t]) : stack[t][i].arena # Pooled
      BY Zenon DEF Arena, Depth
  <2>2. NoArena \in 0..(MaxDepth + 1) /\ Pooled \in 0..(MaxDepth + 1)
        /\ Own(Len(stack[t]) + 1) \in 0..(MaxDepth + 1)
      BY <1>1, ConstantsAssumption DEF NoArena, Pooled, Own
  <2> QED
      BY Zenon, <2>1, <2>2
<1> HIDE DEF a
<1>3. f \in Frames /\ f.pc = "acquire" /\ f.box = 0 /\ f.trapped = NoTrap /\ f.arena = a
  <2>1. 0 \in 0..MaxDepth /\ 0 \in 0..MaxLambda /\ clock \in Nat
      BY ConstantsAssumption DEF Inv, Types
  <2> QED
      BY Zenon, <2>1, <1>2 DEF Frames, Pcs
<1>4. stack' = [stack EXCEPT ![t] = st]
    BY Zenon DEF RunMain, a
<1>5. Len(stack[t]) > 0 => stack[t][Len(stack[t])].pc = "host"
  <2>1. Len(stack[t]) > 0 => Len(stack[t]) # 0
      BY <1>1
  <2> QED
      BY Zenon, <2>1 DEF RunMain, At, Top, Depth
<1> HIDE DEF f
<1>6. st \in Seq(Frames) /\ Len(st) = Len(stack[t]) + 1
      /\ ThreadOK(st, boxes[t], pool[t], granted)
    BY Zenon, <1>1, <1>2, <1>3, <1>5, Pushed
<1>7. Len(st) <= MaxDepth
  <2>1. \A n \in Nat : n < MaxDepth => n + 1 <= MaxDepth
      BY ConstantsAssumption
  <2> QED
      BY Zenon, <2>1, <1>1, <1>6
<1>8. calls' \in 0..MaxCalls
    BY ConstantsAssumption DEF RunMain, Inv, Types
<1>9. boxes' = [boxes EXCEPT ![t] = boxes[t]] /\ pool' = [pool EXCEPT ![t] = pool[t]]
      /\ UNCHANGED <<deadline_ns, granted, clock>>
    BY Zenon DEF RunMain, Inv, Types
<1> HIDE DEF st
<1> QED
    BY Zenon, <1>1, <1>4, <1>6, <1>7, <1>8, <1>9, OneThread

LEMMA AcquireInv ==
    ASSUME Inv, NEW t \in Threads, Acquire(t)
    PROVE  Inv'
<1> DEFINE h  == stack[t][Len(stack[t])]
           k  == IF pool[t] # 0 THEN pool[t]
                 ELSE CHOOSE i \in 1..MaxDepth : i \notin BoxesInUse(t)
           b0 == IF pool[t] # 0 THEN Refresh(boxes[t][k], h.e) ELSE Fresh(h.e)
           b  == InstallArena(b0, h.arena)
           d  == deadline_ns[h.e]
           f  == [h EXCEPT !.box = k, !.pc = "prologue", !.deadline = d]
<1>1. /\ stack[t] \in Seq(Frames) /\ Len(stack[t]) <= MaxDepth /\ Len(stack[t]) > 0
      /\ h \in Frames /\ h.pc = "acquire" /\ h.box = 0 /\ h.trapped = NoTrap
      /\ boxes[t] \in [1..MaxDepth -> Boxes] /\ pool[t] \in 0..MaxDepth
      /\ ThreadOK(stack[t], boxes[t], pool[t], granted)
  <2>1. Depth(t) > 0 /\ Top(t) = h /\ h.pc = "acquire"
      BY Zenon DEF Acquire, At, Top, Depth
  <2> QED
      BY Zenon, <2>1, TopFacts DEF FrameOK, Depth
<1>2. /\ stack' = [stack EXCEPT ![t] = [stack[t] EXCEPT ![Len(stack[t])] = f]]
      /\ boxes' = [boxes EXCEPT ![t] = [boxes[t] EXCEPT ![k] = b]]
      /\ pool' = [pool EXCEPT ![t] = 0]
      /\ UNCHANGED <<deadline_ns, granted, clock, calls>>
    BY Zenon DEF Acquire, SetTop, Top, Depth
<1>3. k \in 1..MaxDepth /\ \A i \in 1..Len(stack[t]) : stack[t][i].box # k
  <2>1. CASE pool[t] # 0
    <3>1. k \in 1..MaxDepth /\ k = pool[t]
        BY <2>1, <1>1, ConstantsAssumption
    <3>2. ASSUME NEW i \in 1..Len(stack[t]) PROVE stack[t][i].box # pool[t]
      <4>1. FrameOK(stack[t][i], boxes[t], pool[t], granted)
          BY Zenon, <1>1 DEF ThreadOK
      <4>2. stack[t][i] \in Frames
          BY <1>1, ElementOfSeq
      <4>3. stack[t][i].pc = "acquire" \/ InMachineCode(stack[t][i])
          BY Zenon, <4>2 DEF Frames, Pcs, InMachineCode
      <4> QED
          BY Zenon, <4>1, <4>3, <2>1 DEF FrameOK
    <3> QED
        BY Zenon, <3>1, <3>2
  <2>2. CASE pool[t] = 0
    <3>1. \E i \in 1..MaxDepth : i \notin {stack[t][j].box : j \in 1..Len(stack[t])}
        BY Zenon, <1>1, ABoxIsFree
    <3>2. \E i \in 1..MaxDepth : i \notin BoxesInUse(t)
        BY Zenon, <3>1 DEF BoxesInUse, Depth
    <3>3. k = CHOOSE i \in 1..MaxDepth : i \notin BoxesInUse(t)
        BY Zenon, <2>2
    <3>4. k \in 1..MaxDepth /\ k \notin BoxesInUse(t)
        BY Zenon, <3>2, <3>3
    <3> QED
        BY Zenon, <3>4 DEF BoxesInUse, Depth
  <2> QED
      BY <2>1, <2>2
<1> HIDE DEF k
<1>4. h.e \in Evaluators /\ h.arena \in 0..(MaxDepth + 1) /\ d \in Deadlines \cup {Never}
      /\ Epoch[h.e] \in Nat /\ granted[h.e] \in BOOLEAN
  <2>1. h.e \in Evaluators /\ h.arena \in 0..(MaxDepth + 1)
      BY Zenon, <1>1 DEF Frames
  <2> QED
      BY Zenon, <2>1, ConstantsAssumption DEF Inv, Types
<1>5. /\ b0 \in Boxes /\ b0.deadline = d /\ b0.epoch = Epoch[h.e] /\ b0.granted = granted[h.e]
      /\ b0.closures = h.e /\ b0.trap = NoTrap
  <2>1. CASE pool[t] # 0
    <3>1. b0 = Refresh(boxes[t][k], h.e) /\ boxes[t][k] \in Boxes
        BY Zenon, <2>1, <1>1, <1>3
    <3> QED
        BY Zenon, <3>1, <1>4 DEF Refresh, Boxes
  <2>2. CASE pool[t] = 0
    <3>1. b0 = Fresh(h.e)
        BY Zenon, <2>2
    <3>2. NoArena \in 0..(MaxDepth + 1)
        BY ConstantsAssumption DEF NoArena
    <3> DEFINE c == Fresh(h.e)
    <3>3. /\ c \in Boxes /\ c.deadline = d /\ c.epoch = Epoch[h.e] /\ c.granted = granted[h.e]
          /\ c.closures = h.e /\ c.trap = NoTrap
        BY SMTT(30), <3>2, <1>4 DEF Fresh, Boxes
    <3> HIDE DEF c
    <3>4. b0 = c
        BY Zenon, <3>1 DEF c
    <3> QED
        BY Zenon, <3>3, <3>4
  <2> QED
      BY Zenon, <2>1, <2>2
<1> HIDE DEF b0
<1>6. /\ b \in Boxes /\ b.deadline = d /\ b.epoch = Epoch[h.e] /\ b.granted = granted[h.e]
      /\ b.closures = h.e /\ b.trap = NoTrap /\ (h.arena # NoArena => b.arena = h.arena)
    BY Zenon, <1>4, <1>5 DEF InstallArena, Boxes
<1>7. k \in 0..MaxDepth
    BY <1>3, ConstantsAssumption
<1> HIDE DEF b, d
<1>8. f \in Frames /\ f.e = h.e /\ f.arena = h.arena /\ f.box = k /\ f.pc = "prologue"
      /\ f.deadline = d /\ f.trapped = NoTrap
    BY Zenon, <1>1, <1>4, <1>7 DEF Frames, Pcs
<1> HIDE DEF f
<1>9. Serves(b, f, granted)
    BY Zenon, <1>6, <1>8 DEF Serves
<1> DEFINE st == [stack[t] EXCEPT ![Len(stack[t])] = f]
           bx == [boxes[t] EXCEPT ![k] = b]
<1>10. st \in Seq(Frames) /\ Len(st) = Len(stack[t]) /\ bx \in [1..MaxDepth -> Boxes]
       /\ ThreadOK(st, bx, 0, granted)
  <2>1. Taking(stack[t], boxes[t], pool[t], granted, k, f, b, st, bx)
      BY Zenon, <1>1, <1>3, <1>6, <1>8, <1>9 DEF Taking
  <2> HIDE DEF st, bx
  <2> QED
      BY Zenon, <2>1, BoxTaken
<1>11. 0 \in 0..MaxDepth /\ calls' \in 0..MaxCalls
    BY <1>2, ConstantsAssumption DEF Inv, Types
<1>12. Len(st) <= MaxDepth
    BY Zenon, <1>1, <1>10
<1> HIDE DEF st, bx
<1>13. stack' = [stack EXCEPT ![t] = st] /\ boxes' = [boxes EXCEPT ![t] = bx]
    BY Zenon, <1>2 DEF st, bx
<1> QED
    BY Zenon, <1>2, <1>10, <1>11, <1>12, <1>13, OneThread

LEMMA ReturnInv ==
    ASSUME Inv, NEW t \in Threads, Return(t)
    PROVE  Inv'
<1> DEFINE h == stack[t][Len(stack[t])]
           k == h.box
           b == IF pool[t] = 0 THEN [boxes[t][k] EXCEPT !.trap = NoTrap] ELSE Blank
           q == IF pool[t] = 0 THEN k ELSE pool[t]
           bx == [boxes[t] EXCEPT ![k] = b]
           st == Front(stack[t])
<1>1. /\ stack[t] \in Seq(Frames) /\ Len(stack[t]) <= MaxDepth /\ Len(stack[t]) > 0
      /\ InMachineCode(h) /\ k = h.box /\ k \in 1..MaxDepth /\ boxes[t][k] \in Boxes
      /\ boxes[t] \in [1..MaxDepth -> Boxes] /\ pool[t] \in 0..MaxDepth
      /\ ThreadOK(stack[t], boxes[t], pool[t], granted)
  <2>1. Depth(t) > 0 /\ Top(t) = h /\ h.pc = "post"
      BY Zenon DEF Return, At, Top, Depth
  <2>2. InMachineCode(Top(t))
      BY Zenon, <2>1 DEF InMachineCode
  <2> QED
      BY Zenon, <2>1, <2>2, TopFacts DEF Depth
<1>2. /\ stack' = [stack EXCEPT ![t] = st]
      /\ UNCHANGED <<deadline_ns, granted, clock, calls>>
    BY Zenon DEF Return
<1>3. /\ \/ pool[t] = 0 /\ pool' = [pool EXCEPT ![t] = k]
            /\ boxes' = [boxes EXCEPT ![t][k].trap = NoTrap]
         \/ pool[t] # 0 /\ boxes' = [boxes EXCEPT ![t][k] = Blank] /\ pool' = pool
    BY Zenon DEF Return, Top, Depth
<1>4. /\ pool[t] = 0 => b = [boxes[t][k] EXCEPT !.trap = NoTrap] /\ q = k
      /\ pool[t] # 0 => b = Blank /\ q = pool[t]
    BY Zenon
<1> HIDE DEF k, b, q
<1>5. b \in Boxes
  <2>1. Blank \in Boxes
    <3>1. 0 \in Nat /\ 0 \in 0..(MaxDepth + 1)
        BY ConstantsAssumption
    <3> QED
        BY Zenon, <3>1 DEF Blank, Boxes, NoTrap, NoArena
  <2>2. [boxes[t][k] EXCEPT !.trap = NoTrap] \in Boxes
      BY Zenon, <1>1 DEF Boxes
  <2> QED
      BY Zenon, <2>1, <2>2, <1>4
<1>6. q \in 0..MaxDepth /\ (q = pool[t] \/ q = k)
  <2>1. k \in 0..MaxDepth
      BY <1>1, ConstantsAssumption
  <2> QED
      BY Zenon, <1>1, <2>1, <1>4
<1>7. boxes' = [boxes EXCEPT ![t] = bx] /\ pool' = [pool EXCEPT ![t] = q]
  <2>1. CASE pool[t] = 0
      BY Zenon, <2>1, <1>3, <1>4
  <2>2. CASE pool[t] # 0
    <3>1. boxes' = [boxes EXCEPT ![t] = [boxes[t] EXCEPT ![k] = Blank]]
        BY Zenon, <2>2, <1>3
    <3>2. pool' = [pool EXCEPT ![t] = pool[t]]
        BY Zenon, <2>2, <1>3 DEF Inv, Types
    <3> QED
        BY Zenon, <3>1, <3>2, <2>2, <1>4
  <2> QED
      BY Zenon, <2>1, <2>2
<1>8. st \in Seq(Frames) /\ Len(st) = Len(stack[t]) - 1 /\ bx \in [1..MaxDepth -> Boxes]
      /\ ThreadOK(st, bx, q, granted)
    BY Zenon, <1>1, <1>5, <1>6, Popped
<1>9. Len(st) <= MaxDepth
  <2>1. Len(stack[t]) \in Nat
      BY <1>1, LenProperties
  <2>2. \A n \in Nat : n <= MaxDepth => n - 1 <= MaxDepth
      BY ConstantsAssumption
  <2> QED
      BY Zenon, <2>1, <2>2, <1>1, <1>8
<1>10. calls' \in 0..MaxCalls
    BY Zenon, <1>2 DEF Inv, Types
<1> HIDE DEF st, bx
<1> QED
    BY Zenon, <1>2, <1>6, <1>7, <1>8, <1>9, <1>10, OneThread

\* InstallCapabilities changes the grants of an evaluator no dispatch uses.
LEMMA InstallInv ==
    ASSUME Inv, NEW e \in Evaluators, InstallCapabilities(e)
    PROVE  Inv'
<1>1. granted' \in [Evaluators -> BOOLEAN] /\ \A x \in Evaluators : x # e => granted'[x] = granted[x]
    BY DEF InstallCapabilities, Inv, Types
<1>2. UNCHANGED <<deadline_ns, pool, boxes, stack, clock, calls>>
    BY Zenon DEF InstallCapabilities
<1>3. ASSUME NEW t \in Threads PROVE ThreadOK(stack[t], boxes[t], pool[t], granted')
  <2>1. ASSUME NEW i \in 1..Len(stack[t]) PROVE FrameOK(stack[t][i], boxes[t], pool[t], granted')
    <3>1. FrameOK(stack[t][i], boxes[t], pool[t], granted)
        BY Zenon DEF Inv, ThreadOK
    <3>2. stack[t] \in Seq(Frames)
        BY Zenon DEF Inv, Types
    <3>3. stack[t][i] \in Frames
        BY <3>2, ElementOfSeq
    <3>4. stack[t][i].e \in Evaluators /\ stack[t][i].e # e
        BY Zenon, <3>3 DEF Frames, InstallCapabilities, Depth
    <3>5. granted'[stack[t][i].e] = granted[stack[t][i].e]
        BY Zenon, <1>1, <3>4
    <3> QED
        BY Zenon, <3>1, <3>5 DEF FrameOK, Serves
  <2> QED
      BY Zenon, <2>1 DEF Inv, ThreadOK
<1> QED
    BY Zenon, <1>1, <1>2, <1>3 DEF Inv, Types

LEMMA StepInv == Inv /\ [Next]_vars => Inv'
<1> SUFFICES ASSUME Inv, [Next]_vars PROVE Inv'
    OBVIOUS
<1>1. CASE Tick
  <2>1. clock' \in 0..MaxClock
      BY <1>1, ConstantsAssumption DEF Tick, Inv, Types
  <2> QED
      BY Zenon, <1>1, <2>1 DEF Tick, Inv, Types
<1>2. ASSUME NEW e \in Evaluators, SetDeadline(e) PROVE Inv'
  <2>1. deadline_ns' \in [Evaluators -> Deadlines \cup {Never}]
      BY Zenon, <1>2 DEF SetDeadline, Inv, Types
  <2> QED
      BY Zenon, <1>2, <2>1 DEF SetDeadline, Inv, Types
<1>3. ASSUME NEW e \in Evaluators, InstallCapabilities(e) PROVE Inv'
    BY Zenon, <1>3, InstallInv
<1>4. ASSUME NEW t \in Threads, NEW e \in Evaluators, RunMain(t, e) PROVE Inv'
    BY Zenon, <1>4, RunMainInv
<1>5. ASSUME NEW t \in Threads, Acquire(t) PROVE Inv'
    BY Zenon, <1>5, AcquireInv
<1>6. ASSUME NEW t \in Threads, Return(t) PROVE Inv'
    BY Zenon, <1>6, ReturnInv
<1> DEFINE Runs(t, label) == Depth(t) > 0 /\ Top(t).pc = label
<1>7. ASSUME NEW t \in Threads, NEW label \in {"prologue", "body", "host"}, Runs(t, label)
      PROVE  /\ Depth(t) > 0 /\ InMachineCode(Top(t)) /\ Top(t) \in Frames
             /\ TopBox(t) \in Boxes /\ Serves(TopBox(t), Top(t), granted)
  <2>1. InMachineCode(Top(t))
      BY Zenon, <1>7 DEF InMachineCode
  <2> QED
      BY Zenon, <1>7, <2>1, TopFacts
<1>8. calls \in 0..MaxCalls
    BY Zenon DEF Inv, Types
<1>9. /\ "resource_exhausted" \in Traps /\ "guard" \in Traps /\ "unreachable" \in Traps
      /\ "capability_denied" \in Traps
    BY Zenon DEF Traps
<1>10. ASSUME NEW t \in Threads, NEW label \in {"body", "host"}, Runs(t, "prologue") \/ Runs(t, "body") \/ Runs(t, "host"),
              label = "host" => granted[Top(t).e],
              SetTop(t, [Top(t) EXCEPT !.pc = label]),
              UNCHANGED <<deadline_ns, granted, pool, boxes, clock>>, calls' \in 0..MaxCalls
       PROVE  Inv'
  <2> DEFINE f == [Top(t) EXCEPT !.pc = label]
  <2>1. Depth(t) > 0 /\ InMachineCode(Top(t)) /\ Top(t) \in Frames
      BY Zenon, <1>7, <1>10
  <2>2. /\ f \in Frames /\ f.e = Top(t).e /\ f.arena = Top(t).arena /\ f.box = Top(t).box
        /\ f.deadline = Top(t).deadline /\ f.trapped = Top(t).trapped /\ f.pc = label
      BY Zenon, <2>1 DEF Frames, Pcs
  <2>3. SetTop(t, f)
      BY Zenon, <1>10
  <2> HIDE DEF f
  <2>4. InMachineCode(f)
      BY Zenon, <2>2 DEF InMachineCode
  <2> QED
      BY Zenon, <1>10, <2>1, <2>2, <2>3, <2>4, CodeMoves
<1>11. ASSUME NEW t \in Threads, Prologue(t) PROVE Inv'
  <2>1. Runs(t, "prologue") /\ UNCHANGED <<deadline_ns, granted, pool, clock, calls>>
      BY Zenon, <1>11 DEF Prologue, At
  <2>2. CASE Raise(t, "resource_exhausted")
      BY Zenon, <2>1, <2>2, <1>7, <1>8, <1>9, Raised
  <2>3. CASE SetTop(t, [Top(t) EXCEPT !.pc = "body"]) /\ UNCHANGED boxes
      BY Zenon, <2>1, <2>3, <1>8, <1>10
  <2> QED
      BY Zenon, <2>2, <2>3, <1>11 DEF Prologue
<1>12. ASSUME NEW t \in Threads, LoopCheck(t) PROVE Inv'
  <2>1. /\ Runs(t, "body") /\ Raise(t, "resource_exhausted")
        /\ UNCHANGED <<deadline_ns, granted, pool, clock, calls>>
      BY Zenon, <1>12 DEF LoopCheck, At
  <2> QED
      BY Zenon, <2>1, <1>7, <1>8, <1>9, Raised
<1>13. ASSUME NEW t \in Threads, Guard(t) PROVE Inv'
  <2>1. /\ Runs(t, "body") /\ Raise(t, "guard")
        /\ UNCHANGED <<deadline_ns, granted, pool, clock, calls>>
      BY Zenon, <1>13 DEF Guard, At
  <2> QED
      BY Zenon, <2>1, <1>7, <1>8, <1>9, Raised
<1>14. ASSUME NEW t \in Threads, CallClosure(t) PROVE Inv'
  <2> DEFINE d == Top(t).lambda + 1
             f == [Top(t) EXCEPT !.lambda = d, !.pc = "prologue"]
  <2>1. /\ Runs(t, "body") /\ Top(t).lambda < MaxLambda /\ SetTop(t, f)
        /\ UNCHANGED <<deadline_ns, granted, pool, boxes, clock, calls>>
      BY Zenon, <1>14 DEF CallClosure, At
  <2>2. Depth(t) > 0 /\ InMachineCode(Top(t)) /\ Top(t) \in Frames
      BY Zenon, <1>7, <2>1
  <2>3. d \in 0..MaxLambda
    <3>1. Top(t).lambda \in 0..MaxLambda
        BY Zenon, <2>2 DEF Frames
    <3> QED
        BY <3>1, <2>1, ConstantsAssumption
  <2> HIDE DEF d
  <2>4. /\ f \in Frames /\ f.e = Top(t).e /\ f.arena = Top(t).arena /\ f.box = Top(t).box
        /\ f.deadline = Top(t).deadline /\ f.trapped = Top(t).trapped /\ f.pc = "prologue"
      BY Zenon, <2>2, <2>3 DEF Frames, Pcs
  <2> HIDE DEF f
  <2>5. InMachineCode(f) /\ f.pc # "host"
      BY Zenon, <2>4 DEF InMachineCode
  <2> QED
      BY Zenon, <2>1, <2>2, <2>4, <2>5, <1>8, CodeMoves
<1>15. ASSUME NEW t \in Threads, CallNative(t) PROVE Inv'
  <2>1. Runs(t, "body") /\ UNCHANGED <<deadline_ns, granted, pool, clock>>
      BY Zenon, <1>15 DEF CallNative, At
  <2>2. calls' \in 0..MaxCalls
      BY <1>8, <1>15, ConstantsAssumption DEF CallNative
  <2>3. CASE Raise(t, "capability_denied")
      BY Zenon, <2>1, <2>2, <2>3, <1>7, <1>9, Raised
  <2>4. CASE TopBox(t).granted /\ SetTop(t, [Top(t) EXCEPT !.pc = "host"]) /\ UNCHANGED boxes
    <3>1. granted[Top(t).e]
        BY Zenon, <2>1, <2>4, <1>7 DEF Serves
    <3> QED
        BY Zenon, <3>1, <2>1, <2>2, <2>4, <1>10
  <2> QED
      BY Zenon, <2>3, <2>4, <1>15 DEF CallNative
<1>16. ASSUME NEW t \in Threads, HostReturns(t) PROVE Inv'
  <2>1. Runs(t, "host") /\ UNCHANGED <<deadline_ns, granted, pool, clock, calls>>
      BY Zenon, <1>16 DEF HostReturns, At
  <2>2. CASE Raise(t, "unreachable")
      BY Zenon, <2>1, <2>2, <1>7, <1>8, <1>9, Raised
  <2>3. CASE TopBox(t).trap # NoTrap /\ Raise(t, TopBox(t).trap)
    <3>1. TopBox(t).trap \in Traps
        BY Zenon, <2>1, <2>3, <1>7 DEF Boxes
    <3> QED
        BY Zenon, <3>1, <2>1, <2>3, <1>7, <1>8, Raised
  <2>4. CASE SetTop(t, [Top(t) EXCEPT !.pc = "body"]) /\ UNCHANGED boxes
      BY Zenon, <2>1, <2>4, <1>8, <1>10
  <2> QED
      BY Zenon, <2>2, <2>3, <2>4, <1>16 DEF HostReturns
<1>17. ASSUME NEW t \in Threads, Finish(t) PROVE Inv'
  <2> DEFINE f == Leave(Top(t))
  <2>1. /\ Runs(t, "body") /\ SetTop(t, f)
        /\ UNCHANGED <<deadline_ns, granted, pool, boxes, clock, calls>>
      BY Zenon, <1>17 DEF Finish, At
  <2>2. Depth(t) > 0 /\ InMachineCode(Top(t)) /\ Top(t) \in Frames
      BY Zenon, <1>7, <2>1
  <2>3. /\ f \in Frames /\ f.e = Top(t).e /\ f.arena = Top(t).arena /\ f.box = Top(t).box
        /\ f.deadline = Top(t).deadline /\ f.trapped = Top(t).trapped
        /\ InMachineCode(f) /\ f.pc # "host"
      BY Zenon, <2>2, LeaveFacts
  <2> HIDE DEF f
  <2> QED
      BY Zenon, <2>1, <2>2, <2>3, <1>8, CodeMoves
<1>18. CASE UNCHANGED vars
    BY Zenon, <1>18 DEF vars, Inv, Types
<1> QED
    BY Zenon, <1>1, <1>2, <1>3, <1>4, <1>5, <1>6, <1>11, <1>12, <1>13, <1>14, <1>15, <1>16, <1>17, <1>18
       DEF Next, Host

LEMMA AlwaysInv == Spec => []Inv
BY InitInv, StepInv, PTL DEF Spec

\* Every variable of the model of run_main keeps its type.
THEOREM TypesHold == Spec => []TypeOK
<1>1. Inv => TypeOK
    BY Zenon DEF Inv, Types, TypeOK, Frames, Boxes, Pcs
<1> QED
    BY <1>1, AlwaysInv, PTL

\* Dispatches under way on a thread, one inside the other, have boxes and
\* arenas of their own, and none of the boxes is parked for the next acquire.
THEOREM NothingIsShared == Spec => []DispatchesDoNotShare
<1>1. Inv => DispatchesDoNotShare
    BY ZenonT(40) DEF Inv, ThreadOK, FrameOK, Apart, DispatchesDoNotShare, Depth
<1> QED
    BY <1>1, AlwaysInv, PTL

\* The machine code of a dispatch sees the deadline, the epoch, the closures,
\* the arena and the grants of its own evaluator until it returns, whoever had
\* the box before.
THEOREM OwnTemplate == Spec => []DispatchSeesItsEvaluator
<1>1. Inv => DispatchSeesItsEvaluator
    BY ZenonT(40) DEF Inv, ThreadOK, FrameOK, Serves, DispatchSeesItsEvaluator, Depth
<1> QED
    BY <1>1, AlwaysInv, PTL

\* dispatch_post reports an error exactly when a trap was raised in this
\* dispatch.
THEOREM OwnOutcome == Spec => []OutcomeIsOwn
<1>1. ASSUME Inv, NEW t \in Threads, At(t, "post")
      PROVE  TopBox(t).trap # NoTrap <=> Top(t).trapped # NoTrap
  <2>1. Depth(t) > 0 /\ InMachineCode(Top(t))
      BY Zenon, <1>1 DEF At, InMachineCode
  <2> QED
      BY Zenon, <1>1, <2>1, TopFacts DEF Serves
<1>2. Inv => OutcomeIsOwn
    BY Zenon, <1>1 DEF OutcomeIsOwn
<1> QED
    BY <1>2, AlwaysInv, PTL
=============================================================================
