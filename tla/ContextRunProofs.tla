-------------------------- MODULE ContextRunProofs --------------------------
(***************************************************************************)
(* Proofs about the run protocol, for any set of threads and any bounds.   *)
(***************************************************************************)
EXTENDS ContextRun, TLAPS

\* The slot names exactly the thread that holds the guard.
SlotOwned == \A t \in Threads : pc[t] \in Holding <=> slot = t

\* The steps the holder has been charged are in the counter it reset.
SpentCounted ==
    /\ \A t \in Threads : pc[t] = "reset_steps" => spent[t] = 0
    /\ \A t \in Threads :
        pc[t] \in {"reset_cache", "reset_iters", "body", "drop"} => spent[t] <= step_counter

SlotInv == SlotOwned /\ SpentCounted

\* Closure namespaces are drawn one by one; one not drawn yet is empty.
FreshEmpty ==
    /\ closure_calls <= acts
    /\ \A k \in Keys : k > closure_calls => cache[k] = 0

\* A closure call owns its namespace: it is not Root, no other thread has it.
CallsDistinct ==
    /\ \A t \in Threads : call[t] # NoCall => call[t].ns \in 1..closure_calls
    /\ \A t, u \in Threads :
        call[t] # NoCall /\ call[u] # NoCall /\ u # t => call[u].ns # call[t].ns

\* What a namespace holds was written by the activation that owns it.
CallsOwn == \A t \in Threads : call[t] # NoCall => cache[call[t].ns] \in {0, call[t].act}
RootOwn  == \A t \in Threads : pc[t] \in {"reset_iters", "body"} => cache[Root] \in {0, run[t]}

\* Closures are called from a body or by an idle thread of the host.
CallPlaces == \A t \in Threads : pc[t] \notin {"idle", "body"} => call[t] = NoCall

CacheInv == FreshEmpty /\ CallsDistinct /\ CallsOwn /\ RootOwn /\ CallPlaces

\* A live cursor counts what its iterator has handed out.
LiveCursors == \A i \in IterIds :
    cursors[i] # NoCursor => i < iter_ids /\ i \notin cleared /\ cursors[i] = yields[i]

\* An id is drawn once: until then nothing is known of it ...
UndrawnIds == \A i \in IterIds :
    i >= iter_ids => cursors[i] = NoCursor /\ i \notin cleared /\ yields[i] = 0

\* ... and until its cursor is registered only the thread that drew it has it.
MintedIds == \A t \in Threads : minting[t] # NoIter =>
    /\ minting[t] < iter_ids
    /\ minting[t] \notin cleared
    /\ cursors[minting[t]] = NoCursor
    /\ yields[minting[t]] = 0
    /\ \A u \in Threads : minting[u] = minting[t] => u = t

IterInv == LiveCursors /\ UndrawnIds /\ MintedIds

IInv == TypeOK /\ SlotInv /\ CacheInv /\ IterInv

-----------------------------------------------------------------------------
USE ContextRunAssumption
USE DEF Root, Keys, NoCursor, NoIter, IterIds, NoCall, Places, Holding, Goto,
        iters, calls

\* A fresh Context satisfies the invariant.
LEMMA InitIInv == Init => IInv
  BY DEF Init, IInv, TypeOK, SlotInv, SlotOwned, SpentCounted, CacheInv, FreshEmpty,
     CallsDistinct, CallsOwn, RootOwn, CallPlaces, IterInv, LiveCursors, UndrawnIds, MintedIds

\* A charge that succeeds leaves what the run has spent within the limit.
LEMMA SpentTyped ==
  ASSUME TypeOK, SlotInv, NEW t \in Threads, NEW n \in Nat,
         step_counter + n <= MaxSteps,
         spent' = IF pc[t] = "body" THEN [spent EXCEPT ![t] = @ + n] ELSE spent
  PROVE  spent' \in [Threads -> 0..MaxSteps]
  <1>1. CASE pc[t] = "body"
    <2>1. spent[t] \in Nat /\ spent[t] <= step_counter /\ step_counter \in Nat
      BY <1>1 DEF SlotInv, SpentCounted, TypeOK
    <2>2. spent[t] + n \in 0..MaxSteps
      BY <2>1
    <2>3. QED
      BY <1>1, <2>2 DEF TypeOK
  <1>2. CASE pc[t] # "body"
    BY <1>2 DEF TypeOK
  <1>3. QED
    BY <1>1, <1>2

\* A new closure call has a namespace and a number of its own.
LEMMA CallTyped ==
  ASSUME TypeOK, CacheInv, NEW t \in Threads, EnterClosure(t)
  PROVE  call' \in [Threads -> [ns : Keys, act : 0..MaxActs]]
  <1>1. closure_calls + 1 \in 0..MaxActs /\ acts + 1 \in 0..MaxActs
    BY DEF EnterClosure, CacheInv, FreshEmpty, TypeOK
  <1>2. QED
    BY <1>1 DEF EnterClosure, TypeOK

\* An aborted call is forgotten.
LEMMA AbortTyped ==
  ASSUME TypeOK, NEW t \in Threads, Abort(t)
  PROVE  call' \in [Threads -> [ns : Keys, act : 0..MaxActs]]
  BY DEF Abort, TypeOK

\* A cursor that is below the end of its list stays within the list.
LEMMA CursorTyped ==
  ASSUME TypeOK, IterInv, NEW t \in Threads, NEW i \in IterIds, IterNext(t, i)
  PROVE  cursors' \in [IterIds -> 0..NoCursor] /\ yields' \in [IterIds -> 0..IterLen]
  <1>1. cursors[i] \in 0..NoCursor /\ cursors[i] < IterLen
    BY DEF IterNext, TypeOK
  <1>2. cursors[i] + 1 \in 0..NoCursor
    BY <1>1
  <1>3. cursors' \in [IterIds -> 0..NoCursor]
    BY Zenon, <1>2 DEF TypeOK, IterNext
  <1>4. yields[i] + 1 \in 0..IterLen
    BY <1>1 DEF IterInv, LiveCursors
  <1>5. yields' \in [IterIds -> 0..IterLen]
    BY Zenon, <1>4 DEF TypeOK, IterNext
  <1>6. QED
    BY <1>3, <1>5

\* Every step keeps every variable in its type.
LEMMA TypeStep == IInv /\ [Next]_vars => TypeOK'
  <1> SUFFICES ASSUME IInv, [Next]_vars PROVE TypeOK'
    OBVIOUS
  <1> USE DEF IInv, TypeOK
  <1>1. CASE UNCHANGED vars
    BY Zenon, <1>1 DEF vars
  <1>2. ASSUME NEW t \in Threads, EnterTopLevel(t) PROVE TypeOK'
    <2> USE <1>2 DEF EnterTopLevel
    <2>1. pc' \in [Threads -> Places]
      OBVIOUS
    <2>2. acts' \in 0..MaxActs
      OBVIOUS
    <2>3. run' \in [Threads -> 0..MaxActs]
      OBVIOUS
    <2>4. UNCHANGED <<slot, step_counter, cache, closure_calls, cursors,
                     iter_ids, minting, call, spent, yields, cleared>>
      OBVIOUS
    <2>5. QED
      BY ZenonT(60), <2>1, <2>2, <2>3, <2>4
  <1>3. ASSUME NEW t \in Threads, Claim(t) PROVE TypeOK'
    <2> USE <1>3 DEF Claim
    <2>1. slot' \in Threads \cup {NoThread}
      OBVIOUS
    <2>2. pc' \in [Threads -> Places]
      OBVIOUS
    <2>3. spent' \in [Threads -> 0..MaxSteps]
      OBVIOUS
    <2>4. UNCHANGED <<step_counter, cache, closure_calls, cursors, iter_ids,
                     minting, acts, run, call, yields, cleared>>
      OBVIOUS
    <2>5. QED
      BY Zenon, <2>1, <2>2, <2>3, <2>4
  <1>4. ASSUME NEW t \in Threads, Wait(t) PROVE TypeOK'
    <2> USE <1>4 DEF Wait
    <2>1. pc' \in [Threads -> Places]
      OBVIOUS
    <2>2. UNCHANGED <<slot, step_counter, cache, closure_calls, cursors,
                     iter_ids, minting, acts, run, call, spent, yields,
                     cleared>>
      OBVIOUS
    <2>3. QED
      BY Zenon, <2>1, <2>2
  <1>5. ASSUME NEW t \in Threads, SpuriousWake(t) PROVE TypeOK'
    <2> USE <1>5 DEF SpuriousWake
    <2>1. pc' \in [Threads -> Places]
      OBVIOUS
    <2>2. UNCHANGED <<slot, step_counter, cache, closure_calls, cursors,
                     iter_ids, minting, acts, run, call, spent, yields,
                     cleared>>
      OBVIOUS
    <2>3. QED
      BY Zenon, <2>1, <2>2
  <1>6. ASSUME NEW t \in Threads, Reenter(t) PROVE TypeOK'
    <2> USE <1>6 DEF Reenter
    <2>1. pc' \in [Threads -> Places]
      OBVIOUS
    <2>2. call' \in [Threads -> [ns : Keys, act : 0..MaxActs]]
      OBVIOUS
    <2>3. UNCHANGED <<slot, step_counter, cache, closure_calls, cursors,
                     iter_ids, minting, acts, run, spent, yields, cleared>>
      OBVIOUS
    <2>4. QED
      BY ZenonT(60), <2>1, <2>2, <2>3
  <1>7. ASSUME NEW t \in Threads, Return(t) PROVE TypeOK'
    <2> USE <1>7 DEF Return
    <2>1. pc' \in [Threads -> Places]
      OBVIOUS
    <2>2. UNCHANGED <<slot, step_counter, cache, closure_calls, cursors,
                     iter_ids, minting, acts, run, call, spent, yields,
                     cleared>>
      OBVIOUS
    <2>3. QED
      BY Zenon, <2>1, <2>2
  <1>8. ASSUME NEW t \in Threads, DropClear(t) PROVE TypeOK'
    <2> USE <1>8 DEF DropClear
    <2>1. slot' \in Threads \cup {NoThread}
      OBVIOUS
    <2>2. pc' \in [Threads -> Places]
      OBVIOUS
    <2>3. run' \in [Threads -> 0..MaxActs]
      OBVIOUS
    <2>4. spent' \in [Threads -> 0..MaxSteps]
      OBVIOUS
    <2>5. UNCHANGED <<step_counter, cache, closure_calls, cursors, iter_ids,
                     minting, acts, call, yields, cleared>>
      OBVIOUS
    <2>6. QED
      BY Zenon, <2>1, <2>2, <2>3, <2>4, <2>5
  <1>9. ASSUME NEW t \in Threads, DropNotify(t) PROVE TypeOK'
    <2> USE <1>9 DEF DropNotify
    <2>1. pc' \in [Threads -> Places]
      OBVIOUS
    <2>2. UNCHANGED <<slot, step_counter, cache, closure_calls, cursors,
                     iter_ids, minting, acts, run, call, spent, yields,
                     cleared>>
      OBVIOUS
    <2>3. QED
      BY ZenonT(60), <2>1, <2>2
  <1>10. ASSUME NEW t \in Threads, ResetSteps(t) PROVE TypeOK'
    <2> USE <1>10 DEF ResetSteps
    <2>1. step_counter' \in 0..CounterCap
      OBVIOUS
    <2>2. pc' \in [Threads -> Places]
      OBVIOUS
    <2>3. UNCHANGED <<slot, cache, closure_calls, cursors, iter_ids, minting,
                     acts, run, call, spent, yields, cleared>>
      OBVIOUS
    <2>4. QED
      BY Zenon, <2>1, <2>2, <2>3
  <1>11. ASSUME NEW t \in Threads, ResetPathCache(t) PROVE TypeOK'
    <2> USE <1>11 DEF ResetPathCache
    <2>1. cache' \in [Keys -> 0..MaxActs]
      OBVIOUS
    <2>2. pc' \in [Threads -> Places]
      OBVIOUS
    <2>3. UNCHANGED <<slot, step_counter, closure_calls, cursors, iter_ids,
                     minting, acts, run, call, spent, yields, cleared>>
      OBVIOUS
    <2>4. QED
      BY Zenon, <2>1, <2>2, <2>3
  <1>12. ASSUME NEW t \in Threads, ResetIterCursors(t) PROVE TypeOK'
    <2> USE <1>12 DEF ResetIterCursors
    <2>1. cleared' \subseteq IterIds
      BY Zenon
    <2>2. cursors' \in [IterIds -> 0..NoCursor]
      OBVIOUS
    <2>3. pc' \in [Threads -> Places]
      OBVIOUS
    <2>4. UNCHANGED <<slot, step_counter, cache, closure_calls, iter_ids,
                     minting, acts, run, call, spent, yields>>
      OBVIOUS
    <2>5. QED
      BY Zenon, <2>1, <2>2, <2>3, <2>4
  <1>13. ASSUME NEW t \in Threads, EvalNode(t) PROVE TypeOK'
    <2>1. step_counter' \in 0..CounterCap
      BY <1>13 DEF EvalNode, Charged
    <2>2. CASE step_counter >= MaxSteps /\ Abort(t)
      <3>1. spent' = spent /\ pc' \in [Threads -> Places]
        BY Zenon, <2>2 DEF Abort
      <3>2. call' \in [Threads -> [ns : Keys, act : 0..MaxActs]]
        BY Zenon, <2>2, AbortTyped
      <3>3. QED
        BY Zenon, <1>13, <2>1, <3>1, <3>2 DEF EvalNode
    <2>3. CASE /\ step_counter < MaxSteps
               /\ spent' = IF pc[t] = "body" THEN [spent EXCEPT ![t] = @ + 1] ELSE spent
               /\ UNCHANGED <<pc, call>>
      <3>1. step_counter + 1 <= MaxSteps
        BY <2>3
      <3>2. spent' \in [Threads -> 0..MaxSteps]
        BY Zenon, <2>3, <3>1, SpentTyped
      <3>3. QED
        BY Zenon, <1>13, <2>1, <2>3, <3>2 DEF EvalNode
    <2>4. QED
      BY Zenon, <1>13, <2>2, <2>3 DEF EvalNode
  <1>14. ASSUME NEW t \in Threads, NEW n \in TickSizes, Tick(t, n) PROVE TypeOK'
    <2>1. step_counter' \in 0..CounterCap /\ n \in Nat
      BY <1>14 DEF Tick, Charged
    <2>2. CASE step_counter + n > MaxSteps /\ Abort(t)
      <3>1. spent' = spent /\ pc' \in [Threads -> Places]
        BY Zenon, <2>2 DEF Abort
      <3>2. call' \in [Threads -> [ns : Keys, act : 0..MaxActs]]
        BY Zenon, <2>2, AbortTyped
      <3>3. QED
        BY Zenon, <1>14, <2>1, <3>1, <3>2 DEF Tick
    <2>3. CASE /\ step_counter + n <= MaxSteps
               /\ spent' = IF pc[t] = "body" THEN [spent EXCEPT ![t] = @ + n] ELSE spent
               /\ UNCHANGED <<pc, call>>
      <3>1. spent' \in [Threads -> 0..MaxSteps]
        BY Zenon, <2>1, <2>3, SpentTyped
      <3>2. QED
        BY Zenon, <1>14, <2>1, <2>3, <3>1 DEF Tick
    <2>4. QED
      BY Zenon, <1>14, <2>2, <2>3 DEF Tick
  <1>15. ASSUME NEW t \in Threads, EnterClosure(t) PROVE TypeOK'
    <2> USE <1>15 DEF EnterClosure
    <2>1. acts' \in 0..MaxActs
      OBVIOUS
    <2>2. closure_calls' \in 0..MaxActs
      BY DEF CacheInv, FreshEmpty
    <2>3. call' \in [Threads -> [ns : Keys, act : 0..MaxActs]]
      BY Zenon, CallTyped
    <2>4. UNCHANGED <<slot, pc, step_counter, cache, cursors, iter_ids,
                     minting, run, spent, yields, cleared>>
      OBVIOUS
    <2>5. QED
      BY Zenon, <2>1, <2>2, <2>3, <2>4
  <1>16. ASSUME NEW t \in Threads, LeaveClosure(t) PROVE TypeOK'
    <2> USE <1>16 DEF LeaveClosure
    <2>1. call' \in [Threads -> [ns : Keys, act : 0..MaxActs]]
      OBVIOUS
    <2>2. UNCHANGED <<slot, pc, step_counter, cache, closure_calls, cursors,
                     iter_ids, minting, acts, run, spent, yields, cleared>>
      OBVIOUS
    <2>3. QED
      BY Zenon, <2>1, <2>2
  <1>17. ASSUME NEW t \in Threads, CacheReference(t) PROVE TypeOK'
    <2> USE <1>17 DEF CacheReference
    <2>1. cache' \in [Keys -> 0..MaxActs]
      BY Zenon DEF CacheInv, FreshEmpty
    <2>2. UNCHANGED <<slot, pc, step_counter, closure_calls, cursors, iter_ids,
                     minting, acts, run, call, spent, yields, cleared>>
      OBVIOUS
    <2>3. QED
      BY Zenon, <2>1, <2>2
  <1>18. ASSUME NEW t \in Threads, DrawIterId(t) PROVE TypeOK'
    <2> USE <1>18 DEF DrawIterId
    <2>1. minting' \in [Threads -> IterIds \cup {NoIter}]
      OBVIOUS
    <2>2. iter_ids' \in 0..MaxIters
      OBVIOUS
    <2>3. UNCHANGED <<slot, pc, step_counter, cache, closure_calls, cursors,
                     acts, run, call, spent, yields, cleared>>
      OBVIOUS
    <2>4. QED
      BY Zenon, <2>1, <2>2, <2>3
  <1>19. ASSUME NEW t \in Threads, RegisterCursor(t) PROVE TypeOK'
    <2> USE <1>19 DEF RegisterCursor
    <2>1. cursors' \in [IterIds -> 0..NoCursor]
      OBVIOUS
    <2>2. minting' \in [Threads -> IterIds \cup {NoIter}]
      OBVIOUS
    <2>3. UNCHANGED <<slot, pc, step_counter, cache, closure_calls, iter_ids,
                     acts, run, call, spent, yields, cleared>>
      OBVIOUS
    <2>4. QED
      BY Zenon, <2>1, <2>2, <2>3
  <1>20. ASSUME NEW t \in Threads, NEW i \in IterIds, IterNext(t, i) PROVE TypeOK'
    <2> USE <1>20 DEF IterNext
    <2>1. cursors' \in [IterIds -> 0..NoCursor] /\ yields' \in [IterIds -> 0..IterLen]
      BY Zenon, CursorTyped
    <2>2. UNCHANGED <<slot, pc, step_counter, cache, closure_calls, iter_ids,
                     minting, acts, run, call, spent, cleared>>
      OBVIOUS
    <2>3. QED
      BY Zenon, <2>1, <2>2
  <1>21. QED
    BY ZenonT(60), <1>1, <1>2, <1>3, <1>4, <1>5, <1>6, <1>7, <1>8, <1>9, <1>10, <1>11, <1>12,
       <1>13, <1>14, <1>15, <1>16, <1>17, <1>18, <1>19, <1>20 DEF Next, RunStep

\* A charge never lowers the counter, and one within the limit is exact.
LEMMA ChargedGrows ==
  ASSUME TypeOK, NEW n \in Nat
  PROVE  /\ Charged(n) \in Nat
         /\ step_counter <= Charged(n)
         /\ step_counter + n <= MaxSteps => Charged(n) = step_counter + n
  BY SMTT(60) DEF TypeOK, Charged

\* The slot stays with the thread that holds the guard.
LEMMA SlotOwnedStep == IInv /\ [Next]_vars => SlotOwned'
  <1> SUFFICES ASSUME IInv, [Next]_vars PROVE SlotOwned'
    OBVIOUS
  <1>1. /\ slot \in Threads \cup {NoThread}
        /\ pc \in [Threads -> Places]
    BY DEF IInv, TypeOK
  <1>2. SlotOwned
    BY DEF IInv, SlotInv
  <1>3. CASE UNCHANGED <<slot, pc>>
    BY <1>2, <1>3 DEF SlotOwned
  <1>4. ASSUME NEW t \in Threads, EnterTopLevel(t) PROVE SlotOwned'
    BY <1>1, <1>2, <1>4 DEF EnterTopLevel, SlotOwned
  <1>5. ASSUME NEW t \in Threads, Claim(t) PROVE SlotOwned'
    BY <1>1, <1>2, <1>5 DEF Claim, SlotOwned
  <1>6. ASSUME NEW t \in Threads, Wait(t) PROVE SlotOwned'
    BY <1>1, <1>2, <1>6 DEF Wait, SlotOwned
  <1>7. ASSUME NEW t \in Threads, SpuriousWake(t) PROVE SlotOwned'
    BY <1>1, <1>2, <1>7 DEF SpuriousWake, SlotOwned
  <1>8. ASSUME NEW t \in Threads, Reenter(t) PROVE SlotOwned'
    BY <1>1, <1>2, <1>8 DEF Reenter, SlotOwned
  <1>9. ASSUME NEW t \in Threads, Return(t) PROVE SlotOwned'
    BY <1>1, <1>2, <1>9 DEF Return, SlotOwned
  <1>10. ASSUME NEW t \in Threads, DropClear(t) PROVE SlotOwned'
    BY <1>1, <1>2, <1>10 DEF DropClear, SlotOwned
  <1>11. ASSUME NEW t \in Threads, DropNotify(t) PROVE SlotOwned'
    BY <1>1, <1>2, <1>11 DEF DropNotify, SlotOwned
  <1>12. ASSUME NEW t \in Threads, ResetSteps(t) PROVE SlotOwned'
    BY <1>1, <1>2, <1>12 DEF ResetSteps, SlotOwned
  <1>13. ASSUME NEW t \in Threads, ResetPathCache(t) PROVE SlotOwned'
    BY <1>1, <1>2, <1>13 DEF ResetPathCache, SlotOwned
  <1>14. ASSUME NEW t \in Threads, ResetIterCursors(t) PROVE SlotOwned'
    BY <1>1, <1>2, <1>14 DEF ResetIterCursors, SlotOwned
  <1>15. ASSUME NEW t \in Threads, EvalNode(t) PROVE SlotOwned'
    BY <1>1, <1>2, <1>15 DEF EvalNode, SlotOwned, Abort
  <1>16. ASSUME NEW t \in Threads, NEW n \in TickSizes, Tick(t, n) PROVE SlotOwned'
    BY SMTT(60), <1>1, <1>2, <1>16 DEF Tick, SlotOwned, Abort
  <1>17. QED
    BY Zenon, <1>3, <1>4, <1>5, <1>6, <1>7, <1>8, <1>9, <1>10, <1>11, <1>12, <1>13,
       <1>14, <1>15, <1>16 DEF Next, RunStep, vars, EnterClosure, LeaveClosure,
       CacheReference, DrawIterId, RegisterCursor, IterNext

\* Nobody but the holder resets the counter its charges are in.
LEMMA SpentCountedStep == IInv /\ [Next]_vars => SpentCounted'
  <1> SUFFICES ASSUME IInv, [Next]_vars PROVE SpentCounted'
    OBVIOUS
  <1>1. /\ pc \in [Threads -> Places]
        /\ spent \in [Threads -> 0..MaxSteps]
        /\ step_counter \in 0..CounterCap
    BY Zenon DEF IInv, TypeOK
  <1>2. SlotOwned /\ SpentCounted
    BY DEF IInv, SlotInv
  <1>3. CASE UNCHANGED <<pc, spent, step_counter>>
    BY <1>2, <1>3 DEF SpentCounted
  <1>4. ASSUME NEW t \in Threads, EnterTopLevel(t) PROVE SpentCounted'
    BY <1>1, <1>2, <1>4 DEF EnterTopLevel, SpentCounted
  <1>5. ASSUME NEW t \in Threads, Claim(t) PROVE SpentCounted'
    BY <1>1, <1>2, <1>5 DEF Claim, SpentCounted
  <1>6. ASSUME NEW t \in Threads, Wait(t) PROVE SpentCounted'
    BY <1>1, <1>2, <1>6 DEF Wait, SpentCounted
  <1>7. ASSUME NEW t \in Threads, SpuriousWake(t) PROVE SpentCounted'
    BY <1>1, <1>2, <1>7 DEF SpuriousWake, SpentCounted
  <1>8. ASSUME NEW t \in Threads, Reenter(t) PROVE SpentCounted'
    BY <1>1, <1>2, <1>8 DEF Reenter, SpentCounted
  <1>9. ASSUME NEW t \in Threads, Return(t) PROVE SpentCounted'
    BY <1>1, <1>2, <1>9 DEF Return, SpentCounted
  <1>10. ASSUME NEW t \in Threads, DropClear(t) PROVE SpentCounted'
    BY <1>1, <1>2, <1>10 DEF DropClear, SpentCounted
  <1>11. ASSUME NEW t \in Threads, DropNotify(t) PROVE SpentCounted'
    BY <1>1, <1>2, <1>11 DEF DropNotify, SpentCounted
  <1>12. ASSUME NEW t \in Threads, ResetSteps(t) PROVE SpentCounted'
    BY <1>1, <1>2, <1>12 DEF ResetSteps, SpentCounted, SlotOwned
  <1>13. ASSUME NEW t \in Threads, ResetPathCache(t) PROVE SpentCounted'
    BY <1>1, <1>2, <1>13 DEF ResetPathCache, SpentCounted
  <1>14. ASSUME NEW t \in Threads, ResetIterCursors(t) PROVE SpentCounted'
    BY <1>1, <1>2, <1>14 DEF ResetIterCursors, SpentCounted
  <1>15. ASSUME NEW t \in Threads, EvalNode(t) PROVE SpentCounted'
    <2>1. 1 \in Nat
      BY <1>15
    <2>2. /\ Charged(1) \in Nat /\ step_counter <= Charged(1)
          /\ step_counter + 1 <= MaxSteps => Charged(1) = step_counter + 1
      BY <2>1, ChargedGrows DEF IInv
    <2>3. step_counter' = Charged(1)
      BY <1>15 DEF EvalNode
    <2>4. CASE Abort(t)
      BY <1>1, <1>2, <2>2, <2>3, <2>4 DEF Abort, SpentCounted
    <2>5. CASE /\ step_counter + 1 <= MaxSteps
               /\ spent' = IF pc[t] = "body" THEN [spent EXCEPT ![t] = @ + 1] ELSE spent
               /\ UNCHANGED pc
      BY <1>1, <1>2, <2>1, <2>2, <2>3, <2>5 DEF SpentCounted
    <2>6. QED
      BY <1>1, <1>15, <2>4, <2>5 DEF EvalNode
  <1>16. ASSUME NEW t \in Threads, NEW n \in TickSizes, Tick(t, n) PROVE SpentCounted'
    <2>1. n \in Nat
      BY <1>16
    <2>2. /\ Charged(n) \in Nat /\ step_counter <= Charged(n)
          /\ step_counter + n <= MaxSteps => Charged(n) = step_counter + n
      BY <2>1, ChargedGrows DEF IInv
    <2>3. step_counter' = Charged(n)
      BY <1>16 DEF Tick
    <2>4. CASE Abort(t)
      BY <1>1, <1>2, <2>2, <2>3, <2>4 DEF Abort, SpentCounted
    <2>5. CASE /\ step_counter + n <= MaxSteps
               /\ spent' = IF pc[t] = "body" THEN [spent EXCEPT ![t] = @ + n] ELSE spent
               /\ UNCHANGED pc
      BY SMTT(60), <1>1, <1>2, <2>1, <2>2, <2>3, <2>5 DEF SpentCounted
    <2>6. QED
      BY <1>1, <1>16, <2>4, <2>5 DEF Tick
  <1>17. QED
    BY Zenon, <1>3, <1>4, <1>5, <1>6, <1>7, <1>8, <1>9, <1>10, <1>11, <1>12, <1>13,
       <1>14, <1>15, <1>16 DEF Next, RunStep, vars, EnterClosure, LeaveClosure,
       CacheReference, DrawIterId, RegisterCursor, IterNext

\* A namespace is empty until a call draws it.
LEMMA FreshEmptyStep == IInv /\ [Next]_vars => FreshEmpty'
  <1> SUFFICES ASSUME IInv, [Next]_vars PROVE FreshEmpty'
    OBVIOUS
  <1>1. /\ closure_calls \in 0..MaxActs
        /\ acts \in 0..MaxActs
        /\ cache \in [Keys -> 0..MaxActs]
        /\ call \in [Threads -> [ns : Keys, act : 0..MaxActs]]
    BY Zenon DEF IInv, TypeOK
  <1>2. FreshEmpty /\ CallsDistinct
    BY DEF IInv, CacheInv
  <1>3. CASE UNCHANGED <<closure_calls, acts, cache>>
    BY <1>2, <1>3 DEF FreshEmpty
  <1>4. ASSUME NEW t \in Threads, EnterTopLevel(t) PROVE FreshEmpty'
    BY <1>1, <1>2, <1>4 DEF EnterTopLevel, FreshEmpty
  <1>5. ASSUME NEW t \in Threads, ResetPathCache(t) PROVE FreshEmpty'
    BY <1>1, <1>2, <1>5 DEF ResetPathCache, FreshEmpty
  <1>6. ASSUME NEW t \in Threads, EnterClosure(t) PROVE FreshEmpty'
    BY <1>1, <1>2, <1>6 DEF EnterClosure, FreshEmpty
  <1>7. ASSUME NEW t \in Threads, CacheReference(t) PROVE FreshEmpty'
    BY SMTT(60), <1>1, <1>2, <1>7 DEF CacheReference, FreshEmpty, Evaluating, CallsDistinct
  <1>8. QED
    BY ZenonT(40), <1>3, <1>4, <1>5, <1>6, <1>7 DEF Next, RunStep, vars, Claim, Wait,
       SpuriousWake, Reenter, Return, DropClear, DropNotify, ResetSteps,
       ResetIterCursors, EvalNode, Tick, LeaveClosure, DrawIterId,
       RegisterCursor, IterNext

\* Two closure calls never share a namespace.
LEMMA CallsDistinctStep == IInv /\ [Next]_vars => CallsDistinct'
  <1> SUFFICES ASSUME IInv, [Next]_vars PROVE CallsDistinct'
    OBVIOUS
  <1>1. /\ call \in [Threads -> [ns : Keys, act : 0..MaxActs]]
        /\ closure_calls \in 0..MaxActs
    BY DEF IInv, TypeOK
  <1>2. CallsDistinct
    BY DEF IInv, CacheInv
  <1>3. CASE UNCHANGED <<call, closure_calls>>
    BY <1>2, <1>3 DEF CallsDistinct
  <1>4. ASSUME NEW t \in Threads, Reenter(t) PROVE CallsDistinct'
    BY <1>1, <1>2, <1>4 DEF Reenter, CallsDistinct
  <1>5. ASSUME NEW t \in Threads, EvalNode(t) PROVE CallsDistinct'
    BY <1>1, <1>2, <1>5 DEF EvalNode, CallsDistinct, Abort
  <1>6. ASSUME NEW t \in Threads, NEW n \in TickSizes, Tick(t, n) PROVE CallsDistinct'
    BY SMTT(60), <1>1, <1>2, <1>6 DEF Tick, CallsDistinct, Abort
  <1>7. ASSUME NEW t \in Threads, EnterClosure(t) PROVE CallsDistinct'
    BY <1>1, <1>2, <1>7 DEF EnterClosure, CallsDistinct
  <1>8. ASSUME NEW t \in Threads, LeaveClosure(t) PROVE CallsDistinct'
    BY SMTT(60), <1>1, <1>2, <1>8 DEF LeaveClosure, CallsDistinct
  <1>9. QED
    BY ZenonT(60), <1>3, <1>4, <1>5, <1>6, <1>7, <1>8 DEF Next, RunStep, vars,
       EnterTopLevel, Claim, Wait, SpuriousWake, Return, DropClear, DropNotify,
       ResetSteps, ResetPathCache, ResetIterCursors, CacheReference, DrawIterId,
       RegisterCursor, IterNext

\* A closure call only ever finds its own values.
LEMMA CallsOwnStep == IInv /\ [Next]_vars => CallsOwn'
  <1> SUFFICES ASSUME IInv, [Next]_vars PROVE CallsOwn'
    OBVIOUS
  <1>1. /\ call \in [Threads -> [ns : Keys, act : 0..MaxActs]]
        /\ cache \in [Keys -> 0..MaxActs]
        /\ closure_calls \in 0..MaxActs
        /\ run \in [Threads -> 0..MaxActs]
        /\ acts \in 0..MaxActs
    BY Zenon DEF IInv, TypeOK
  <1>2. CallsOwn /\ CallsDistinct /\ FreshEmpty
    BY DEF IInv, CacheInv
  <1>3. CASE UNCHANGED <<call, cache>>
    BY <1>2, <1>3 DEF CallsOwn
  <1>4. ASSUME NEW t \in Threads, Reenter(t) PROVE CallsOwn'
    BY <1>1, <1>2, <1>4 DEF Reenter, CallsOwn
  <1>5. ASSUME NEW t \in Threads, ResetPathCache(t) PROVE CallsOwn'
    BY <1>1, <1>2, <1>5 DEF ResetPathCache, CallsOwn
  <1>6. ASSUME NEW t \in Threads, EvalNode(t) PROVE CallsOwn'
    BY Zenon, <1>1, <1>2, <1>6 DEF EvalNode, CallsOwn, Abort
  <1>7. ASSUME NEW t \in Threads, NEW n \in TickSizes, Tick(t, n) PROVE CallsOwn'
    BY ZenonT(60), <1>1, <1>2, <1>7 DEF Tick, CallsOwn, Abort
  <1>8. ASSUME NEW t \in Threads, EnterClosure(t) PROVE CallsOwn'
    <2>1. closure_calls + 1 \in Keys /\ cache[closure_calls + 1] = 0
      BY SMTT(60), <1>1, <1>2, <1>8 DEF EnterClosure, FreshEmpty
    <2>2. call'[t] = [ns |-> closure_calls + 1, act |-> acts + 1]
      BY <1>1, <1>8 DEF EnterClosure
    <2>3. cache' = cache /\ \A u \in Threads : u # t => call'[u] = call[u]
      BY <1>1, <1>8 DEF EnterClosure
    <2>4. QED
      BY <1>2, <2>1, <2>2, <2>3 DEF CallsOwn
  <1>9. ASSUME NEW t \in Threads, LeaveClosure(t) PROVE CallsOwn'
    BY <1>1, <1>2, <1>9 DEF LeaveClosure, CallsOwn
  <1>10. ASSUME NEW t \in Threads, CacheReference(t) PROVE CallsOwn'
    <2>1. call' = call
      BY <1>10 DEF CacheReference, calls
    <2>2. CASE call[t] # NoCall
      <3>1. cache' = [cache EXCEPT ![call[t].ns] = call[t].act] /\ call[t].ns \in Keys
        BY <1>1, <1>10, <2>2 DEF CacheReference
      <3>2. \A u \in Threads : call[u] # NoCall /\ u # t => call[u].ns # call[t].ns
        BY <1>2, <2>2 DEF CallsDistinct
      <3>3. \A u \in Threads : call[u].ns \in Keys
        BY <1>1
      <3>4. QED
        BY Zenon, <1>1, <1>2, <2>1, <3>1, <3>2, <3>3 DEF CallsOwn
    <2>3. CASE call[t] = NoCall
      <3>1. cache' = [cache EXCEPT ![Root] = run[t]]
        BY <1>1, <1>10, <2>3 DEF CacheReference
      <3>2. \A u \in Threads : call[u] # NoCall => call[u].ns # Root /\ call[u].ns \in Keys
        BY SMTT(60), <1>1, <1>2 DEF CallsDistinct
      <3>3. QED
        BY Zenon, <1>1, <1>2, <2>1, <3>1, <3>2 DEF CallsOwn
    <2>4. QED
      BY <2>2, <2>3
  <1>11. QED
    BY ZenonT(60), <1>3, <1>4, <1>5, <1>6, <1>7, <1>8, <1>9, <1>10 DEF Next, RunStep, vars,
       EnterTopLevel, Claim, Wait, SpuriousWake, Return, DropClear, DropNotify,
       ResetSteps, ResetIterCursors, DrawIterId, RegisterCursor, IterNext

\* The root namespace holds values of the active run.
LEMMA RootOwnStep == IInv /\ [Next]_vars => RootOwn'
  <1> SUFFICES ASSUME IInv, [Next]_vars PROVE RootOwn'
    OBVIOUS
  <1>1. /\ pc \in [Threads -> Places]
        /\ cache \in [Keys -> 0..MaxActs]
        /\ run \in [Threads -> 0..MaxActs]
        /\ call \in [Threads -> [ns : Keys, act : 0..MaxActs]]
        /\ closure_calls \in 0..MaxActs
    BY Zenon DEF IInv, TypeOK
  <1>2. RootOwn /\ CallsDistinct /\ SlotOwned
    BY DEF IInv, SlotInv, CacheInv
  <1>3. CASE UNCHANGED <<pc, cache, run>>
    BY <1>2, <1>3 DEF RootOwn
  <1>4. ASSUME NEW t \in Threads, EnterTopLevel(t) PROVE RootOwn'
    BY <1>1, <1>2, <1>4 DEF EnterTopLevel, RootOwn
  <1>5. ASSUME NEW t \in Threads, Claim(t) PROVE RootOwn'
    BY <1>1, <1>2, <1>5 DEF Claim, RootOwn
  <1>6. ASSUME NEW t \in Threads, Wait(t) PROVE RootOwn'
    BY <1>1, <1>2, <1>6 DEF Wait, RootOwn
  <1>7. ASSUME NEW t \in Threads, SpuriousWake(t) PROVE RootOwn'
    BY <1>1, <1>2, <1>7 DEF SpuriousWake, RootOwn
  <1>8. ASSUME NEW t \in Threads, Reenter(t) PROVE RootOwn'
    BY <1>1, <1>2, <1>8 DEF Reenter, RootOwn
  <1>9. ASSUME NEW t \in Threads, Return(t) PROVE RootOwn'
    BY <1>1, <1>2, <1>9 DEF Return, RootOwn
  <1>10. ASSUME NEW t \in Threads, DropClear(t) PROVE RootOwn'
    BY <1>1, <1>2, <1>10 DEF DropClear, RootOwn
  <1>11. ASSUME NEW t \in Threads, DropNotify(t) PROVE RootOwn'
    BY <1>1, <1>2, <1>11 DEF DropNotify, RootOwn
  <1>12. ASSUME NEW t \in Threads, ResetSteps(t) PROVE RootOwn'
    BY <1>1, <1>2, <1>12 DEF ResetSteps, RootOwn
  <1>13. ASSUME NEW t \in Threads, ResetPathCache(t) PROVE RootOwn'
    BY <1>1, <1>2, <1>13 DEF ResetPathCache, RootOwn, SlotOwned
  <1>14. ASSUME NEW t \in Threads, ResetIterCursors(t) PROVE RootOwn'
    BY <1>1, <1>2, <1>14 DEF ResetIterCursors, RootOwn
  <1>15. ASSUME NEW t \in Threads, EvalNode(t) PROVE RootOwn'
    BY Zenon, <1>1, <1>2, <1>15 DEF EvalNode, RootOwn, Abort
  <1>16. ASSUME NEW t \in Threads, NEW n \in TickSizes, Tick(t, n) PROVE RootOwn'
    BY ZenonT(60), <1>1, <1>2, <1>16 DEF Tick, RootOwn, Abort
  <1>17. ASSUME NEW t \in Threads, CacheReference(t) PROVE RootOwn'
    <2>1. pc' = pc /\ run' = run
      BY <1>17 DEF CacheReference
    <2>2. CASE call[t] # NoCall
      <3>1. cache' = [cache EXCEPT ![call[t].ns] = call[t].act] /\ call[t].ns # Root
        BY <1>1, <1>2, <1>17, <2>2 DEF CacheReference, CallsDistinct
      <3>2. Root \in Keys
        OBVIOUS
      <3>3. cache'[Root] = cache[Root]
        BY Zenon, <1>1, <3>1, <3>2
      <3>4. QED
        BY SMTT(60), <1>2, <2>1, <3>3 DEF RootOwn
    <2>3. CASE call[t] = NoCall
      <3>1. cache'[Root] = run[t] /\ pc[t] = "body"
        BY <1>1, <1>17, <2>3 DEF CacheReference, Evaluating
      <3>2. \A u \in Threads : pc[u] \in {"reset_iters", "body"} => u = t
        BY <1>2, <3>1 DEF SlotOwned
      <3>3. QED
        BY <2>1, <3>1, <3>2 DEF RootOwn
    <2>4. QED
      BY <2>2, <2>3
  <1>18. QED
    BY SMTT(60), <1>3, <1>4, <1>5, <1>6, <1>7, <1>8, <1>9, <1>10, <1>11, <1>12, <1>13,
       <1>14, <1>15, <1>16, <1>17 DEF Next, RunStep, vars, EnterClosure,
       LeaveClosure, DrawIterId, RegisterCursor, IterNext

\* No closure call is open while its thread claims, waits or resets.
LEMMA CallPlacesStep == IInv /\ [Next]_vars => CallPlaces'
  <1> SUFFICES ASSUME IInv, [Next]_vars PROVE CallPlaces'
    OBVIOUS
  <1>1. /\ pc \in [Threads -> Places]
        /\ call \in [Threads -> [ns : Keys, act : 0..MaxActs]]
    BY Zenon DEF IInv, TypeOK
  <1>2. CallPlaces
    BY DEF IInv, CacheInv
  <1>3. CASE UNCHANGED <<pc, call>>
    BY <1>2, <1>3 DEF CallPlaces
  <1>4. ASSUME NEW t \in Threads, EnterTopLevel(t) PROVE CallPlaces'
    BY <1>1, <1>2, <1>4 DEF EnterTopLevel, CallPlaces
  <1>5. ASSUME NEW t \in Threads, Claim(t) PROVE CallPlaces'
    BY <1>1, <1>2, <1>5 DEF Claim, CallPlaces
  <1>6. ASSUME NEW t \in Threads, Wait(t) PROVE CallPlaces'
    BY <1>1, <1>2, <1>6 DEF Wait, CallPlaces
  <1>7. ASSUME NEW t \in Threads, SpuriousWake(t) PROVE CallPlaces'
    BY <1>1, <1>2, <1>7 DEF SpuriousWake, CallPlaces
  <1>8. ASSUME NEW t \in Threads, Reenter(t) PROVE CallPlaces'
    BY <1>1, <1>2, <1>8 DEF Reenter, CallPlaces
  <1>9. ASSUME NEW t \in Threads, Return(t) PROVE CallPlaces'
    BY <1>1, <1>2, <1>9 DEF Return, CallPlaces
  <1>10. ASSUME NEW t \in Threads, DropClear(t) PROVE CallPlaces'
    BY <1>1, <1>2, <1>10 DEF DropClear, CallPlaces
  <1>11. ASSUME NEW t \in Threads, DropNotify(t) PROVE CallPlaces'
    BY <1>1, <1>2, <1>11 DEF DropNotify, CallPlaces
  <1>12. ASSUME NEW t \in Threads, ResetSteps(t) PROVE CallPlaces'
    BY <1>1, <1>2, <1>12 DEF ResetSteps, CallPlaces
  <1>13. ASSUME NEW t \in Threads, ResetPathCache(t) PROVE CallPlaces'
    BY <1>1, <1>2, <1>13 DEF ResetPathCache, CallPlaces
  <1>14. ASSUME NEW t \in Threads, ResetIterCursors(t) PROVE CallPlaces'
    BY <1>1, <1>2, <1>14 DEF ResetIterCursors, CallPlaces
  <1>15. ASSUME NEW t \in Threads, EvalNode(t) PROVE CallPlaces'
    BY <1>1, <1>2, <1>15 DEF EvalNode, CallPlaces, Abort
  <1>16. ASSUME NEW t \in Threads, NEW n \in TickSizes, Tick(t, n) PROVE CallPlaces'
    BY <1>1, <1>2, <1>16 DEF Tick, CallPlaces, Abort
  <1>17. ASSUME NEW t \in Threads, EnterClosure(t) PROVE CallPlaces'
    BY <1>1, <1>2, <1>17 DEF EnterClosure, CallPlaces
  <1>18. ASSUME NEW t \in Threads, LeaveClosure(t) PROVE CallPlaces'
    BY SMTT(60), <1>1, <1>2, <1>18 DEF LeaveClosure, CallPlaces
  <1>19. QED
    BY ZenonT(60), <1>3, <1>4, <1>5, <1>6, <1>7, <1>8, <1>9, <1>10, <1>11, <1>12, <1>13,
       <1>14, <1>15, <1>16, <1>17, <1>18 DEF Next, RunStep, vars,
       CacheReference, DrawIterId, RegisterCursor, IterNext

\* A live cursor counts what was handed out.
LEMMA LiveCursorsStep == IInv /\ [Next]_vars => LiveCursors'
  <1> SUFFICES ASSUME IInv, [Next]_vars PROVE LiveCursors'
    OBVIOUS
  <1>1. /\ cursors \in [IterIds -> 0..NoCursor]
        /\ iter_ids \in 0..MaxIters
        /\ cleared \subseteq IterIds
        /\ yields \in [IterIds -> 0..IterLen]
        /\ minting \in [Threads -> IterIds \cup {NoIter}]
    BY Zenon DEF IInv, TypeOK
  <1>2. LiveCursors /\ MintedIds
    BY DEF IInv, IterInv
  <1>3. CASE UNCHANGED <<cursors, iter_ids, cleared, yields>>
    BY <1>2, <1>3 DEF LiveCursors
  <1>4. ASSUME NEW t \in Threads, ResetIterCursors(t) PROVE LiveCursors'
    BY <1>1, <1>2, <1>4 DEF ResetIterCursors, LiveCursors
  <1>5. ASSUME NEW t \in Threads, DrawIterId(t) PROVE LiveCursors'
    BY <1>1, <1>2, <1>5 DEF DrawIterId, LiveCursors
  <1>6. ASSUME NEW t \in Threads, RegisterCursor(t) PROVE LiveCursors'
    BY SMTT(60), <1>1, <1>2, <1>6 DEF RegisterCursor, LiveCursors, MintedIds
  <1>7. ASSUME NEW t \in Threads, NEW i \in IterIds, IterNext(t, i) PROVE LiveCursors'
    <2>1. cursors[i] \in Nat /\ cursors[i] # NoCursor
      BY <1>1, <1>7 DEF IterNext
    <2>2. i < iter_ids /\ i \notin cleared /\ cursors[i] = yields[i]
      BY <1>2, <2>1 DEF LiveCursors
    <2>3. \A j \in IterIds : IF j = i THEN cursors'[j] = cursors[j] + 1 /\ yields'[j] = yields[j] + 1
                                      ELSE cursors'[j] = cursors[j] /\ yields'[j] = yields[j]
      BY <1>1, <1>7 DEF IterNext
    <2>4. iter_ids' = iter_ids /\ cleared' = cleared
      BY SMTT(60), <1>7 DEF IterNext
    <2>5. QED
      BY <1>2, <2>1, <2>2, <2>3, <2>4 DEF LiveCursors
  <1>8. QED
    BY ZenonT(60), <1>3, <1>4, <1>5, <1>6, <1>7 DEF Next, RunStep, vars, EnterTopLevel,
       Claim, Wait, SpuriousWake, Reenter, Return, DropClear, DropNotify,
       ResetSteps, ResetPathCache, EvalNode, Tick, EnterClosure, LeaveClosure,
       CacheReference

\* Nothing is known of an id that was never drawn.
LEMMA UndrawnIdsStep == IInv /\ [Next]_vars => UndrawnIds'
  <1> SUFFICES ASSUME IInv, [Next]_vars PROVE UndrawnIds'
    OBVIOUS
  <1>1. /\ cursors \in [IterIds -> 0..NoCursor]
        /\ iter_ids \in 0..MaxIters
        /\ cleared \subseteq IterIds
        /\ yields \in [IterIds -> 0..IterLen]
        /\ minting \in [Threads -> IterIds \cup {NoIter}]
    BY Zenon DEF IInv, TypeOK
  <1>2. LiveCursors /\ UndrawnIds /\ MintedIds
    BY DEF IInv, IterInv
  <1>3. CASE UNCHANGED <<cursors, iter_ids, cleared, yields>>
    BY <1>2, <1>3 DEF UndrawnIds
  <1>4. ASSUME NEW t \in Threads, ResetIterCursors(t) PROVE UndrawnIds'
    BY <1>1, <1>2, <1>4 DEF ResetIterCursors, UndrawnIds
  <1>5. ASSUME NEW t \in Threads, DrawIterId(t) PROVE UndrawnIds'
    BY <1>1, <1>2, <1>5 DEF DrawIterId, UndrawnIds
  <1>6. ASSUME NEW t \in Threads, RegisterCursor(t) PROVE UndrawnIds'
    BY <1>1, <1>2, <1>6 DEF RegisterCursor, UndrawnIds, MintedIds
  <1>7. ASSUME NEW t \in Threads, NEW i \in IterIds, IterNext(t, i) PROVE UndrawnIds'
    BY SMTT(60), <1>1, <1>2, <1>7 DEF IterNext, UndrawnIds
  <1>8. QED
    BY Zenon, <1>3, <1>4, <1>5, <1>6, <1>7 DEF Next, RunStep, vars, EnterTopLevel,
       Claim, Wait, SpuriousWake, Reenter, Return, DropClear, DropNotify,
       ResetSteps, ResetPathCache, EvalNode, Tick, EnterClosure, LeaveClosure,
       CacheReference

\* An id between draw and registration belongs to one thread.
LEMMA MintedIdsStep == IInv /\ [Next]_vars => MintedIds'
  <1> SUFFICES ASSUME IInv, [Next]_vars PROVE MintedIds'
    OBVIOUS
  <1>1. /\ minting \in [Threads -> IterIds \cup {NoIter}]
        /\ iter_ids \in 0..MaxIters
        /\ cleared \subseteq IterIds
        /\ cursors \in [IterIds -> 0..NoCursor]
        /\ yields \in [IterIds -> 0..IterLen]
    BY Zenon DEF IInv, TypeOK
  <1>2. MintedIds /\ UndrawnIds
    BY DEF IInv, IterInv
  <1>3. CASE UNCHANGED <<minting, iter_ids, cleared, cursors, yields>>
    BY <1>2, <1>3 DEF MintedIds
  <1>4. ASSUME NEW t \in Threads, ResetIterCursors(t) PROVE MintedIds'
    BY SMTT(60), <1>1, <1>2, <1>4 DEF ResetIterCursors, MintedIds
  <1>5. ASSUME NEW t \in Threads, DrawIterId(t) PROVE MintedIds'
    BY SMTT(60), <1>1, <1>2, <1>5 DEF DrawIterId, MintedIds, UndrawnIds
  <1>6. ASSUME NEW t \in Threads, RegisterCursor(t) PROVE MintedIds'
    BY <1>1, <1>2, <1>6 DEF RegisterCursor, MintedIds
  <1>7. ASSUME NEW t \in Threads, NEW i \in IterIds, IterNext(t, i) PROVE MintedIds'
    BY SMTT(60), <1>1, <1>2, <1>7 DEF IterNext, MintedIds
  <1>8. QED
    BY ZenonT(60), <1>3, <1>4, <1>5, <1>6, <1>7 DEF Next, RunStep, vars, EnterTopLevel,
       Claim, Wait, SpuriousWake, Reenter, Return, DropClear, DropNotify,
       ResetSteps, ResetPathCache, EvalNode, Tick, EnterClosure, LeaveClosure,
       CacheReference

-----------------------------------------------------------------------------
\* The invariant is inductive, so it holds of every reachable state.
THEOREM Invariance == Spec => []IInv
  <1>1. IInv /\ [Next]_vars => IInv'
    BY TypeStep, SlotOwnedStep, SpentCountedStep, FreshEmptyStep, CallsDistinctStep,
       CallsOwnStep, RootOwnStep, CallPlacesStep, LiveCursorsStep, UndrawnIdsStep,
       MintedIdsStep DEF IInv, SlotInv, CacheInv, IterInv
  <1>2. QED
    BY InitIInv, <1>1, PTL DEF Spec

\* Type correctness of the Context's shared state: no cursor passes the end of
\* its list, no run is charged more than max_steps.
THEOREM TypeCorrect == Spec => []TypeOK
  BY Invariance, PTL DEF IInv

\* Serialisation of eval_root and run_main by begin_top_level_run.
THEOREM MutualExclusion == Spec => []RunsExcludeEachOther
  <1>1. IInv => RunsExcludeEachOther
    BY DEF IInv, SlotInv, SlotOwned, RunsExcludeEachOther
  <1>2. QED
    BY Invariance, <1>1, PTL

\* The step budget of a run cannot be reset from outside the run.
THEOREM BudgetHolds == Spec => []BudgetCannotBeEscaped
  <1>1. IInv => BudgetCannotBeEscaped
    <2> SUFFICES ASSUME IInv, NEW t \in Threads,
                        pc[t] \in {"reset_cache", "reset_iters", "body", "drop"}
                 PROVE  spent[t] <= step_counter /\ spent[t] <= MaxSteps
      BY DEF BudgetCannotBeEscaped
    <2>1. spent[t] <= step_counter
      BY DEF IInv, SlotInv, SpentCounted
    <2>2. spent[t] \in 0..MaxSteps
      BY SMTT(60) DEF IInv, TypeOK
    <2>3. QED
      BY <2>1, <2>2
  <1>2. QED
    BY Invariance, <1>1, PTL

\* A path_cache hit is a value of the same run or the same closure call.
THEOREM CacheIsolation == Spec => []CacheHitsAreOwn
  <1>1. IInv => CacheHitsAreOwn
    BY DEF IInv, CacheInv, CallsOwn, RootOwn, CacheHitsAreOwn
  <1>2. QED
    BY Invariance, <1>1, PTL

\* Iterators that outlive their run stay exhausted.
THEOREM IteratorsOnce == Spec => []IteratorsDeliverOnce
  <1>1. IInv => IteratorsDeliverOnce
    BY DEF IInv, IterInv, LiveCursors, IteratorsDeliverOnce
  <1>2. QED
    BY Invariance, <1>1, PTL

-----------------------------------------------------------------------------
\* A charge of the active run spends budget of the abstract run, a charge of
\* a closure outside any run is invisible.
LEMMA ChargeRefines ==
  ASSUME IInv, NEW t \in Threads, NEW n \in Nat \ {0}, UNCHANGED slot,
         step_counter + n <= MaxSteps,
         spent' = IF pc[t] = "body" THEN [spent EXCEPT ![t] = @ + n] ELSE spent
  PROVE  [Serial!Next]_(Serial!vars)
  <1>1. /\ spent \in [Threads -> 0..MaxSteps] /\ step_counter \in Nat
        /\ SlotOwned /\ SpentCounted
    BY DEF IInv, TypeOK, SlotInv
  <1>2. CASE pc[t] = "body"
    <2>1. slot = t /\ slot # NoThread /\ spent[t] <= step_counter
      BY <1>1, <1>2 DEF SlotOwned, SpentCounted
    <2>2. spent[t] + n <= MaxSteps /\ n \in 1..MaxSteps
      BY <1>1, <2>1
    <2>3. spent'[t] = spent[t] + n
      BY <1>1, <1>2
    <2>4. Serial!Spend(n)
      BY <2>1, <2>2, <2>3 DEF Serial!Spend
    <2>5. QED
      BY <2>2, <2>4 DEF Serial!Next
  <1>3. CASE pc[t] # "body"
    BY <1>3 DEF Serial!vars
  <1>4. QED
    BY <1>2, <1>3

\* The run protocol implements serial runs with a budget each.
THEOREM Refinement == Spec => RefinesSerialRuns
  <1>1. Init => Serial!Init
    BY SMTT(60) DEF Init, Serial!Init
  <1>2. IInv /\ [Next]_vars => [Serial!Next]_(Serial!vars)
    <2> SUFFICES ASSUME IInv, [Next]_vars PROVE [Serial!Next]_(Serial!vars)
      OBVIOUS
    <2>1. CASE UNCHANGED <<slot, spent>>
      BY SMTT(60), <2>1 DEF Serial!vars
    <2>2. ASSUME NEW t \in Threads, Claim(t) PROVE Serial!Start(t)
      BY <2>2 DEF IInv, TypeOK, Claim, Serial!Start
    <2>3. ASSUME NEW t \in Threads, DropClear(t) PROVE Serial!End
      BY <2>3 DEF IInv, SlotInv, SlotOwned, DropClear, Serial!End
    <2>4. ASSUME NEW t \in Threads, EvalNode(t) PROVE [Serial!Next]_(Serial!vars)
      <3>1. CASE Abort(t)
        BY <2>1, <2>4, <3>1 DEF EvalNode, Abort
      <3>2. CASE /\ step_counter < MaxSteps
                 /\ spent' = IF pc[t] = "body" THEN [spent EXCEPT ![t] = @ + 1] ELSE spent
        <4>1. step_counter + 1 <= MaxSteps /\ 1 \in Nat \ {0}
          BY <3>2 DEF IInv, TypeOK
        <4>2. QED
          BY <2>4, <3>2, <4>1, ChargeRefines DEF EvalNode
      <3>3. QED
        BY <2>4, <3>1, <3>2 DEF EvalNode
    <2>5. ASSUME NEW t \in Threads, NEW n \in TickSizes, Tick(t, n)
          PROVE  [Serial!Next]_(Serial!vars)
      <3>1. CASE Abort(t)
        BY <2>1, <2>5, <3>1 DEF Tick, Abort
      <3>2. CASE /\ step_counter + n <= MaxSteps
                 /\ spent' = IF pc[t] = "body" THEN [spent EXCEPT ![t] = @ + n] ELSE spent
        <4>1. n \in Nat \ {0}
          OBVIOUS
        <4>2. QED
          BY <2>5, <3>2, <4>1, ChargeRefines DEF Tick
      <3>3. QED
        BY <2>5, <3>1, <3>2 DEF Tick
    <2>6. QED
      BY ZenonT(60), <2>1, <2>2, <2>3, <2>4, <2>5
      DEF Next, RunStep, vars, Serial!Next, EnterTopLevel, Wait, SpuriousWake, Reenter,
          Return, DropNotify, ResetSteps, ResetPathCache, ResetIterCursors, EnterClosure,
          LeaveClosure, CacheReference, DrawIterId, RegisterCursor, IterNext
  <1>3. QED
    BY Invariance, <1>1, <1>2, PTL DEF Spec, RefinesSerialRuns, Serial!Spec
=============================================================================
