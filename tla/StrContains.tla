---------------------------- MODULE StrContains ----------------------------
(***************************************************************************)
(* The inline cache of string containment in compiled programs             *)
(* (relon-codegen-llvm/src/str_helpers.rs, and its copy in                 *)
(* relon-rs-shims/src/shims.rs).                                           *)
(*                                                                         *)
(* One slot for the whole process holds the addresses of the last haystack *)
(* and needle and the last result, in three atomics that are loaded and    *)
(* stored one at a time.  An address is a place in the arena of a thread:  *)
(* every dispatch on the thread lays its constants and its input out in    *)
(* the same pooled arena, so the addresses repeat and the records at them  *)
(* need not.                                                               *)
(*                                                                         *)
(* The atomics are Relaxed.  The interleavings here are the sequentially   *)
(* consistent ones, which every target has; a weaker target has more.      *)
(***************************************************************************)
EXTENDS Integers, Sequences

CONSTANTS Threads,
          Places,        \* offsets of string records in an arena
          Texts,         \* what a record may hold: sequences of bytes
          MaxDispatches, \* bound: dispatches per thread
          MaxCalls       \* bound: calls per dispatch

VARIABLES
    last_haystack, last_needle, last_result, \* the slot
    arena,      \* per thread: the record at each place
    pc,
    haystack, needle, \* per thread: the places its call is about
    result,     \* per thread: what its call computed or was given
    dispatches, calls,
    \* History.
    overlapped, \* two calls have been under way at once
    rewritten   \* a dispatch has put another text where a record was

slot   == <<last_haystack, last_needle, last_result>>
vars   == <<slot, arena, pc, haystack, needle, result, dispatches, calls, overlapped, rewritten>>

Null      == <<"null">>
Addresses == Threads \X Places
NoResult  == -1

Haystack(t) == <<t, haystack[t]>>
Needle(t)   == <<t, needle[t]>>
InCall(t)   == pc[t] \notin {"outside", "program", "answered"}

Goto(t, label) == pc' = [pc EXCEPT ![t] = label]

-----------------------------------------------------------------------------
\* What str::contains means.
OccursIn(n, h) == \E i \in 0..(Len(h) - Len(n)) : SubSeq(h, i + 1, i + Len(n)) = n

\* The two short cuts, the scan for a single byte, and the general search
\* (that of the standard library).  Records hold valid UTF-8.
compute_contains(h, n) ==
    LET Bit(found) == IF found THEN 1 ELSE 0
    IN  CASE n = <<>>           -> 1
          [] Len(n) > Len(h)    -> 0
          [] n # <<>> /\ Len(n) <= Len(h) /\ Len(n) = 1
                                -> Bit(\E i \in DOMAIN h : h[i] = n[1])
          [] OTHER              -> Bit(OccursIn(n, h))

-----------------------------------------------------------------------------
Init ==
    /\ last_haystack = Null
    /\ last_needle = Null
    /\ last_result = 0
    /\ arena \in [Threads -> {[p \in Places |-> <<>>]}]
    /\ pc = [t \in Threads |-> "outside"]
    /\ haystack \in [Threads -> {CHOOSE p \in Places : TRUE}]
    /\ needle = haystack
    /\ result = [t \in Threads |-> NoResult]
    /\ dispatches = [t \in Threads |-> 0]
    /\ calls = [t \in Threads |-> 0]
    /\ overlapped = FALSE
    /\ rewritten = FALSE

\* run_main_buffer up to the entry: constants and input go into the pooled
\* arena of the thread.
Dispatch(t) ==
    /\ pc[t] = "outside"
    /\ dispatches[t] < MaxDispatches
    /\ \E texts \in [Places -> Texts] :
          /\ arena' = [arena EXCEPT ![t] = texts]
          /\ rewritten' = (rewritten \/ (dispatches[t] > 0 /\ texts # arena[t]))
    /\ dispatches' = [dispatches EXCEPT ![t] = @ + 1]
    /\ calls' = [calls EXCEPT ![t] = 0]
    /\ Goto(t, "program")
    /\ UNCHANGED <<slot, haystack, needle, result, overlapped>>

\* The program calls the shim on two records of its arena.
Call(t) ==
    /\ pc[t] = "program"
    /\ calls[t] < MaxCalls
    /\ calls' = [calls EXCEPT ![t] = @ + 1]
    /\ \E h, n \in Places : /\ haystack' = [haystack EXCEPT ![t] = h]
                            /\ needle' = [needle EXCEPT ![t] = n]
    /\ overlapped' = (overlapped \/ \E u \in Threads \ {t} : InCall(u))
    /\ Goto(t, "load_haystack")
    /\ UNCHANGED <<slot, arena, result, dispatches, rewritten>>

LoadHaystack(t) ==
    /\ pc[t] = "load_haystack"
    /\ Goto(t, IF last_haystack = Haystack(t) THEN "load_needle" ELSE "slow")
    /\ UNCHANGED <<slot, arena, haystack, needle, result, dispatches, calls, overlapped, rewritten>>

LoadNeedle(t) ==
    /\ pc[t] = "load_needle"
    /\ Goto(t, IF last_needle = Needle(t) THEN "load_result" ELSE "slow")
    /\ UNCHANGED <<slot, arena, haystack, needle, result, dispatches, calls, overlapped, rewritten>>

LoadResult(t) ==
    /\ pc[t] = "load_result"
    /\ result' = [result EXCEPT ![t] = last_result]
    /\ Goto(t, "answered")
    /\ UNCHANGED <<slot, arena, haystack, needle, dispatches, calls, overlapped, rewritten>>

\* str_contains_arena_slow: only this thread writes its arena, so reading the
\* two records and the scan are one step.
Compute(t) ==
    /\ pc[t] = "slow"
    /\ result' = [result EXCEPT ![t] =
                     compute_contains(arena[t][haystack[t]], arena[t][needle[t]])]
    /\ Goto(t, "store_haystack")
    /\ UNCHANGED <<slot, arena, haystack, needle, dispatches, calls, overlapped, rewritten>>

StoreHaystack(t) ==
    /\ pc[t] = "store_haystack"
    /\ last_haystack' = Haystack(t)
    /\ Goto(t, "store_needle")
    /\ UNCHANGED <<last_needle, last_result, arena, haystack, needle, result, dispatches, calls,
                   overlapped, rewritten>>

StoreNeedle(t) ==
    /\ pc[t] = "store_needle"
    /\ last_needle' = Needle(t)
    /\ Goto(t, "store_result")
    /\ UNCHANGED <<last_haystack, last_result, arena, haystack, needle, result, dispatches, calls,
                   overlapped, rewritten>>

StoreResult(t) ==
    /\ pc[t] = "store_result"
    /\ last_result' = result[t]
    /\ Goto(t, "answered")
    /\ UNCHANGED <<last_haystack, last_needle, arena, haystack, needle, result, dispatches, calls,
                   overlapped, rewritten>>

\* The shim has returned and the program goes on, or its dispatch ends.
Proceed(t) ==
    /\ pc[t] \in {"answered", "program"}
    /\ \/ pc[t] = "answered" /\ Goto(t, "program")
       \/ Goto(t, "outside")
    /\ result' = [result EXCEPT ![t] = NoResult]
    /\ UNCHANGED <<slot, arena, haystack, needle, dispatches, calls, overlapped, rewritten>>

Next ==
    \E t \in Threads :
       \/ Dispatch(t) \/ Call(t)
       \/ LoadHaystack(t) \/ LoadNeedle(t) \/ LoadResult(t)
       \/ Compute(t) \/ StoreHaystack(t) \/ StoreNeedle(t) \/ StoreResult(t)
       \/ Proceed(t)

Spec == Init /\ [][Next]_vars

-----------------------------------------------------------------------------
\* Types: in particular the slot and every answer are 0 or 1, the i32 the
\* emitted code compares with zero.
TypeOK ==
    /\ last_haystack \in Addresses \cup {Null}
    /\ last_needle \in Addresses \cup {Null}
    /\ last_result \in {0, 1}
    /\ arena \in [Threads -> [Places -> Texts \cup {<<>>}]]
    /\ pc \in [Threads -> {"outside", "program", "load_haystack", "load_needle", "load_result",
                           "slow", "store_haystack", "store_needle", "store_result", "answered"}]
    /\ haystack \in [Threads -> Places]
    /\ needle \in [Threads -> Places]
    /\ result \in [Threads -> {NoResult, 0, 1}]
    /\ dispatches \in [Threads -> 0..MaxDispatches]
    /\ calls \in [Threads -> 0..MaxCalls]
    /\ overlapped \in BOOLEAN
    /\ rewritten \in BOOLEAN

AnswerIsRight(t) ==
    pc[t] = "answered" =>
       (result[t] = 1 <=> OccursIn(arena[t][needle[t]], arena[t][haystack[t]]))

\* "Relaxed atomics are sufficient - a torn (haystack, needle, result)
\* snapshot across threads only triggers extra misses, never a wrong answer."
TornSnapshotsOnlyMiss ==
    ~rewritten => \A t \in Threads : AnswerIsRight(t)

\* "Same pointers -> same arena records -> same contains answer": an answer
\* from the slot is right for the records now at the two addresses.
\* Does not hold once an arena is laid out again.
SamePointersSameAnswer ==
    ~overlapped => \A t \in Threads : AnswerIsRight(t)
=============================================================================
