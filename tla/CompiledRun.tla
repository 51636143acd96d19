----------------------------- MODULE CompiledRun -----------------------------
(***************************************************************************)
(* A #main compiled and run.  The program is lowered (Lowering); the host  *)
(* writes the arguments into an arena (AbiBuffer); the code that one of    *)
(* the generators emits (Codegen, CodegenLlvm) runs over it, and the host  *)
(* verifies and reads what is returned (evaluator.rs of                    *)
(* relon-codegen-cranelift and of relon-codegen-llvm).  The arena holds    *)
(* the constants, the input, the output and the scratch region, which a    *)
(* cursor that only moves up hands out.                                    *)
(***************************************************************************)
EXTENDS CompiledCode, TreeWalkEval, StepBudget

CONSTANTS OutFloor,      \* the bytes of the output region: at least this many,
          OutCushion,    \* and this many more
          ScratchSizes   \* the bytes of the scratch region

VARIABLES program,     \* the program of this dispatch
          backend,     \* "cranelift" or "llvm"
          inputs,      \* its arguments
          frames,      \* the activations, the running one first
          mem,         \* the arena
          scratch,     \* scratch_base + scratch_cursor
          out_tail,    \* tail_cursor, relative to the output
          arena_len,   \* arena_len
          ic,          \* the inline cache of the search in strings: <<>>, or the last call
          unaligned,   \* history: a record was copied out from where its type is not aligned
          answer,      \* the value the host has read, <<>> before
          oracle       \* history: what the tree-walking evaluator makes of the program

dispatch == <<program, backend, inputs, budget, arena_len, oracle>>
host == <<step_budget, ic, ticks>>
vars == <<dispatch, host, frames, mem, scratch, out_tail, unaligned, answer, status>>

-----------------------------------------------------------------------------
(* The arena of a dispatch (run_main_buffer) of the code m.                *)
const_data_len(m) == Len(m.pool)

in_ptr(m) == AlignUp(const_data_len(m), 8)

in_bytes(m, llvm, vs) ==
  IF llvm THEN llvm_in_bytes(m.params, vs, in_ptr(m)) ELSE finish_arena_absolute(m.params, vs, in_ptr(m))

(* The other host leaves room for the tail only where a field needs it.    *)
return_needs_tail_region(m) ==
  \E k \in DOMAIN m.returns.fields : m.returns.fields[k].k \notin {"Int", "Float", "Bool", "Unit"}

out_root(m) == root_size(m.returns.fields)

out_cap(m, llvm) ==
  IF llvm THEN AlignUp(Larger(out_root(m), 8) + (IF return_needs_tail_region(m) THEN OutCushion ELSE 0) + 16, 8)
  ELSE AlignUp(Larger(out_root(m), OutFloor) + OutCushion, 8)

(* What the program can see is zero; the scratch is what an earlier        *)
(* dispatch left.                                                          *)
ZeroedTo(a, n) == a \o Blank(n - Len(a), 0)

(* A function that runs: of the library, or the unit of the program.  It   *)
(* owns the memory it was given.  helper: it is a closure of the LLVM      *)
(* generator, or a body in one, which has no way to report a trap.  known: *)
(* the arguments that are closures the generator knows.                    *)
Units(m, llvm) == IF llvm THEN m.programs[program].code[1].llvm ELSE m.programs[program].code[1].cranelift

Library(m, f, llvm) == IF llvm THEN m.llvm[f] ELSE m.cranelift[f]

Body(frame, m) ==
  CASE frame.fn # "" -> Library(m, frame.fn, frame.llvm)
    [] frame.fn = "" /\ frame.unit = 0 -> m.programs[program].code[1].fast
    [] OTHER -> Units(m, frame.llvm)[frame.unit]

Frame(f, unit, llvm, body, args, x) ==
  [fn |-> f, unit |-> unit, llvm |-> llvm, helper |-> FALSE, known |-> <<>>, pc |-> Settled(body, <<1>>),
   args |-> args, lets |-> <<>>, rounds |-> 0, owned |-> {}, x |-> x]

(* The fast entry takes the arguments themselves; it is unit 0. *)
run_main_legacy_i64_fast(m, vs) == [Frame("", 0, TRUE, m.fast, vs, 0) EXCEPT !.helper = TRUE]

run_main_buffer(m, llvm, from, size, out) ==
  [Frame("", 1, llvm, (IF llvm THEN m.llvm ELSE m.cranelift)[1], <<from, size, out, out_cap(m, llvm)>>, 0)
     EXCEPT !.owned = {<<out, out_root(m)>>}]

(* The arena is laid out: the constants, the input, the output and the     *)
(* scratch region, in that order.                                          *)
LayOut(m, llvm, from, bytes, out) ==
  LET base == AlignUp(out + out_cap(m, llvm), 8)
  IN /\ frames = <<IF llvm /\ m.fast # <<>> THEN run_main_legacy_i64_fast(m, inputs)
                   ELSE run_main_buffer(m, llvm, from, Len(bytes), out)>>
     /\ mem = ZeroedTo(ZeroedTo(ZeroedTo(m.pool, from) \o bytes, out), base)
     /\ scratch = base
     /\ \E size \in ScratchSizes : arena_len = base + size
     /\ out_tail = out_root(m)

Prepare(m, llvm, from, bytes) == LayOut(m, llvm, from, bytes, AlignUp(from + Len(bytes), 8))

Dispatch(p) ==
  /\ p.code # <<>>
  /\ backend \in p.backends
  /\ inputs \in p.inputs
  /\ budget \in IF backend = "llvm" THEN p.budgets ELSE {<<>>}
  /\ Prepare(p.code[1], backend = "llvm", in_ptr(p.code[1]), in_bytes(p.code[1], backend = "llvm", inputs))
  /\ oracle = [result |-> run_main(p.main, inputs), clamps |-> p.clamps]

InitOf(m) == \E p \in DOMAIN m.programs : program = p /\ Dispatch(m.programs[p])

Init ==
  /\ InitOf(Linked)
  /\ step_budget = step_budget_to_i64(budget)
  /\ ic = <<>>
  /\ ticks = 0
  /\ unaligned = FALSE
  /\ answer = <<>>
  /\ status = "run"

-----------------------------------------------------------------------------
(* Steps. *)
Top == Head(frames)

(* The parameters of the entry, whose frame is the last. *)
EntryArgs == IF frames[Len(frames)].unit = 0 THEN <<0, 0, 0, 0>> ELSE frames[Len(frames)].args
in_start == EntryArgs[1]
in_end == EntryArgs[1] + EntryArgs[2]
out_start == EntryArgs[3]
out_end == EntryArgs[3] + EntryArgs[4]

Here(m) == At(Body(Top, m), Top.pc)

GoTo(frame, pc, m) == [frame EXCEPT !.pc = Settled(Body(frame, m), pc)]

Assigned(frame, x, v, m) == [GoTo(frame, Behind(frame.pc), m) EXCEPT !.lets = (x :> v) @@ @]

Given(frame, at, size) == [frame EXCEPT !.owned = @ \cup {<<at, size>>}]

Advance(m) == frames' = [frames EXCEPT ![1] = GoTo(@, Behind(@.pc), m)]

Bind(x, v, m) == frames' = [frames EXCEPT ![1] = Assigned(@, x, v, m)]

Stop(kind) ==
  /\ status' = kind
  /\ UNCHANGED <<dispatch, host, frames, mem, scratch, out_tail, unaligned, answer>>

(* A trap that is recorded for the host, or, where that is not possible,   *)
(* ends the process.                                                       *)
Recorded(kind, kinds) == IF Top.llvm /\ (Top.helper \/ kind \notin kinds) THEN "Abort" ELSE kind

Guards == {"NumericOverflow", "DivisionByZero", "BoundsViolation", "ResourceExhausted"}

StopAtGuard(kind) == Stop(Recorded(kind, Guards))

(* A function writes only into memory it was given. *)
Owns(at, size) == \E r \in Top.owned : r[1] <= at /\ at + size <= r[1] + r[2]

(* An operand trapped, or read what nobody wrote. *)
Fault(in) ==
  \E k \in DOMAIN in :
    /\ IsFault(in[k])
    /\ \A j \in 1 .. k - 1 : ~IsFault(in[j])
    /\ IF in[k] = Wild THEN Stop("Wild") ELSE StopAtGuard(FaultKind(in[k]))

SetLet(s, in, m) ==
  /\ s.st = "set"
  /\ Bind(s.x, in[1], m)
  /\ UNCHANGED <<dispatch, host, mem, scratch, out_tail, unaligned, answer, status>>

(* Every way to write. *)
PutBytes(at, bytes, m) ==
  CASE bytes # <<>> /\ ~Owns(at, Len(bytes)) -> Stop("Wild")
    [] bytes # <<>> /\ Owns(at, Len(bytes)) /\ at + Len(bytes) > arena_len -> StopAtGuard("BoundsViolation")
    [] OTHER ->
         /\ mem' = Patched(mem, at, bytes)
         /\ Advance(m)
         /\ UNCHANGED <<dispatch, host, scratch, out_tail, unaligned, answer, status>>

StoreAtAbsolute(s, in, m) ==
  /\ s.st = "store" /\ ~Top.llvm
  /\ PutBytes(in[1], Le(s.w, in[2]), m)

emit_store_at_absolute(s, in, m) ==
  /\ s.st = "store" /\ Top.llvm
  /\ PutBytes(in[1], Le(s.w, in[2]), m)

CopyBytes(in, m) ==
  IF in[3] = 0 \/ IsWritten(mem, in[2], in[3])
  THEN PutBytes(in[1], SubSeq(mem, in[2] + 1, in[2] + in[3]), m)
  ELSE Stop("Wild")

MemcpyAtAbsolute(s, in, m) ==
  /\ s.st = "memcpy" /\ ~Top.llvm
  /\ CopyBytes(in, m)

emit_memcpy_at_absolute(s, in, m) ==
  /\ s.st = "memcpy" /\ Top.llvm
  /\ CopyBytes(in, m)

CopyWithPadding(s, in, m) ==
  /\ s.st = "copy"
  /\ IF ~Owns(in[1], in[3]) THEN Stop("Wild")
     ELSE IF Larger(in[1], in[2]) + in[3] > arena_len THEN StopAtGuard("BoundsViolation")
     ELSE /\ mem' = Patched(mem, in[1], SubSeq(mem \o Blank(in[2] + in[3] - Len(mem), Stale), in[2] + 1, in[2] + in[3]))
          /\ Advance(m)
          /\ unaligned' = (unaligned \/ in[2] % s.align # 0)
          /\ UNCHANGED <<dispatch, host, scratch, out_tail, answer, status>>

(* The helpers of the hosts that spell a float. *)
relon_f64_to_str(s, in, m) ==
  /\ s.st = "f64str" /\ ~Top.llvm
  /\ PutBytes(in[1], Le32(Len(format_f64_display(in[2]))) \o format_f64_display(in[2]), m)

relon_llvm_f64_to_str(s, in, m) ==
  /\ s.st = "f64str" /\ Top.llvm
  /\ PutBytes(in[1], Le32(Len(format_f64_display(in[2]))) \o format_f64_display(in[2]), m)

(* The bump allocator; it does not align. *)
TakeScratch(x, size, m) ==
  IF scratch + size > arena_len
  THEN StopAtGuard("BoundsViolation")
  ELSE /\ scratch' = scratch + size
       /\ frames' = [frames EXCEPT ![1] = Given(Assigned(@, x, scratch, m), scratch, size)]
       /\ UNCHANGED <<dispatch, host, mem, out_tail, unaligned, answer, status>>

AllocScratch(s, in, m) ==
  /\ s.st = "alloc" /\ ~Top.llvm
  /\ TakeScratch(s.x, in[1], m)

emit_alloc_scratch_common(s, in, m) ==
  /\ s.st = "alloc" /\ Top.llvm
  /\ TakeScratch(s.x, in[1], m)

(* The last record of the scratch becomes longer. *)
GrowRecord(s, in, m) ==
  /\ s.st = "grow"
  /\ IF scratch + in[2] > arena_len
     THEN StopAtGuard("BoundsViolation")
     ELSE /\ scratch' = scratch + in[2]
          /\ frames' = [frames EXCEPT ![1] = Given(GoTo(@, Behind(@.pc), m), in[1], scratch + in[2] - in[1])]
          /\ UNCHANGED <<dispatch, host, mem, out_tail, unaligned, answer, status>>

ReadScratchEnd(s, in, m) ==
  /\ s.st = "scratch_end"
  /\ Bind(s.x, scratch, m)
  /\ UNCHANGED <<dispatch, host, mem, scratch, out_tail, unaligned, answer, status>>

(* The tail of the output grows; only the end of the arena limits it: here *)
(* or, with the other generator, when it is written to.                    *)
TakeTail(s, in, m) ==
  LET at == AlignUp(out_tail, s.align)
  IN /\ out_tail' = at + in[1]
     /\ frames' = [frames EXCEPT ![1] = Given(Assigned(@, s.x, at, m), out_start + at, in[1])]
     /\ unaligned' = (unaligned \/ in[2] % 4 # 0)
     /\ UNCHANGED <<dispatch, host, mem, scratch, answer, status>>

emit_tail_alloc(s, in, m) ==
  /\ s.st = "tail" /\ ~Top.llvm
  /\ IF out_start + AlignUp(out_tail, s.align) + in[1] > arena_len THEN Stop("BoundsViolation") ELSE TakeTail(s, in, m)

llvm_emit_tail_alloc(s, in, m) ==
  /\ s.st = "tail" /\ Top.llvm
  /\ TakeTail(s, in, m)

Choose(s, in, m) ==
  /\ s.st = "if"
  /\ LET arm == IF in[1] # 0 THEN 1 ELSE 2
     IN frames' = [frames EXCEPT ![1] = GoTo(@, @.pc \o <<arm, 1>>, m)]
  /\ UNCHANGED <<dispatch, host, mem, scratch, out_tail, unaligned, answer, status>>

(* A branch to the start of a loop passes the deadline guard. *)
Counted(frame, d, m) == [frame EXCEPT !.rounds = @ + Bool(IsLoopLabel(Body(frame, m), frame.pc, d))]

Branch(s, in, m) ==
  /\ s.st \in {"br", "brif"}
  /\ IF s.st = "br" \/ in[1] # 0
     THEN frames' = [frames EXCEPT ![1] = GoTo(Counted(@, s.d, m), LabelOf(Body(@, m), @.pc, s.d), m)]
     ELSE Advance(m)
  /\ UNCHANGED <<dispatch, host, mem, scratch, out_tail, unaligned, answer, status>>

RaiseTrap(s, in, m) ==
  /\ s.st = "trap" /\ ~Top.llvm
  /\ Stop(s.kind)

llvm_emit_trap(s, in, m) ==
  /\ s.st = "trap" /\ Top.llvm
  /\ Stop(Recorded(s.kind, {"TypeMismatch", "NumericOverflow"}))

(* The entry and every round of a loop take a step of the budget; the      *)
(* generator leaves that out where a trap could not be reported.           *)
Tick(s, in, m) ==
  /\ s.st = "tick"
  /\ IF Top.helper
     THEN Advance(m) /\ UNCHANGED <<budget, step_budget, ticks, status>>
     ELSE emit_step_budget_check /\ IF step_budget < 0 THEN UNCHANGED frames ELSE Advance(m)
  /\ UNCHANGED <<dispatch, ic, mem, scratch, out_tail, unaligned, answer>>

(* The search in a string by the host, with a cache of one entry by        *)
(* address.                                                                *)
read_record(at) == SubSeq(mem, at + 5, at + 4 + Load(mem, 4, at))

IsRecord(at) == IsWritten(mem, at, 4) /\ IsWritten(mem, at, 4 + Load(mem, 4, at))

compute_contains(h, n) == Bool(\E i \in 0 .. Len(h) - Len(n) : SubSeq(h, i + 1, i + Len(n)) = n)

ic_hit_slot(haystack, needle) == ic # <<>> /\ ic[1] = haystack /\ ic[2] = needle

relon_llvm_str_contains_arena(s, in, m) ==
  /\ s.st = "contains"
  /\ IF ~(IsRecord(in[1]) /\ IsRecord(in[2])) THEN Stop("Wild")
     ELSE LET result == IF ic_hit_slot(in[1], in[2]) THEN ic[3]
                        ELSE compute_contains(read_record(in[1]), read_record(in[2]))
          IN /\ Bind(s.x, result, m)
             /\ ic' = <<in[1], in[2], result>>
             /\ UNCHANGED <<dispatch, step_budget, ticks, mem, scratch, out_tail, unaligned, answer, status>>

(* A mutant: a call gets the whole budget again. *)
EnterWithNewBudget(frame) ==
  /\ frames' = <<frame>> \o frames
  /\ step_budget' = step_budget_to_i64(budget)
  /\ UNCHANGED <<dispatch, ic, ticks, mem, scratch, out_tail, unaligned, answer, status>>

Enter(frame) ==
  /\ frames' = <<frame>> \o frames
  /\ UNCHANGED <<dispatch, host, mem, scratch, out_tail, unaligned, answer, status>>

(* A body of the library is called with the operands. *)
CallBody(s, in, m) ==
  /\ s.st = "call"
  /\ Enter([Frame(s.f, 0, Top.llvm, Library(m, s.f, Top.llvm), in, s.x)
              EXCEPT !.helper = Top.helper, !.known = IF Top.llvm THEN s.known ELSE <<>>])

(* A closure runs, the place of its captures is the first argument. *)
EnterUnit(index, units, held, args, x) ==
  IF IsFault(index) \/ IsFault(held) \/ index + 1 \notin DOMAIN units
  THEN Stop("Wild")
  ELSE Enter([Frame("", index + 1, Top.llvm, units[index + 1], <<held>> \o args, x) EXCEPT !.helper = Top.llvm])

EnterClosure(index, held, args, x, m) == EnterUnit(index, Units(m, Top.llvm), held, args, x)

(* The handle names the closure and its captures.  The other generator may *)
(* know the argument that the handle is, and the closure with it.          *)
CallTheClosure(s, in, m) ==
  /\ s.st = "closure" /\ ~Top.llvm
  /\ EnterClosure(Load(mem, 4, in[1]), Load(mem, 4, in[1] + 4), Tail(in), s.x, m)

emit_call_closure(s, in, m) ==
  /\ s.st = "closure" /\ Top.llvm
  /\ LET known == s.es[1].op = "arg" /\ s.es[1].n + 1 \in DOMAIN Top.known
         index == IF known THEN Top.known[s.es[1].n + 1] ELSE Load(mem, 4, in[1])
     IN EnterClosure(index, Load(mem, 4, in[1] + 4), Tail(in), s.x, m)

emit_call_closure_direct(s, in, m) ==
  /\ s.st = "direct"
  /\ EnterClosure(s.index, in[1], Tail(in), s.x, m)

-----------------------------------------------------------------------------
(* The host, once the entry has returned (dispatch_with_pooled_arena).     *)
Regions(m) ==
  {<<0, const_data_len(m)>>, <<in_start, in_end>>, <<out_start, out_end>>, <<AlignUp(out_end, 8), arena_len>>}

IsUtf8(s) == LET cps == Chars(s) IN Utf8(cps) = s /\ \A k \in DOMAIN cps : cps[k] \notin 55296 .. 57343

Accepted(t, v) == \A text \in StringsOf(t, v) : IsUtf8(text)

(* A negative result is the place of a list that lies where it is.  A      *)
(* record in it that has a record as a field is refused.                   *)
VerifiedInplace(t, root, regions) ==
  /\ t.k = "List" /\ ~IsInline(t.element)
  /\ verify_pointer_target(mem, t, root, regions, 0)
  /\ t.element.k = "Schema" => IsFlat(t.element.fields)

decode_inplace_return(t, root, regions) ==
  IF VerifiedInplace(t, root, regions) /\ Accepted(t, read_inplace(mem, t.element, root))
  THEN <<read_inplace(mem, t.element, root)>> ELSE <<>>

AcceptedRecord(fields, v) == IF Accepted(SchemaOf(fields), v) THEN v ELSE <<>>

decode_object_return(fields, base, regions) ==
  IF verify_record_inner(mem, fields, base, regions, 0) THEN AcceptedRecord(fields, read_object_record(mem, fields, base))
  ELSE <<>>

(* What the reader makes of a field: a record becomes a dictionary, also   *)
(* one that is a tuple.                                                    *)
ObjectField(t, v) ==
  IF t.k = "Schema" THEN Branded(MapOf(NamesOf(t), TaggedAll(t.fields, v)), BrandOf(t)) ELSE Tagged(t, v)

ObjectFields(t, words) == [k \in DOMAIN words |-> ObjectField(t.fields[k], words[k])] \o <<>>

(* The value of the words that were read. *)
Decoded(m, words) ==
  CASE ~m.record -> Tagged(m.returns.fields[1], words[1])
    [] m.record /\ m.returns.names = <<>> -> TupleV(ObjectFields(m.returns, words))
    [] OTHER -> Branded(MapOf(m.returns.names, ObjectFields(m.returns, words)), BrandOf(m.returns))

Answers(m, words) ==
  /\ IF words = <<>> THEN status' = "IoError" /\ UNCHANGED answer
     ELSE status' = "done" /\ answer' = Decoded(m, words)
  /\ UNCHANGED frames

HostDecodes(p, m, word) ==
  Answers(m, IF word < 0 THEN decode_inplace_return(p.main.returns, -word - 1, Regions(m))
             ELSE decode_object_return(m.returns.fields, out_start, Regions(m)))

(* To the host; the fast entry returns the value itself. *)
HostReturns(p, m, word) == IF Top.unit = 0 THEN Answers(m, <<word>>) ELSE HostDecodes(p, m, word)

(* Back to the caller, or to the host. *)
ReturnFrom(s, in, m) ==
  /\ s.st = "ret"
  /\ IF Len(frames) > 1
     THEN /\ frames' = [Tail(frames) EXCEPT ![1] = Assigned(@, Top.x, in[1], m)]
          /\ UNCHANGED <<answer, status>>
     ELSE HostReturns(m.programs[program], m.programs[program].code[1], in[1])
  /\ UNCHANGED <<dispatch, host, mem, scratch, out_tail, unaligned>>

Step(s, in, m) ==
  \/ SetLet(s, in, m)
  \/ StoreAtAbsolute(s, in, m)
  \/ emit_store_at_absolute(s, in, m)
  \/ MemcpyAtAbsolute(s, in, m)
  \/ emit_memcpy_at_absolute(s, in, m)
  \/ CopyWithPadding(s, in, m)
  \/ relon_f64_to_str(s, in, m)
  \/ relon_llvm_f64_to_str(s, in, m)
  \/ AllocScratch(s, in, m)
  \/ emit_alloc_scratch_common(s, in, m)
  \/ GrowRecord(s, in, m)
  \/ ReadScratchEnd(s, in, m)
  \/ emit_tail_alloc(s, in, m)
  \/ llvm_emit_tail_alloc(s, in, m)
  \/ Choose(s, in, m)
  \/ Branch(s, in, m)
  \/ RaiseTrap(s, in, m)
  \/ llvm_emit_trap(s, in, m)
  \/ Tick(s, in, m)
  \/ relon_llvm_str_contains_arena(s, in, m)
  \/ CallBody(s, in, m)
  \/ CallTheClosure(s, in, m)
  \/ emit_call_closure(s, in, m)
  \/ emit_call_closure_direct(s, in, m)
  \/ ReturnFrom(s, in, m)

Run(m) ==
  \E s \in {Here(m)} : \E in \in {Values(s.es, Top, mem)} :
    IF \E k \in DOMAIN in : IsFault(in[k]) THEN Fault(in) ELSE Step(s, in, m)

Next ==
  /\ status = "run"
  /\ Run(Linked)

Spec == Init /\ [][Next]_vars

-----------------------------------------------------------------------------
(* The value without the names of its schemas, which are not written out. *)
RECURSIVE Plain(_)
Plain(v) ==
  CASE v.k \in {"List", "Tuple"} -> [v EXCEPT !.v = [k \in DOMAIN @ |-> Plain(@[k])] \o <<>>]
    [] v.k = "Dict" -> DictV([x \in DOMAIN v.v |-> Plain(v.v[x])])
    [] v.k = "Variant" -> [v EXCEPT !.v.map = [x \in DOMAIN @ |-> Plain(@[x])]]
    [] OTHER -> v

(* The bytes of the constants and of the input. *)
Size == in_end

Outgrown == out_start + out_tail > out_end

(* The scratch left over is too small for what a body may allocate. *)
Exhausted == arena_len - scratch < 72 * (Size + 1)

(* The dispatch ends as the evaluation does: with its value, or with the   *)
(* error of the same kind; a process that is ended has no kind.            *)
EndsAsWalked ==
  CASE status = "done" -> oracle.result.ok /\ Plain(answer) = Plain(oracle.result.v)
    [] status = "IndexOutOfBounds" -> oracle.clamps \/ Err(status) = oracle.result
    [] status = "Abort" -> oracle.clamps \/ ~oracle.result.ok \/ Exhausted
    [] OTHER -> status \notin {"Wild", "IoError"} /\ Err(status) = oracle.result

CompiledAgrees ==
  CASE status = "run" -> TRUE
    [] status = "BoundsViolation" -> Exhausted
    [] status = "ResourceExhausted" -> budget # <<>>
    [] OTHER -> EndsAsWalked \/ unaligned \/ Outgrown

(* The strict form: "Supported shapes are checked against the tree-walk    *)
(* oracle.  [...] silent miscompilation is a release blocker"              *)
(* (docs/en/guide/release-tiers.md).                                       *)
MatchesTheOracle == status = "run" \/ (status = "BoundsViolation" /\ Exhausted) \/ EndsAsWalked

(* Whatever program is compiled, its code keeps to the protocol of the     *)
(* budget: only the check counts, nothing refills the counter, and no      *)
(* other failure is taken for a spent budget.                              *)
KeepsTheBudget == BudgetSpec

(* No function reads memory nobody wrote or writes outside of what it was  *)
(* given, unless a record was copied from an unaligned address.            *)
NoWildAccess == status = "Wild" => unaligned

(* Every loop ends: an activation makes at most quadratically many rounds  *)
(* in the size of the constants and the arguments.                         *)
LoopsEnd == \A k \in DOMAIN frames : frames[k].rounds <= (Size + 2) * (Size + 2)
=============================================================================
