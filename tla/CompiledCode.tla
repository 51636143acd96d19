---------------------------- MODULE CompiledCode ----------------------------
(***************************************************************************)
(* The code of a module: the functions of the library by their names       *)
(* (relon-ir/src/stdlib), and the functions that the programs are lowered  *)
(* to (Lowering), as each of the two generators emits them.                *)
(***************************************************************************)
EXTENDS ListBodies, FoldBodies, Lowering, CodegenLlvm

CONSTANT Programs  \* the programs: of each, its #main, its inputs, and what is known of its end

(* The functions that share a body: whether the key of a sort is a float   *)
(* and it descends, the case and whether a locale is given, whether a      *)
(* normal form is a compatibility one and composes.                        *)
Sorts ==
  [ list_sort_by_ii_asc |-> <<FALSE, FALSE>>, list_sort_by_ii_desc |-> <<FALSE, TRUE>>,
    list_sort_by_if_asc |-> <<TRUE, FALSE>>, list_sort_by_if_desc |-> <<TRUE, TRUE>>,
    list_sort_by_fi_asc |-> <<FALSE, FALSE>>, list_sort_by_fi_desc |-> <<FALSE, TRUE>>,
    list_sort_by_ff_asc |-> <<TRUE, FALSE>>, list_sort_by_ff_desc |-> <<TRUE, TRUE>> ]

CaseFolds ==
  [ upper |-> <<"Upper", FALSE>>, lower |-> <<"Lower", FALSE>>, title |-> <<"Title", FALSE>>,
    upper_locale |-> <<"Upper", TRUE>>, lower_locale |-> <<"Lower", TRUE>>, title_locale |-> <<"Title", TRUE>> ]

NormalForms == [nfd |-> <<FALSE, FALSE>>, nfkd |-> <<TRUE, FALSE>>, nfc |-> <<FALSE, TRUE>>, nfkc |-> <<TRUE, TRUE>>]

(* The function table. *)
Predicates ==
  [ is_uuid |-> is_uuid_string_body,
    multiple_of |-> multiple_of_int_body,
    in_range |-> in_range_float_body,
    size_in_range |-> size_in_range_record_header_body,
    is_email |-> is_email_string_body,
    is_uri |-> is_uri_string_body,
    is_iso_date |-> is_iso_date_string_body,
    list_int_every |-> list_pred_body_typed(TRUE),
    list_float_every |-> list_pred_body_typed(TRUE),
    list_int_some |-> list_pred_body_typed(FALSE),
    list_float_some |-> list_pred_body_typed(FALSE),
    list_int_unique |-> list_unique_body_typed(VAL \doteq CUR_VAL),
    list_float_unique |-> list_unique_body_typed(EqF(VAL, CUR_VAL)) ]

Code ==
  [ length |-> len_string_body,
    len |-> len_string_body,
    list_int_length |-> list_length_body,
    list_float_length |-> list_length_body,
    list_bool_length |-> list_length_body,
    list_string_length |-> list_length_body,
    list_schema_length |-> list_length_body,
    list_list_length |-> list_length_body,
    list_int_sum |-> list_int_sum_body,
    list_int_max |-> list_int_max_body,
    list_int_min |-> list_int_min_body,
    list_int_map |-> list_map_body_typed,
    list_int_map_to_float |-> list_map_body_typed,
    list_float_map |-> list_map_body_typed,
    list_float_map_to_int |-> list_map_body_typed,
    list_int_filter |-> list_filter_body_typed,
    list_float_filter |-> list_filter_body_typed,
    list_list_filter |-> list_pointer_filter_body,
    list_int_fold |-> list_fold_body_typed,
    list_float_fold |-> list_fold_body_typed,
    list_int_map_to_string |-> list_map_to_string_body(TRUE),
    list_float_map_to_string |-> list_map_to_string_body(TRUE),
    list_string_map |-> list_map_to_string_body(FALSE),
    list_int_map_to_variant_list |-> list_map_to_variant_list_body(TRUE),
    list_float_map_to_variant_list |-> list_map_to_variant_list_body(TRUE),
    list_string_map_to_variant_list |-> list_map_to_variant_list_body(FALSE),
    abs |-> abs_int_body,
    abs_float |-> abs_float_body,
    floor |-> float_to_int_body,
    ceil |-> float_to_int_body,
    round |-> float_to_int_body,
    sqrt |-> sqrt_float_body,
    min |-> min_int_body,
    max |-> max_int_body,
    is_empty |-> is_empty_string_body,
    concat |-> concat_string_string_body,
    substring |-> substring_string_body,
    starts_with |-> starts_with_string_body,
    ends_with |-> ends_with_string_body,
    contains |-> contains_string_body,
    replace |-> replace_string_body,
    split |-> split_string_body,
    trim |-> trim_body("Both"),
    trim_start |-> trim_body("Start"),
    trim_end |-> trim_body("End"),
    __is_whitespace |-> is_whitespace_helper_body,
    __is_combining_mark |-> range_membership_helper_body,
    __casefold_lookup |-> casefold_lookup_helper_body,
    __full_casefold_lookup |-> full_casefold_lookup_helper_body,
    __final_sigma_check |-> final_sigma_check_helper_body,
    __decomp_lookup |-> decomp_lookup_helper_body,
    __ccc_lookup |-> ccc_lookup_helper_body,
    __compose_lookup |-> compose_lookup_helper_body ]
  @@ Predicates
  @@ [f \in DOMAIN Sorts |-> list_sort_body_typed(Sorts[f][1], Sorts[f][2])]
  @@ [f \in DOMAIN CaseFolds |-> case_fold_body_inner_body(CaseFolds[f][1], CaseFolds[f][2])]
  @@ [f \in DOMAIN NormalForms |-> normalize_body_ops(NormalForms[f][1], NormalForms[f][2])]

(* Whether an operation may trap, or a body of the library that is called. *)
RECURSIVE body_may_raise_typed_trap(_, _)
body_may_raise_typed_trap(code, library) ==
  \E s \in OpsIn(code) :
    \/ s.st = "trap"
    \/ s.st = "call" /\ body_may_raise_typed_trap(library[s.f], library)
    \/ \E e \in OperandsOf(s) : e.op \in {"add64", "sub64", "mul64", "div64", "rem64"}

(* The fast entry can be emitted. *)
RECURSIVE IsFast(_, _)
IsFast(code, library) ==
  \A s \in OpsIn(code) :
    /\ s.st \in FastOps
    /\ s.st = "call" => IsFast(library[s.f], library)
    /\ \A e \in OperandsOf(s) : "text" \notin DOMAIN e

ParamTypes(main) == [k \in DOMAIN main.params |-> main.params[k].t] \o <<>>

try_run_main_fast(types, lowered, library) ==
  /\ Len(lowered.units) = 1
  /\ build_fast_path_profile(types, lowered.returns.fields, lowered.record /\ lowered.returns.names = <<>>)
  /\ IsFast(lowered.units[1], library)
  /\ ~body_may_raise_typed_trap(lowered.units[1], library)

(* A program as it is compiled: its functions are the #main and its        *)
(* closures behind it.                                                     *)
Image(types, lowered, library) ==
  [ params |-> types,
    returns |-> lowered.returns,
    record |-> lowered.record,
    pool |-> lowered.pool,
    cranelift |-> [u \in DOMAIN lowered.units |-> CraneliftCode(lowered.units[u])] \o <<>>,
    llvm |-> emit_module_funcs(lowered.units),
    fast |-> IF try_run_main_fast(types, lowered, library) THEN emit_fast_entry(lowered.units[1], types) ELSE <<>> ]

(* It is compiled when its code is found and the type of its body is the   *)
(* declared one; <<>> otherwise.                                           *)
CompileLowered(main, lowered, library) ==
  IF lowered.ok /\ (lowered.record \/ lowered.ty = type_repr_to_ir_type(main.returns))
  THEN <<Image(ParamTypes(main), lowered, library)>> ELSE <<>>

Compile(main, library) == CompileLowered(main, lower_entry(main), library)

(* The programs, each with its code, and the library as either generator   *)
(* emits it.                                                               *)
Link(programs, library) ==
  [ programs |-> [p \in DOMAIN programs |-> programs[p] @@ [code |-> Compile(programs[p].main, library)]] \o <<>>,
    cranelift |-> library,
    llvm |-> [f \in DOMAIN library |-> LibraryBody(library[f])] @@ <<>> ]

Linked == Link(Programs, Code @@ <<>>)
=============================================================================
