---------------------------- MODULE ObjectCache ----------------------------
(***************************************************************************)
(* The on-disk cache of compiled programs, as concurrent cold starts of    *)
(* one source use it: build_aot of relon/src/auto_evaluator.rs over        *)
(* AotEvaluator::from_cache_dir and ::from_source_with_cache               *)
(* (relon-codegen-cranelift) and relon-object-cache.                       *)
(*                                                                         *)
(* One entry is three files of the same stem: the linked object, the IR    *)
(* and the schema sidecar.  They are written, read and removed one by one  *)
(* with no lock, so every system call on a shared file is a step.  A file  *)
(* is written under a private temporary name (process id and nanosecond)   *)
(* and renamed, so other processes see the rename only.  Nothing is        *)
(* synced: after a power loss a file may be there with its content lost.   *)
(*                                                                         *)
(* The object carries an HMAC tag under the installation's key; the        *)
(* sidecar one under the key as it is read again after the object was      *)
(* written, over the object's hash too.  A tag is represented by the key   *)
(* and the object body it was computed from.  The cache file names hash    *)
(* the source and the generator version, so the metadata trailer of a      *)
(* file of this entry agrees with the reader's.                            *)
(***************************************************************************)
EXTENDS Integers, Sequences, FiniteSets

CONSTANTS Procs,
          LinkerOutput, \* process -> body of the object its linker makes
          Faults,       \* kinds of fault: crash, power_loss, clean_up, io
          MaxFaults     \* bound: faults of a behaviour

ASSUME FaultsAssumption == Faults \subseteq {"crash", "power_loss", "clean_up", "io"}

VARIABLES
    key,       \* the key file: Absent, Short(p) while only created, or a key
    keys_made, \* keys drawn so far; the last one has this number
    disk,      \* the files of the entry
    proc,      \* the cold start of each process
    faults,
    cleaned    \* history: the key file has been removed

vars == <<key, keys_made, disk, proc, faults, cleaned>>

Files    == {"object", "ir", "schema"}
Triple   == <<"ir", "schema", "object">>
Absent   == [is |-> "absent"]
Torn     == [is |-> "torn"]
Intact   == [is |-> "intact"]
Sealed(k, b) == [is |-> "sealed", key |-> k, body |-> b]
Key(k)   == [is |-> "key", key |-> k]
Short(p) == [is |-> "short", by |-> p]
NoKey    == 0

\* A cold start: where it is, for which of its three uses it is resolving the
\* key, the key it holds, what it read, the files it has yet to remove and
\* where it goes then, the object and sidecar its evaluator executes.
Idle == [pc |-> "idle", why |-> "none", key |-> NoKey, object |-> Absent, schema |-> Absent,
         todo |-> <<>>, after |-> "none", runs_cached |-> FALSE]

Init ==
    /\ key = Absent
    /\ keys_made = 0
    /\ disk = [f \in Files |-> Absent]
    /\ proc = [p \in Procs |-> Idle]
    /\ faults = 0
    /\ cleaned = FALSE

At(p, pc)      == proc[p].pc = pc
Goto(p, pc)    == proc' = [proc EXCEPT ![p].pc = pc]
Resolve(p, w)  == proc' = [proc EXCEPT ![p].pc = "key_exists", ![p].why = w]
Discard(p, fs, next) ==
    proc' = [proc EXCEPT ![p].pc = "remove", ![p].todo = fs, ![p].after = next]
Fault(kind)    == /\ kind \in Faults
                  /\ faults < MaxFaults
                  /\ faults' = faults + 1

-----------------------------------------------------------------------------
(* ensure_key, called for the load, for the store and for the sidecar.     *)

KeyExists(p) ==
    /\ At(p, "key_exists")
    /\ Goto(p, IF key # Absent THEN "key_read" ELSE "key_create")
    /\ UNCHANGED <<key, keys_made, cleaned, disk, faults>>

KeyResolved(p, k) ==
    proc' = [proc EXCEPT ![p].key = k,
                         ![p].pc = CASE proc[p].why = "load" -> "read_object"
                                     [] proc[p].why = "store" -> "link"
                                     [] proc[p].why = "seal" -> "put_schema"]

KeyFails(p) ==
    CASE proc[p].why = "load" -> Goto(p, "build")
      [] proc[p].why = "store" -> Goto(p, "run")
      [] proc[p].why = "seal" -> Discard(p, Triple, "run")

KeyRead(p) ==
    /\ At(p, "key_read")
    /\ IF key.is = "key" THEN KeyResolved(p, key.key) ELSE KeyFails(p)
    /\ UNCHANGED <<key, keys_made, cleaned, disk, faults>>

\* Mutant: the file is opened with create and truncate.
KeyCreateTruncating(p) ==
    /\ At(p, "key_create")
    /\ key' = Short(p)
    /\ Goto(p, "key_write")
    /\ UNCHANGED <<keys_made, cleaned, disk, faults>>

\* create_new refuses a file that has appeared since.
KeyCreate(p) ==
    /\ At(p, "key_create")
    /\ \/ key = Absent /\ key' = Short(p) /\ Goto(p, "key_write")
       \/ key # Absent /\ KeyFails(p) /\ UNCHANGED key
    /\ UNCHANGED <<keys_made, cleaned, disk, faults>>

\* The bytes go to the file this process created, or nowhere visible if that
\* was removed meanwhile.
KeyWrite(p) ==
    /\ At(p, "key_write")
    /\ keys_made' = keys_made + 1
    /\ key' = IF key = Short(p) THEN Key(keys_made + 1) ELSE key
    /\ KeyResolved(p, keys_made + 1)
    /\ UNCHANGED <<disk, cleaned, faults>>

-----------------------------------------------------------------------------
(* from_cache_dir.                                                         *)

ColdStart(p) ==
    /\ At(p, "idle")
    /\ Resolve(p, "load")
    /\ UNCHANGED <<key, keys_made, cleaned, disk, faults>>

Tagged(f, p) == f.is = "sealed" /\ f.key = proc[p].key

ReadObject(p) ==
    /\ At(p, "read_object")
    /\ LET f == disk["object"]
       IN  \/ f = Absent /\ Goto(p, "build")
           \/ /\ Tagged(f, p)
              /\ proc' = [proc EXCEPT ![p].object = f, ![p].pc = "read_ir"]
           \/ f # Absent /\ ~Tagged(f, p) /\ Discard(p, <<"object">>, "build")
    /\ UNCHANGED <<key, keys_made, cleaned, disk, faults>>

ReadIr(p) ==
    /\ At(p, "read_ir")
    /\ \/ disk["ir"] = Absent /\ Discard(p, <<"object">>, "build")
       \/ disk["ir"] = Torn /\ Discard(p, <<"ir", "object">>, "build")
       \/ disk["ir"] = Intact /\ Goto(p, "read_schema")
    /\ UNCHANGED <<key, keys_made, cleaned, disk, faults>>

\* Mutant: the sidecar's tag does not cover the object's hash.
ReadSchemaUnbound(p) ==
    /\ At(p, "read_schema")
    /\ LET f == disk["schema"]
       IN  IF Tagged(f, p)
           THEN proc' = [proc EXCEPT ![p].schema = f, ![p].pc = "dlopen"]
           ELSE Discard(p, Triple, "build")
    /\ UNCHANGED <<key, keys_made, cleaned, disk, faults>>

\* Mutant: without a valid sidecar the program is rebuilt from the IR.
ReadSchemaKeeping(p) ==
    /\ At(p, "read_schema")
    /\ LET f == disk["schema"]
       IN  IF Tagged(f, p) /\ f.body = proc[p].object.body
           THEN proc' = [proc EXCEPT ![p].schema = f, ![p].pc = "dlopen"]
           ELSE Goto(p, "run")
    /\ UNCHANGED <<key, keys_made, cleaned, disk, faults>>

ReadSchema(p) ==
    /\ At(p, "read_schema")
    /\ LET f == disk["schema"]
       IN  IF Tagged(f, p) /\ f.body = proc[p].object.body
           THEN proc' = [proc EXCEPT ![p].schema = f, ![p].pc = "dlopen"]
           ELSE Discard(p, Triple, "build")
    /\ UNCHANGED <<key, keys_made, cleaned, disk, faults>>

\* A file that is there and cannot be read: only for the object is it removed.
ReadFails(p) ==
    /\ proc[p].pc \in {"read_object", "read_ir", "read_schema"}
    /\ Fault("io")
    /\ IF At(p, "read_object") THEN Discard(p, <<"object">>, "build") ELSE Goto(p, "build")
    /\ UNCHANGED <<key, keys_made, cleaned, disk>>

Dlopen(p) ==
    /\ At(p, "dlopen")
    /\ proc' = [proc EXCEPT ![p].pc = "run", ![p].runs_cached = TRUE]
    /\ UNCHANGED <<key, keys_made, cleaned, disk, faults>>

DlopenFails(p) ==
    /\ At(p, "dlopen")
    /\ Fault("io")
    /\ Discard(p, Triple, "build")
    /\ UNCHANGED <<key, keys_made, cleaned, disk>>

Remove(p) ==
    /\ At(p, "remove")
    /\ disk' = [disk EXCEPT ![Head(proc[p].todo)] = Absent]
    /\ proc' = [proc EXCEPT ![p].todo = Tail(@),
                            ![p].pc = IF Len(proc[p].todo) = 1 THEN proc[p].after ELSE @]
    /\ UNCHANGED <<key, keys_made, cleaned, faults>>

-----------------------------------------------------------------------------
(* from_source_with_cache.                                                 *)

Build(p) ==
    /\ At(p, "build")
    /\ Resolve(p, "store")
    /\ UNCHANGED <<key, keys_made, cleaned, disk, faults>>

\* The object file cannot be emitted: write_ir_only.
EmitFails(p) ==
    /\ At(p, "build")
    /\ Fault("io")
    /\ disk' = [disk EXCEPT !["ir"] = Intact]
    /\ Goto(p, "run")
    /\ UNCHANGED <<key, keys_made, cleaned>>

Link(p) ==
    /\ At(p, "link")
    /\ proc' = [proc EXCEPT ![p].object = Sealed(proc[p].key, LinkerOutput[p]),
                            ![p].pc = "put_object"]
    /\ UNCHANGED <<key, keys_made, cleaned, disk, faults>>

PutObject(p) ==
    /\ At(p, "put_object")
    /\ disk' = [disk EXCEPT !["object"] = proc[p].object]
    /\ Goto(p, "put_ir")
    /\ UNCHANGED <<key, keys_made, cleaned, faults>>

PutIr(p) ==
    /\ At(p, "put_ir")
    /\ disk' = [disk EXCEPT !["ir"] = Intact]
    /\ Resolve(p, "seal")
    /\ UNCHANGED <<key, keys_made, cleaned, faults>>

PutSchema(p) ==
    /\ At(p, "put_schema")
    /\ disk' = [disk EXCEPT !["schema"] = Sealed(proc[p].key, proc[p].object.body)]
    /\ Goto(p, "run")
    /\ UNCHANGED <<key, keys_made, cleaned, faults>>

\* Linking, or a write or rename, fails: the rest of the store is skipped,
\* and the object removed when the IR could not be put beside it.
StoreFails(p) ==
    /\ proc[p].pc \in {"link", "put_object", "put_ir", "put_schema"}
    /\ Fault("io")
    /\ IF At(p, "put_ir") THEN Discard(p, <<"object">>, "run") ELSE Goto(p, "run")
    /\ UNCHANGED <<key, keys_made, cleaned, disk>>

\* The evaluator, over the cached object or the one compiled in memory, is
\* ready; the process may later start again.
Run(p) ==
    /\ At(p, "run")
    /\ proc' = [proc EXCEPT ![p] = Idle]
    /\ UNCHANGED <<key, keys_made, cleaned, disk, faults>>

-----------------------------------------------------------------------------
Crash(p) ==
    /\ ~At(p, "idle")
    /\ Fault("crash")
    /\ proc' = [proc EXCEPT ![p] = Idle]
    /\ UNCHANGED <<key, keys_made, cleaned, disk>>

PowerLoss ==
    /\ Fault("power_loss")
    /\ \E lost \in SUBSET Files :
          disk' = [f \in Files |-> IF f \in lost /\ disk[f] # Absent THEN Torn ELSE disk[f]]
    /\ \E p \in Procs : key' \in {key} \cup (IF key = Absent THEN {} ELSE {Short(p)})
    /\ proc' = [p \in Procs |-> Idle]
    /\ UNCHANGED <<keys_made, cleaned>>

\* The user removes the key file, as the error for a bad one suggests.
CleanUp ==
    /\ key # Absent
    /\ Fault("clean_up")
    /\ key' = Absent
    /\ cleaned' = TRUE
    /\ UNCHANGED <<keys_made, disk, proc>>

Step(p) ==
    \/ KeyExists(p) \/ KeyRead(p) \/ KeyCreate(p) \/ KeyWrite(p)
    \/ ReadObject(p) \/ ReadIr(p) \/ ReadSchema(p) \/ Dlopen(p) \/ Remove(p)
    \/ Build(p) \/ Link(p) \/ PutObject(p) \/ PutIr(p) \/ PutSchema(p) \/ Run(p)

Disturbance(p) ==
    ReadFails(p) \/ DlopenFails(p) \/ EmitFails(p) \/ StoreFails(p) \/ Crash(p)

Next == \/ \E p \in Procs : ColdStart(p) \/ Step(p) \/ Disturbance(p)
        \/ PowerLoss
        \/ CleanUp

Spec == Init /\ [][Next]_vars

\* A cold start under way is scheduled until it ends.
Fairness == \A p \in Procs : WF_vars(Step(p))
FairSpec == Spec /\ Fairness

\* In addition every process starts again and again: the cache stays in use.
BusySpec == FairSpec /\ \A p \in Procs : WF_vars(ColdStart(p))

-----------------------------------------------------------------------------
Content(bodies) == {Absent, Torn, Intact}
                   \cup {Sealed(k, b) : k \in 1..MaxFaults + 1, b \in bodies}

TypeOK ==
    /\ key \in {Absent} \cup {Key(k) : k \in 1..MaxFaults + 1} \cup {Short(p) : p \in Procs}
    /\ keys_made \in 0..MaxFaults + 1
    /\ \A f \in Files : disk[f] \in Content({LinkerOutput[p] : p \in Procs})
    /\ disk["ir"].is # "sealed"
    /\ \A f \in {"object", "schema"} : disk[f] # Intact
    /\ \A p \in Procs :
          /\ proc[p].why \in {"none", "load", "store", "seal"}
          /\ proc[p].key \in 0..MaxFaults + 1
          /\ At(p, "remove") => proc[p].todo # <<>>
          /\ proc[p].after \in {"none", "build", "run"}
    /\ faults \in 0..MaxFaults /\ cleaned \in BOOLEAN

\* Bytes from the cache run only as a whole: the object was stored under the
\* installation's key as this process read it, and the sidecar that says how
\* to call it was sealed under the same key for this very object, whichever
\* processes stored them and whatever was lost or replaced in between.
CachedProgramIsWhole ==
    \A p \in Procs : proc[p].runs_cached =>
        /\ proc[p].object.is = "sealed" /\ proc[p].object.key = proc[p].key
        /\ proc[p].schema = Sealed(proc[p].key, proc[p].object.body)

\* Cold starts that race to create the key never settle on two: as long as
\* nobody removes the file, every process that holds a key holds the one in
\* the file.
OneKey == ~cleaned => \A p \in Procs : proc[p].key # NoKey => key = Key(proc[p].key)

\* The three files form an entry the next cold start runs.
Whole == /\ key.is = "key"
         /\ disk["object"].is = "sealed" /\ disk["object"].key = key.key
         /\ disk["ir"] = Intact
         /\ disk["schema"] = Sealed(key.key, disk["object"].body)

\* The key file was left short by a process that is gone.
KeyLost == key.is = "short" /\ \A p \in Procs : key = Short(p) => ~At(p, "key_write")

\* The entry heals: whatever interleaved loads, stores, removals and faults
\* left behind, once the other processes stop starting and one goes on, the
\* files come to form a whole entry for good (unless the key is lost).
CacheHeals ==
    \A p \in Procs :
        (/\ <>[](\A q \in Procs \ {p} : At(q, "idle"))
         /\ []<>At(p, "run"))
        => <>[](Whole \/ KeyLost)

\* invalidate_cache_triple removes the files "so the next cold start re-emits
\* a consistent triple" (evaluator.rs:576-577): without faults, a cache in use
\* ends up with a whole entry for good.
\* Does not hold (BusySpec): two processes may remove each other's files for
\* ever.
CacheSettles == <>[]Whole

\* "The cold-start cost of skipping the cache is bounded by the first call
\* only" (object_cache_integration.rs:256-257): from some point on no cold
\* start is refused for want of a key.
\* Does not hold (BusySpec): a crash may leave a short key file.
SkippingEnds == <>[](key.is = "key")

\* try_load_from_cache: when an integrity check failed "the offending file is
\* deleted so the next call rebuilds" (object_cache_integration.rs:463-464): a
\* load that rejected the object does not delete a file of a whole entry.
\* Does not hold: the file may have been replaced since it was read.
DeletesOnlyOffending ==
    [][\A p \in Procs : Remove(p) /\ proc[p].why = "load" /\ proc[p].object = Absent => ~Whole]_vars
=============================================================================
