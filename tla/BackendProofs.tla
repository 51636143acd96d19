--------------------------- MODULE BackendProofs ---------------------------
(***************************************************************************)
(* The compiled program of a cold start, and the evaluator that many       *)
(* threads then share.  Cold starts never run a mixed or foreign entry and *)
(* never settle on two keys, for any number of processes and faults; the   *)
(* dispatch of an AutoEvaluator, whose BuildAot stands for a cold start,   *)
(* is right for any number of threads, calls and racing builds.            *)
(***************************************************************************)
EXTENDS ObjectCache, AutoEvaluator, StepBudget, TLAPS, SequenceTheorems

Bodies   == {LinkerOutput[p] : p \in Procs}
Seals    == [is : {"sealed"}, key : Nat, body : Bodies]
Contents == {Absent, Torn, Intact} \cup Seals

Resolving == {"key_exists", "key_read", "key_create", "key_write"}
Labels    == {"idle", "read_object", "read_ir", "read_schema", "dlopen", "remove", "build",
              "link", "put_object", "put_ir", "put_schema", "run"} \cup Resolving

ColdStarts == [pc : Labels, why : {"none", "load", "store", "seal"}, key : Nat,
               object : Contents, schema : Contents, todo : Seq(Files),
               after : {"none", "build", "run"}, runs_cached : BOOLEAN]

Types ==
    /\ key \in {Absent} \cup {Key(k) : k \in Nat \ {0}} \cup {Short(p) : p \in Procs}
    /\ keys_made \in Nat
    /\ disk \in [Files -> Contents]
    /\ proc \in [Procs -> ColdStarts]

\* Of a cold start: what it is resolving the key for, and that it has files to
\* remove where it removes; the object it read is under its own key, the one
\* it made is sealed; a sidecar it accepted is for that object; it executes
\* cached bytes at the end of that road only.
Coherent(r) ==
    /\ r.pc \in Resolving => r.why # "none"
    /\ r.pc = "remove" => r.todo # <<>> /\ r.after # "none"
    /\ r.pc \in {"read_ir", "read_schema", "dlopen"} \/ r.runs_cached =>
          r.object \in Seals /\ r.object.key = r.key
    /\ r.pc \in {"put_object", "put_ir", "put_schema"}
          \/ (r.pc \in Resolving /\ r.why = "seal") => r.object \in Seals
    /\ r.pc = "dlopen" \/ r.runs_cached => r.schema = Sealed(r.key, r.object.body)
    /\ r.runs_cached => r.pc = "run"

\* While nobody has removed the key file, it has the key of everyone who holds
\* one, and belongs to whoever is about to write it.
KeyIsShared ==
    ~cleaned => \A p \in Procs : /\ proc[p].key # NoKey => key = Key(proc[p].key)
                                 /\ proc[p].pc = "key_write" => key = Short(p)

Inv == Types /\ (\A p \in Procs : Coherent(proc[p])) /\ KeyIsShared

LEMMA KindsAreDistinct ==
    /\ \A k \in Nat : Key(k) # Absent /\ (\A l : Key(k) = Key(l) => k = l)
    /\ \A p \in Procs : Short(p) # Absent /\ (\A k : Short(p) # Key(k))
    /\ \A p, q \in Procs : Short(p) = Short(q) => p = q
    /\ \A s \in Seals : s = Sealed(s.key, s.body)
    /\ \A f \in Contents : f.is = "sealed" => f \in Seals
    /\ \A k \in Nat, b \in Bodies : Sealed(k, b) \in Seals
<1>1. \A k \in Nat : Key(k) # Absent /\ (\A l : Key(k) = Key(l) => k = l)
    BY Zenon DEF Key, Absent
<1>2. \A p \in Procs : Short(p) # Absent /\ (\A k : Short(p) # Key(k))
    BY DEF Short, Absent, Key
<1>3. \A p, q \in Procs : Short(p) = Short(q) => p = q
    BY DEF Short
<1>4. \A s \in Seals : s = Sealed(s.key, s.body)
    BY DEF Seals, Sealed
<1>5. \A f \in Contents : f.is = "sealed" => f \in Seals
    BY DEF Contents, Absent, Torn, Intact
<1>6. \A k \in Nat, b \in Bodies : Sealed(k, b) \in Seals
    BY DEF Seals, Sealed
<1> QED
    BY Zenon, <1>1, <1>2, <1>3, <1>4, <1>5, <1>6

LEMMA NonEmptyTodo ==
    ASSUME NEW todo \in Seq(Files), todo # <<>>
    PROVE  /\ Tail(todo) \in Seq(Files) /\ Head(todo) \in Files
           /\ Len(todo) # 1 => Tail(todo) # <<>>
<1>1. /\ Tail(todo) \in Seq(Files) /\ Head(todo) \in Files
      /\ Len(Tail(todo)) = Len(todo) - 1 /\ Len(todo) \in Nat
    BY HeadTailProperties, LenProperties
<1>2. Tail(todo) = <<>> => Len(Tail(todo)) = 0
    BY Zenon, EmptySeq
<1> QED
    BY <1>1, <1>2

LEMMA IdleIsCoherent == Idle \in ColdStarts /\ Coherent(Idle)
<1>1. Idle \in ColdStarts
    BY DEF Idle, ColdStarts, Labels, Contents, Files, NoKey
<1>2. Coherent(Idle)
    BY DEF Idle, Coherent, Resolving
<1> QED
    BY <1>1, <1>2

LEMMA InitInv == Init => Inv
<1> SUFFICES ASSUME Init PROVE Inv
    OBVIOUS
<1>1. Types
    BY IdleIsCoherent DEF Init, Types, Contents
<1>2. \A p \in Procs : Coherent(proc[p])
    BY IdleIsCoherent DEF Init
<1>3. KeyIsShared
    BY DEF Init, KeyIsShared, Idle
<1> QED
    BY <1>1, <1>2, <1>3 DEF Inv

\* A step of one process that leaves it with a coherent cold start, the key it
\* had or none, and does not touch the key file.
LEMMA OneStart ==
    ASSUME Inv, NEW p \in Procs, NEW r \in ColdStarts, Coherent(r),
           proc' = [proc EXCEPT ![p] = r],
           r.key \in {NoKey, proc[p].key}, r.pc # "key_write",
           disk' \in [Files -> Contents], UNCHANGED <<key, keys_made, cleaned>>
    PROVE  Inv'
<1>1. Types'
    BY Zenon DEF Inv, Types
<1>2. \A q \in Procs : proc'[q] = IF q = p THEN r ELSE proc[q]
    BY Zenon DEF Inv, Types
<1>3. \A q \in Procs : Coherent(proc'[q])
    BY Zenon, <1>2 DEF Inv
<1>4. KeyIsShared'
  <2>1. ASSUME NEW q \in Procs
        PROVE  /\ proc'[q].key # NoKey => proc'[q].key = proc[q].key
               /\ proc'[q].pc = "key_write" => proc[q].pc = "key_write"
      BY Zenon, <1>2
  <2> QED
      BY Zenon, <2>1 DEF Inv, KeyIsShared
<1> QED
    BY Zenon, <1>1, <1>3, <1>4 DEF Inv

\* Every step of a process keeps the invariant.
LEMMA StepInv == ASSUME Inv, NEW p \in Procs,
                        ColdStart(p) \/ Step(p) \/ Disturbance(p)
                 PROVE  Inv'
<1> DEFINE old == proc[p]
<1>1. old \in ColdStarts /\ Coherent(old)
    BY DEF Inv, Types
<1>2. disk \in [Files -> Contents] /\ keys_made \in Nat
    BY DEF Inv, Types
<1>3. ASSUME NEW r \in ColdStarts, Coherent(r), proc' = [proc EXCEPT ![p] = r],
             r.key = old.key, r.pc # "key_write", UNCHANGED <<key, keys_made, cleaned, disk>>
      PROVE  Inv'
    BY Zenon, <1>2, <1>3, OneStart
<1>4. ASSUME NEW label \in Labels \ (Resolving \cup {"remove", "read_ir", "read_schema", "dlopen",
                                             "put_object", "put_ir", "put_schema"}),
             Goto(p, label), UNCHANGED <<key, keys_made, cleaned>>, ~old.runs_cached,
             disk' \in [Files -> Contents]
      PROVE  Inv'
  <2> DEFINE r == [old EXCEPT !.pc = label]
  <2>1. r \in ColdStarts /\ r.key = old.key /\ r.pc = label
      BY Zenon, <1>1, <1>4 DEF ColdStarts
  <2>2. Coherent(r)
      BY Zenon, <1>1, <1>4, <2>1 DEF ColdStarts, Coherent
  <2>3. proc' = [proc EXCEPT ![p] = r]
      BY Zenon, <1>4 DEF Goto
  <2> HIDE DEF r
  <2> QED
      BY Zenon, <1>2, <1>4, <2>1, <2>2, <2>3, OneStart DEF Resolving
<1>5. ASSUME NEW fs \in Seq(Files), fs # <<>>, NEW next \in {"build", "run"},
             Discard(p, fs, next), ~old.runs_cached, UNCHANGED <<key, keys_made, cleaned, disk>>
      PROVE  Inv'
  <2> DEFINE r == [old EXCEPT !.pc = "remove", !.todo = fs, !.after = next]
  <2>1. r \in ColdStarts /\ r.key = old.key /\ r.pc = "remove"
      BY Zenon, <1>1, <1>5 DEF ColdStarts, Labels
  <2>2. Coherent(r)
      BY Zenon, <1>1, <1>5 DEF ColdStarts, Coherent, Resolving
  <2>3. proc' = [proc EXCEPT ![p] = r]
      BY Zenon, <1>5 DEF Discard
  <2> HIDE DEF r
  <2> QED
      BY Zenon, <1>5, <2>1, <2>2, <2>3, <1>3
<1>6. ASSUME NEW w \in {"load", "store", "seal"}, Resolve(p, w), ~old.runs_cached,
             w = "seal" => old.object \in Seals, UNCHANGED <<key, keys_made, cleaned>>,
             disk' \in [Files -> Contents]
      PROVE  Inv'
  <2> DEFINE r == [old EXCEPT !.pc = "key_exists", !.why = w]
  <2>1. r \in ColdStarts /\ r.key = old.key /\ r.pc = "key_exists"
      BY Zenon, <1>1, <1>6 DEF ColdStarts, Labels, Resolving
  <2>2. Coherent(r)
      BY Zenon, <1>1, <1>6 DEF ColdStarts, Coherent, Resolving
  <2>3. proc' = [proc EXCEPT ![p] = r]
      BY Zenon, <1>6 DEF Resolve
  <2> HIDE DEF r
  <2> QED
      BY Zenon, <1>6, <2>1, <2>2, <2>3, OneStart
<1>7. <<"object">> \in Seq(Files) /\ <<"ir", "object">> \in Seq(Files) /\ Triple \in Seq(Files)
      /\ <<"object">> # <<>> /\ <<"ir", "object">> # <<>> /\ Triple # <<>>
    BY DEF Files, Triple
<1>8. ~At(p, "run") => ~old.runs_cached
    BY Zenon, <1>1 DEF Coherent, At
<1>9. CASE ColdStart(p) \/ Build(p)
    BY Zenon, <1>2, <1>6, <1>8, <1>9 DEF ColdStart, Build, At
<1>10. CASE KeyExists(p)
  <2> DEFINE r == [old EXCEPT !.pc = IF key # Absent THEN "key_read" ELSE "key_create"]
  <2>1. r \in ColdStarts /\ r.key = old.key /\ r.pc \in {"key_read", "key_create"}
      BY Zenon, <1>1 DEF ColdStarts, Labels, Resolving
  <2>2. Coherent(r)
      BY Zenon, <1>1, <1>10, <2>1 DEF KeyExists, At, ColdStarts, Coherent, Resolving
  <2>3. proc' = [proc EXCEPT ![p] = r]
      BY Zenon, <1>10 DEF KeyExists, Goto
  <2> HIDE DEF r
  <2> QED
      BY Zenon, <1>10, <2>1, <2>2, <2>3, <1>3 DEF KeyExists
<1>11. ASSUME old.pc \in Resolving, NEW k \in Nat, KeyResolved(p, k)
       PROVE  \E r \in ColdStarts : /\ Coherent(r) /\ r.key = k /\ r.pc # "key_write"
                                    /\ proc' = [proc EXCEPT ![p] = r]
  <2> DEFINE label == CASE old.why = "load" -> "read_object"
                        [] old.why = "store" -> "link"
                        [] old.why = "seal" -> "put_schema"
             r == [old EXCEPT !.key = k, !.pc = label]
  <2>1. old.why \in {"load", "store", "seal"} /\ ~old.runs_cached
      BY Zenon, <1>1, <1>11 DEF ColdStarts, Coherent, Resolving
  <2>2. /\ label \in {"read_object", "link", "put_schema"}
        /\ label = "put_schema" => old.why = "seal"
      BY <2>1
  <2>3. proc' = [proc EXCEPT ![p].key = k, ![p].pc = label]
      BY Zenon, <1>11 DEF KeyResolved
  <2> HIDE DEF label
  <2>4. r \in ColdStarts /\ r.key = k /\ r.pc = label
      BY Zenon, <1>1, <2>2 DEF ColdStarts, Labels
  <2>5. Coherent(r)
      BY Zenon, <1>1, <1>11, <2>1, <2>2, <2>4 DEF ColdStarts, Coherent, Resolving
  <2>6. proc' = [proc EXCEPT ![p] = r]
      BY Zenon, <2>3
  <2> HIDE DEF r
  <2> QED
      BY Zenon, <2>2, <2>4, <2>5, <2>6
<1>12. ASSUME old.pc \in Resolving, KeyFails(p), UNCHANGED <<key, keys_made, cleaned, disk>>
       PROVE  Inv'
  <2>1. old.why \in {"load", "store", "seal"} /\ ~old.runs_cached
      BY Zenon, <1>1, <1>12 DEF ColdStarts, Coherent, Resolving
  <2>2. Goto(p, "build") \/ Goto(p, "run") \/ Discard(p, Triple, "run")
      BY Zenon, <1>12, <2>1 DEF KeyFails
  <2> QED
      BY Zenon, <1>2, <1>4, <1>5, <1>7, <1>12, <2>1, <2>2 DEF Labels, Resolving
<1>13. CASE KeyRead(p)
  <2>1. old.pc \in Resolving
      BY Zenon, <1>13 DEF KeyRead, At, Resolving
  <2>2. CASE key.is = "key" /\ KeyResolved(p, key.key)
    <3>1. key.key \in Nat /\ key = Key(key.key)
        BY <2>2 DEF Inv, Types, Absent, Short, Key
    <3>2. PICK r \in ColdStarts : /\ Coherent(r) /\ r.key = key.key /\ r.pc # "key_write"
                                  /\ proc' = [proc EXCEPT ![p] = r]
        BY Zenon, <1>11, <2>1, <2>2, <3>1
    <3>3. UNCHANGED <<key, keys_made, cleaned, disk>>
        BY <1>13 DEF KeyRead
    <3>4. \A q \in Procs : proc'[q] = IF q = p THEN r ELSE proc[q]
        BY Zenon, <3>2 DEF Inv, Types
    <3>5. Types'
        BY Zenon, <3>2, <3>3 DEF Inv, Types
    <3>6. \A q \in Procs : Coherent(proc'[q])
        BY Zenon, <3>2, <3>4 DEF Inv
    <3>7. KeyIsShared'
        BY Zenon, <3>1, <3>2, <3>3, <3>4 DEF Inv, KeyIsShared
    <3> QED
        BY Zenon, <3>5, <3>6, <3>7 DEF Inv
  <2> QED
      BY Zenon, <1>12, <1>13, <2>1, <2>2 DEF KeyRead
<1>14. CASE KeyCreate(p)
  <2>1. old.pc \in Resolving
      BY Zenon, <1>14 DEF KeyCreate, At, Resolving
  <2>2. CASE key = Absent /\ key' = Short(p) /\ Goto(p, "key_write")
    <3> DEFINE r == [old EXCEPT !.pc = "key_write"]
    <3>1. r \in ColdStarts /\ r.key = old.key
        BY Zenon, <1>1 DEF ColdStarts, Labels, Resolving
    <3>2. Coherent(r)
        BY Zenon, <1>1, <2>1 DEF ColdStarts, Coherent, Resolving
    <3>3. proc' = [proc EXCEPT ![p] = r]
        BY Zenon, <2>2 DEF Goto
    <3>4. UNCHANGED <<keys_made, cleaned, disk>>
        BY <1>14 DEF KeyCreate
    <3> HIDE DEF r
    <3>5. \A q \in Procs : proc'[q] = IF q = p THEN r ELSE proc[q]
        BY Zenon, <3>3 DEF Inv, Types
    <3>6. Types'
        BY Zenon, <2>2, <3>1, <3>3, <3>4 DEF Inv, Types
    <3>7. \A q \in Procs : Coherent(proc'[q])
        BY Zenon, <3>2, <3>5 DEF Inv
    <3>8. ASSUME ~cleaned, NEW q \in Procs PROVE proc[q].key = NoKey /\ proc[q].pc # "key_write"
      <4>1. proc[q].key \in Nat
          BY DEF Inv, Types, ColdStarts
      <4> QED
          BY Zenon, <2>2, <3>8, <4>1, KindsAreDistinct DEF Inv, KeyIsShared
    <3>9. KeyIsShared'
        BY Zenon, <2>2, <3>1, <3>4, <3>5, <3>8 DEF KeyIsShared
    <3> QED
        BY Zenon, <3>6, <3>7, <3>9 DEF Inv
  <2> QED
      BY Zenon, <1>12, <1>14, <2>1, <2>2 DEF KeyCreate
<1>15. CASE KeyWrite(p)
  <2>1. old.pc \in Resolving /\ old.pc = "key_write" /\ keys_made + 1 \in Nat \ {0}
      BY <1>2, <1>15 DEF KeyWrite, At, Resolving
  <2>2. PICK r \in ColdStarts : /\ Coherent(r) /\ r.key = keys_made + 1 /\ r.pc # "key_write"
                                /\ proc' = [proc EXCEPT ![p] = r]
      BY Zenon, <1>11, <1>15, <2>1 DEF KeyWrite
  <2>3. /\ key' = IF key = Short(p) THEN Key(keys_made + 1) ELSE key
        /\ keys_made' = keys_made + 1 /\ UNCHANGED <<cleaned, disk>>
      BY <1>15 DEF KeyWrite
  <2>4. \A q \in Procs : proc'[q] = IF q = p THEN r ELSE proc[q]
      BY Zenon, <2>2 DEF Inv, Types
  <2>5. Types'
      BY Zenon, <2>1, <2>2, <2>3 DEF Inv, Types
  <2>6. \A q \in Procs : Coherent(proc'[q])
      BY Zenon, <2>2, <2>4 DEF Inv
  <2>7. ASSUME ~cleaned
        PROVE  /\ key = Short(p)
               /\ \A q \in Procs : proc[q].key = NoKey /\ (q # p => proc[q].pc # "key_write")
      BY ZenonT(40), <2>1, <2>7, KindsAreDistinct DEF Inv, KeyIsShared
  <2>8. KeyIsShared'
      BY Zenon, <2>2, <2>3, <2>4, <2>7 DEF KeyIsShared
  <2> QED
      BY Zenon, <2>5, <2>6, <2>8 DEF Inv
<1>16. CASE ReadObject(p)
  <2>1. ~old.runs_cached /\ UNCHANGED <<key, keys_made, cleaned, disk>>
      BY Zenon, <1>8, <1>16 DEF ReadObject, At
  <2>2. CASE /\ Tagged(disk["object"], p)
             /\ proc' = [proc EXCEPT ![p].object = disk["object"], ![p].pc = "read_ir"]
    <3> DEFINE r == [old EXCEPT !.object = disk["object"], !.pc = "read_ir"]
    <3>1. disk["object"] \in Contents /\ disk["object"] \in Seals
        BY Zenon, <1>2, <2>2, KindsAreDistinct DEF Files, Tagged
    <3>2. r \in ColdStarts /\ r.key = old.key /\ r.pc = "read_ir"
        BY Zenon, <1>1, <3>1 DEF ColdStarts, Labels
    <3>3. Coherent(r)
        BY Zenon, <1>1, <2>1, <2>2, <3>1 DEF Tagged, ColdStarts, Coherent, Resolving
    <3>4. proc' = [proc EXCEPT ![p] = r]
        BY Zenon, <2>2
    <3> HIDE DEF r
    <3> QED
        BY Zenon, <1>3, <2>1, <3>2, <3>3, <3>4
  <2>3. CASE Goto(p, "build")
      BY Zenon, <1>2, <1>4, <2>1, <2>3 DEF Labels, Resolving
  <2>4. CASE Discard(p, <<"object">>, "build")
      BY Zenon, <1>5, <1>7, <2>1, <2>4
  <2> QED
      BY Zenon, <1>16, <2>2, <2>3, <2>4 DEF ReadObject
<1>17. CASE ReadIr(p)
  <2>1. ~old.runs_cached /\ UNCHANGED <<key, keys_made, cleaned, disk>>
      BY Zenon, <1>8, <1>17 DEF ReadIr, At
  <2>2. CASE Goto(p, "read_schema")
    <3> DEFINE r == [old EXCEPT !.pc = "read_schema"]
    <3>1. r \in ColdStarts /\ r.key = old.key /\ r.pc = "read_schema"
        BY Zenon, <1>1 DEF ColdStarts, Labels
    <3>2. Coherent(r)
        BY Zenon, <1>1, <1>17, <2>1 DEF ReadIr, At, ColdStarts, Coherent, Resolving
    <3>3. proc' = [proc EXCEPT ![p] = r]
        BY Zenon, <2>2 DEF Goto
    <3> HIDE DEF r
    <3> QED
        BY Zenon, <1>3, <2>1, <3>1, <3>2, <3>3
  <2>3. CASE Discard(p, <<"object">>, "build") \/ Discard(p, <<"ir", "object">>, "build")
      BY Zenon, <1>5, <1>7, <2>1, <2>3
  <2> QED
      BY Zenon, <1>17, <2>2, <2>3 DEF ReadIr
<1>18. CASE ReadSchema(p)
  <2>1. /\ ~old.runs_cached /\ UNCHANGED <<key, keys_made, cleaned, disk>>
        /\ old.object \in Seals /\ old.object.key = old.key
      BY Zenon, <1>1, <1>8, <1>18 DEF ReadSchema, At, Coherent
  <2>2. CASE /\ Tagged(disk["schema"], p) /\ disk["schema"].body = old.object.body
             /\ proc' = [proc EXCEPT ![p].schema = disk["schema"], ![p].pc = "dlopen"]
    <3> DEFINE r == [old EXCEPT !.schema = disk["schema"], !.pc = "dlopen"]
    <3>1. disk["schema"] \in Contents /\ disk["schema"] \in Seals
        BY Zenon, <1>2, <2>2, KindsAreDistinct DEF Files, Tagged
    <3>2. disk["schema"] = Sealed(old.key, old.object.body)
        BY Zenon, <2>2, <3>1, KindsAreDistinct DEF Tagged
    <3>3. r \in ColdStarts /\ r.key = old.key /\ r.pc = "dlopen"
        BY Zenon, <1>1, <3>1 DEF ColdStarts, Labels
    <3>4. Coherent(r)
        BY Zenon, <1>1, <2>1, <3>2 DEF ColdStarts, Coherent, Resolving
    <3>5. proc' = [proc EXCEPT ![p] = r]
        BY Zenon, <2>2
    <3> HIDE DEF r
    <3> QED
        BY Zenon, <1>3, <2>1, <3>3, <3>4, <3>5
  <2>3. CASE Discard(p, Triple, "build")
      BY Zenon, <1>5, <1>7, <2>1, <2>3
  <2> QED
      BY Zenon, <1>18, <2>2, <2>3 DEF ReadSchema
<1>19. CASE Dlopen(p)
  <2> DEFINE r == [old EXCEPT !.pc = "run", !.runs_cached = TRUE]
  <2>1. r \in ColdStarts /\ r.key = old.key /\ r.pc = "run"
      BY Zenon, <1>1 DEF ColdStarts, Labels
  <2>2. Coherent(r)
      BY Zenon, <1>1, <1>19 DEF Dlopen, At, ColdStarts, Coherent, Resolving
  <2>3. proc' = [proc EXCEPT ![p] = r]
      BY Zenon, <1>19 DEF Dlopen
  <2> HIDE DEF r
  <2> QED
      BY Zenon, <1>3, <1>19, <2>1, <2>2, <2>3 DEF Dlopen
<1>20. CASE Remove(p)
  <2> DEFINE todo == old.todo
             r == [old EXCEPT !.todo = Tail(@), !.pc = IF Len(todo) = 1 THEN old.after ELSE @]
  <2>1. /\ todo \in Seq(Files) /\ todo # <<>> /\ old.pc = "remove"
        /\ old.after \in {"build", "run"} /\ ~old.runs_cached
      BY Zenon, <1>1, <1>8, <1>20 DEF Remove, At, ColdStarts, Coherent
  <2>2. proc' = [proc EXCEPT ![p] = r]
      BY Zenon, <1>20 DEF Remove
  <2>3. /\ disk' = [disk EXCEPT ![Head(todo)] = Absent]
        /\ UNCHANGED <<key, keys_made, cleaned>>
      BY Zenon, <1>20 DEF Remove
  <2>4. /\ Tail(todo) \in Seq(Files) /\ Head(todo) \in Files
        /\ Len(todo) # 1 => Tail(todo) # <<>>
    <3> HIDE DEF todo
    <3> QED
        BY <2>1, NonEmptyTodo
  <2>5. disk' \in [Files -> Contents]
      BY Zenon, <1>2, <2>3, <2>4 DEF Contents
  <2>6. r \in ColdStarts /\ r.key = old.key /\ r.pc \in {"remove", "build", "run"}
      BY Zenon, <1>1, <2>1, <2>4 DEF ColdStarts, Labels
  <2>7. Coherent(r)
      BY Zenon, <1>1, <2>1, <2>4, <2>6 DEF ColdStarts, Coherent, Resolving
  <2> HIDE DEF r
  <2> QED
      BY Zenon, <2>2, <2>3, <2>5, <2>6, <2>7, OneStart
<1>21. CASE Link(p)
  <2> DEFINE o == Sealed(old.key, LinkerOutput[p])
             r == [old EXCEPT !.object = o, !.pc = "put_object"]
  <2>1. old.key \in Nat /\ ~old.runs_cached
      BY Zenon, <1>1, <1>8, <1>21 DEF Link, At, ColdStarts
  <2>2. o \in Seals /\ o \in Contents
      BY Zenon, <2>1, KindsAreDistinct DEF Bodies, Contents
  <2>3. proc' = [proc EXCEPT ![p] = r]
      BY Zenon, <1>21 DEF Link
  <2> HIDE DEF o
  <2>4. r \in ColdStarts /\ r.key = old.key /\ r.pc = "put_object"
      BY Zenon, <1>1, <2>2 DEF ColdStarts, Labels
  <2>5. Coherent(r)
      BY Zenon, <1>1, <2>1, <2>2 DEF ColdStarts, Coherent, Resolving
  <2> HIDE DEF r
  <2> QED
      BY Zenon, <1>3, <1>21, <2>3, <2>4, <2>5 DEF Link
<1>22. CASE PutObject(p)
  <2> DEFINE r == [old EXCEPT !.pc = "put_ir"]
  <2>1. ~old.runs_cached /\ old.object \in Seals
      BY Zenon, <1>1, <1>8, <1>22 DEF PutObject, At, Coherent
  <2>2. r \in ColdStarts /\ r.key = old.key /\ r.pc = "put_ir"
      BY Zenon, <1>1 DEF ColdStarts, Labels
  <2>3. Coherent(r)
      BY Zenon, <1>1, <2>1 DEF ColdStarts, Coherent, Resolving
  <2>4. proc' = [proc EXCEPT ![p] = r]
      BY Zenon, <1>22 DEF PutObject, Goto
  <2>5. disk' \in [Files -> Contents]
      BY Zenon, <1>2, <1>22, <2>1 DEF PutObject, Contents
  <2> HIDE DEF r
  <2> QED
      BY Zenon, <1>22, <2>2, <2>3, <2>4, <2>5, OneStart DEF PutObject
<1>23. CASE PutIr(p)
  <2>1. ~old.runs_cached /\ old.object \in Seals
      BY Zenon, <1>1, <1>8, <1>23 DEF PutIr, At, Coherent
  <2>2. disk' \in [Files -> Contents]
      BY Zenon, <1>2, <1>23 DEF PutIr, Contents
  <2> QED
      BY Zenon, <1>6, <1>23, <2>1, <2>2 DEF PutIr
<1>24. CASE PutSchema(p)
  <2>1. ~old.runs_cached /\ old.object \in Seals /\ old.key \in Nat
      BY Zenon, <1>1, <1>8, <1>24 DEF PutSchema, At, Coherent, ColdStarts
  <2>2. Sealed(old.key, old.object.body) \in Contents
      BY <2>1, KindsAreDistinct DEF Seals, Contents
  <2>3. disk' \in [Files -> Contents]
      BY Zenon, <1>2, <1>24, <2>2 DEF PutSchema
  <2> QED
      BY Zenon, <1>4, <1>24, <2>1, <2>3 DEF PutSchema, Labels, Resolving
<1>25. ASSUME proc' = [proc EXCEPT ![p] = Idle], UNCHANGED <<key, keys_made, cleaned, disk>>
       PROVE  Inv'
  <2>1. Idle.key = NoKey /\ Idle.pc # "key_write"
      BY DEF Idle
  <2> QED
      BY Zenon, <1>2, <1>25, <2>1, IdleIsCoherent, OneStart
<1>26. CASE Run(p) \/ Crash(p)
    BY Zenon, <1>25, <1>26 DEF Run, Crash
<1>27. CASE ReadFails(p) \/ DlopenFails(p) \/ StoreFails(p)
  <2>1. ~old.runs_cached /\ UNCHANGED <<key, keys_made, cleaned, disk>>
      BY Zenon, <1>8, <1>27 DEF ReadFails, DlopenFails, StoreFails, At
  <2>2. \/ Goto(p, "build") \/ Goto(p, "run") \/ Discard(p, <<"object">>, "build")
        \/ Discard(p, <<"object">>, "run") \/ Discard(p, Triple, "build")
      BY Zenon, <1>27 DEF ReadFails, DlopenFails, StoreFails
  <2> QED
      BY Zenon, <1>2, <1>4, <1>5, <1>7, <2>1, <2>2 DEF Labels, Resolving
<1>28. CASE EmitFails(p)
  <2>1. disk' \in [Files -> Contents] /\ ~old.runs_cached
      BY Zenon, <1>2, <1>8, <1>28 DEF EmitFails, At, Contents
  <2> QED
      BY Zenon, <1>4, <1>28, <2>1 DEF EmitFails, Labels, Resolving
<1> QED
    BY Zenon, <1>9, <1>10, <1>13, <1>14, <1>15, <1>16, <1>17, <1>18, <1>19, <1>20, <1>21, <1>22,
       <1>23, <1>24, <1>26, <1>27, <1>28 DEF Step, Disturbance

LEMMA NextInv == Inv /\ [Next]_vars => Inv'
<1> SUFFICES ASSUME Inv, [Next]_vars PROVE Inv'
    OBVIOUS
<1>1. CASE PowerLoss
  <2>1. disk' \in [Files -> Contents]
      BY Zenon, <1>1 DEF PowerLoss, Inv, Types, Contents
  <2>2. /\ key' \in {Absent} \cup {Key(k) : k \in Nat \ {0}} \cup {Short(p) : p \in Procs}
        /\ proc' = [p \in Procs |-> Idle] /\ UNCHANGED <<keys_made, cleaned>>
      BY Zenon, <1>1 DEF PowerLoss, Inv, Types
  <2>3. Types' /\ \A q \in Procs : Coherent(proc'[q])
      BY Zenon, <2>1, <2>2, IdleIsCoherent DEF Inv, Types
  <2>4. KeyIsShared'
      BY <2>2 DEF KeyIsShared, Idle
  <2> QED
      BY Zenon, <2>3, <2>4 DEF Inv
<1>2. CASE CleanUp
    BY Zenon, <1>2 DEF CleanUp, Inv, Types, KeyIsShared
<1>3. CASE UNCHANGED vars
    BY Zenon, <1>3 DEF vars, Inv, Types, KeyIsShared
<1> QED
    BY Zenon, <1>1, <1>2, <1>3, StepInv DEF Next

LEMMA AlwaysInv == Spec => []Inv
BY InitInv, NextInv, PTL DEF Spec

\* from_cache_dir hands an evaluator the object and the sidecar of one store,
\* both under the key the process holds, for any number of cold starts that
\* load, store and remove the three files at the same time.
THEOREM CachedProgramsAreWhole == Spec => []CachedProgramIsWhole
<1>1. Inv => CachedProgramIsWhole
    BY Zenon DEF Inv, Coherent, Seals, CachedProgramIsWhole
<1> QED
    BY <1>1, AlwaysInv, PTL

\* ensure_key: any number of processes that race to create the key file end up
\* with the key that is in it.
THEOREM KeysAgree == Spec => []OneKey
<1>1. Inv => OneKey
    BY Zenon DEF Inv, KeyIsShared, OneKey
<1> QED
    BY <1>1, AlwaysInv, PTL

-----------------------------------------------------------------------------
(* The dispatch of an AutoEvaluator.                                       *)

AutoStates == {"idle", "get_aot", "get_err", "build", "set", "built", "failed", "running"}

Backends == [backend : {"none", "tree_walk", "aot"}, build : Nat]

AutoTypes ==
    /\ aot \in Nat /\ builds \in Nat
    /\ aot_init_err \in {Unset, "unsupported", "error"}
    /\ pc \in [Threads -> AutoStates]
    /\ got \in [Threads -> [outcome : {"none", "ok", "unsupported", "error"}, build : Nat]]
    /\ on \in [Threads -> Backends]
    /\ settled \in [Threads -> {"no", "failed", "built"}]

\* A build has a number when it has an outcome, and the success slot is what
\* every call on the compiled backend runs on.
SlotIsShared ==
    \A t \in Threads :
        /\ pc[t] = "set" => got[t].build # 0 /\ got[t].outcome # "none"
        /\ on[t].backend = "aot" => aot # 0 /\ on[t].build = aot
        /\ pc[t] = "built" => on[t].backend = "aot"

\* A trivial #main never leaves the first branch of run_main.
TrivialStaysOut ==
    is_trivial_main => /\ builds = 0 /\ aot = 0
                       /\ \A t \in Threads : pc[t] \in {"idle", "running"}

\* The tree-walker gets any other #main only after the backend declined it.
DeclinedBefore ==
    \A t \in Threads : ~is_trivial_main /\ on[t].backend = "tree_walk"
                       => aot_init_err = "unsupported" /\ ~fallback_panics

\* A call that saw the success slot filled when it began takes the branch of
\* GetAot that finds it: it neither builds nor looks at the failure slot.
SettledCalls ==
    \A t \in Threads : settled[t] = "built" =>
        /\ aot # 0
        /\ pc[t] \in {"idle", "get_aot", "built", "running"}
        /\ pc[t] = "running" => on[t].backend = "aot"

AutoInv == AutoTypes /\ SlotIsShared /\ TrivialStaysOut /\ DeclinedBefore /\ SettledCalls

LEMMA AutoInitInv == AutoInit => AutoInv
BY DEF AutoInit, AutoInv, AutoTypes, SlotIsShared, TrivialStaysOut, DeclinedBefore,
       SettledCalls, AutoStates,
       Unset, NotBuilt, Nowhere, Backends

LEMMA AutoStepInv == AutoInv /\ [AutoNext]_autoVars => AutoInv'
<1> SUFFICES ASSUME AutoInv, [AutoNext]_autoVars PROVE AutoInv'
    OBVIOUS
<1> USE DEF AutoInv, AutoStates, Unset, NotBuilt, Enter
<1>0. /\ Nowhere \in Backends /\ TreeWalk \in Backends
      /\ \A b \in Nat : Aot(b) \in Backends
    BY DEF Nowhere, TreeWalk, Aot, Backends
<1>1. ASSUME NEW t \in Threads, Call(t) PROVE AutoInv'
  <2>1. AutoTypes'
      BY SMTT(60), <1>1, <1>0 DEF Call, RunMain, AutoTypes
  <2>2. SlotIsShared'
      BY <1>1
         DEF Call, RunMain, AutoTypes, SlotIsShared, TrivialStaysOut, TreeWalk,
             Backends
  <2>3. TrivialStaysOut'
      BY <1>1 DEF Call, RunMain, AutoTypes, TrivialStaysOut, TreeWalk, Backends
  <2>4. DeclinedBefore'
      BY <1>1
         DEF Call, RunMain, AutoTypes, DeclinedBefore, TrivialStaysOut, SlotIsShared,
             TreeWalk, Backends
  <2>5. SettledCalls'
      BY <1>1
         DEF Call, RunMain, AutoTypes, SettledCalls, TrivialStaysOut, SlotIsShared,
             TreeWalk, Backends
  <2> QED
      BY <2>1, <2>2, <2>3, <2>4, <2>5
<1>2. ASSUME NEW t \in Threads, CallStep(t) PROVE AutoInv'
  <2> USE <1>2 DEF CallStep
  <2>1. CASE GetAot(t)
    <3>1. AutoTypes'
        BY ZenonT(40), <2>1, <1>0 DEF GetAot, AutoTypes
    <3>2. SlotIsShared'
        BY <2>1 DEF GetAot, AutoTypes, SlotIsShared, TrivialStaysOut, Aot, Backends
    <3>3. TrivialStaysOut'
        BY <2>1 DEF GetAot, AutoTypes, TrivialStaysOut, Aot, Backends
    <3>4. DeclinedBefore'
      <4>1. \A u \in Threads : on'[u].backend = "tree_walk" => on[u].backend = "tree_walk"
          BY <2>1 DEF GetAot, AutoTypes, Aot, Backends
      <4> QED
          BY <2>1, <4>1 DEF GetAot, DeclinedBefore
    <3>5. SettledCalls'
        BY <2>1
           DEF GetAot, AutoTypes, SettledCalls, TrivialStaysOut, SlotIsShared, Aot,
               Backends
    <3> QED
        BY <3>1, <3>2, <3>3, <3>4, <3>5
  <2>2. CASE GetErr(t)
    <3>1. AutoTypes'
        BY <2>2, <1>0 DEF GetErr, AutoTypes
    <3>2. SlotIsShared'
        BY <2>2 DEF GetErr, AutoTypes, SlotIsShared, TrivialStaysOut
    <3>3. TrivialStaysOut'
        BY <2>2 DEF GetErr, AutoTypes, TrivialStaysOut
    <3>4. DeclinedBefore'
        BY <2>2 DEF GetErr, AutoTypes, DeclinedBefore, TrivialStaysOut, SlotIsShared
    <3>5. SettledCalls'
        BY <2>2 DEF GetErr, AutoTypes, SettledCalls, TrivialStaysOut, SlotIsShared
    <3> QED
        BY <3>1, <3>2, <3>3, <3>4, <3>5
  <2>3. CASE BuildAot(t)
    <3>1. AutoTypes'
        BY <2>3, <1>0, OutcomesAssumption DEF BuildAot, AutoTypes
    <3>2. SlotIsShared'
        BY <2>3, OutcomesAssumption DEF BuildAot, AutoTypes, SlotIsShared, TrivialStaysOut
    <3>3. TrivialStaysOut'
        BY <2>3, OutcomesAssumption DEF BuildAot, AutoTypes, TrivialStaysOut
    <3>4. DeclinedBefore'
        BY <2>3, OutcomesAssumption DEF BuildAot, AutoTypes, DeclinedBefore, TrivialStaysOut,
               SlotIsShared
    <3>5. SettledCalls'
        BY <2>3, OutcomesAssumption DEF BuildAot, AutoTypes, SettledCalls, TrivialStaysOut,
               SlotIsShared
    <3> QED
        BY <3>1, <3>2, <3>3, <3>4, <3>5
  <2>4. CASE SetSlot(t)
    <3>1. AutoTypes'
      <4>1. got[t].build \in Nat /\ got[t].outcome \in {"none", "ok", "unsupported", "error"}
          BY DEF AutoTypes
      <4>2. aot' \in Nat
          BY <2>4, <4>1 DEF SetSlot, AutoTypes
      <4>3. on' \in [Threads -> Backends]
          BY <2>4, <1>0, <4>2 DEF SetSlot, AutoTypes
      <4>4. pc' \in [Threads -> AutoStates]
          BY <2>4 DEF SetSlot, AutoTypes
      <4> QED
          BY <2>4, <4>1, <4>2, <4>3, <4>4 DEF SetSlot, AutoTypes, SlotIsShared
    <3>2. SlotIsShared'
        BY <2>4 DEF SetSlot, AutoTypes, SlotIsShared, TrivialStaysOut, Aot, Backends
    <3>3. TrivialStaysOut'
        BY <2>4 DEF SetSlot, AutoTypes, TrivialStaysOut, Aot, Backends
    <3>4. DeclinedBefore'
        BY <2>4
           DEF SetSlot, AutoTypes, DeclinedBefore, TrivialStaysOut, SlotIsShared,
               Aot, Backends
    <3>5. SettledCalls'
        BY <2>4
           DEF SetSlot, AutoTypes, SettledCalls, TrivialStaysOut, SlotIsShared, Aot,
               Backends
    <3> QED
        BY <3>1, <3>2, <3>3, <3>4, <3>5
  <2>5. CASE DispatchAot(t)
    <3>1. AutoTypes'
        BY <2>5, <1>0 DEF DispatchAot, AutoTypes
    <3>2. SlotIsShared'
        BY <2>5 DEF DispatchAot, AutoTypes, SlotIsShared, TrivialStaysOut
    <3>3. TrivialStaysOut'
        BY <2>5 DEF DispatchAot, AutoTypes, TrivialStaysOut
    <3>4. DeclinedBefore'
        BY <2>5 DEF DispatchAot, AutoTypes, DeclinedBefore, TrivialStaysOut, SlotIsShared
    <3>5. SettledCalls'
        BY <2>5 DEF DispatchAot, AutoTypes, SettledCalls, TrivialStaysOut, SlotIsShared
    <3> QED
        BY <3>1, <3>2, <3>3, <3>4, <3>5
  <2>6. CASE DispatchFailure(t)
    <3>1. AutoTypes'
        BY <2>6, <1>0 DEF DispatchFailure, Give, AutoTypes
    <3>2. SlotIsShared'
        BY <2>6
           DEF DispatchFailure, AutoTypes, SlotIsShared, TrivialStaysOut, Give,
               Nowhere, TreeWalk, Backends
    <3>3. TrivialStaysOut'
        BY <2>6
           DEF DispatchFailure, AutoTypes, TrivialStaysOut, Give, Nowhere,
               TreeWalk, Backends
    <3>4. DeclinedBefore'
        BY <2>6
           DEF DispatchFailure, AutoTypes, DeclinedBefore, TrivialStaysOut, SlotIsShared,
               Give, Nowhere, TreeWalk, Backends
    <3>5. SettledCalls'
        BY <2>6
           DEF DispatchFailure, AutoTypes, SettledCalls, TrivialStaysOut, SlotIsShared,
               Give, Nowhere, TreeWalk, Backends
    <3> QED
        BY <3>1, <3>2, <3>3, <3>4, <3>5
  <2>7. CASE Return(t)
    <3>1. AutoTypes'
        BY <2>7, <1>0 DEF Return, Give, AutoTypes
    <3>2. SlotIsShared'
        BY <2>7
           DEF Return, AutoTypes, SlotIsShared, TrivialStaysOut, Give, Nowhere,
               Backends
    <3>3. TrivialStaysOut'
        BY <2>7 DEF Return, AutoTypes, TrivialStaysOut, Give, Nowhere, Backends
    <3>4. DeclinedBefore'
        BY <2>7
           DEF Return, AutoTypes, DeclinedBefore, TrivialStaysOut, SlotIsShared,
               Give, Nowhere, Backends
    <3>5. SettledCalls'
        BY <2>7
           DEF Return, AutoTypes, SettledCalls, TrivialStaysOut, SlotIsShared, Give,
               Nowhere, Backends
    <3> QED
        BY <3>1, <3>2, <3>3, <3>4, <3>5
  <2> QED
      BY <2>1, <2>2, <2>3, <2>4, <2>5, <2>6, <2>7
<1>3. CASE UNCHANGED autoVars
    BY <1>3
       DEF autoVars, AutoTypes, SlotIsShared, TrivialStaysOut, DeclinedBefore, SettledCalls
<1> QED
    BY <1>1, <1>2, <1>3 DEF AutoNext

LEMMA AutoAlwaysInv == AutoSpec => []AutoInv
BY AutoInitInv, AutoStepInv, PTL DEF AutoSpec

\* A call that begins once the success slot is filled runs on the compiled
\* backend, whatever builds raced for the two slots of run_main.
THEOREM BuiltForGood == AutoSpec => []BuiltIsForGood
<1>1. AutoInv => BuiltIsForGood
    BY DEF AutoInv, AutoTypes, SlotIsShared, SettledCalls, BuiltIsForGood
<1> QED
    BY <1>1, AutoAlwaysInv, PTL

\* All calls on the compiled backend share the winner's evaluator; the trivial
\* and the declined are the only ones on the tree-walker.
THEOREM SharedEvaluator == AutoSpec => []OneEvaluator
<1>1. AutoInv => OneEvaluator
    BY DEF AutoInv, SlotIsShared, TrivialStaysOut, DeclinedBefore, OneEvaluator
<1> QED
    BY <1>1, AutoAlwaysInv, PTL

-----------------------------------------------------------------------------
(* The step budget of a compiled program.                                  *)

\* Of a budget of n, what is left is what has not been taken; once nothing is,
\* the counter holds the mark.
BudgetInv ==
    /\ budget = <<>> \/ \E n \in Nat : budget = <<n>>
    /\ ticks \in Nat
    /\ budget = <<>> => step_budget = 0
    /\ \A n \in Nat : budget = <<n>> =>
          /\ ticks <= Limit(n)
          /\ step_budget = IF ticks = Limit(n) THEN -1 ELSE Limit(n) - ticks
    /\ status = "ResourceExhausted" => budget # <<>> /\ step_budget = -1

LEMMA LimitIsNatural == \A n \in Nat : Limit(n) \in Nat /\ (Limit(n) = 0 <=> n = 0)
BY BudgetAssumption DEF Limit

LEMMA BudgetInitInv == BudgetInit => BudgetInv
<1> SUFFICES ASSUME BudgetInit PROVE BudgetInv
    OBVIOUS
<1>1. CASE budget = <<>>
    BY <1>1 DEF BudgetInit, BudgetInv, step_budget_to_i64
<1>2. CASE budget # <<>>
  <2>1. PICK n \in Nat : budget = <<n>>
    <3>1. budget \in Seq(Nat)
        BY DEF BudgetInit
    <3>2. Len(budget) \in Nat \ {0}
        BY <1>2, <3>1, EmptySeq
    <3>3. Len(budget) = 1
      <4>1. Len(budget) <= 1
          BY DEF BudgetInit
      <4> DEFINE l == Len(budget)
      <4> HIDE DEF l
      <4>2. l \in Nat \ {0} /\ l <= 1
          BY Zenon, <3>2, <4>1 DEF l
      <4>3. l = 1
          BY <4>2
      <4> QED
          BY Zenon, <4>3 DEF l
    <3>4. budget[1] \in Nat
      <4>1. 1 \in 1 .. Len(budget)
          BY <3>3
      <4> QED
          BY Zenon, <3>1, <4>1, ElementOfSeq
    <3>5. <<budget[1]>> \in Seq(Nat) /\ Len(<<budget[1]>>) = 1
        BY <3>4
    <3>6. budget = <<budget[1]>>
        BY SMTT(30), <3>1, <3>3, <3>5, SeqEqual
    <3> QED
        BY <3>4, <3>6
  <2>2. step_budget = IF n = 0 THEN -1 ELSE Limit(n)
      BY <2>1 DEF BudgetInit, step_budget_to_i64
  <2>3. Limit(n) \in Nat /\ (Limit(n) = 0 <=> n = 0)
      BY LimitIsNatural
  <2>4. ASSUME NEW k \in Nat, budget = <<k>> PROVE k = n
      BY <2>1, <2>4
  <2> QED
      BY <2>1, <2>2, <2>3, <2>4 DEF BudgetInit, BudgetInv
<1> QED
    BY <1>1, <1>2

LEMMA BudgetStepInv == BudgetInv /\ [BudgetNext]_budgetVars => BudgetInv'
<1> SUFFICES ASSUME BudgetInv, [BudgetNext]_budgetVars PROVE BudgetInv'
    OBVIOUS
<1>1. CASE UNCHANGED budgetVars
    BY <1>1 DEF budgetVars, BudgetInv
<1>2. CASE status = "run" /\ OtherStep
    BY <1>2 DEF OtherStep, BudgetInv
<1>3. CASE status = "run" /\ emit_step_budget_check
  <2>1. CASE budget = <<>>
      BY <1>3, <2>1 DEF emit_step_budget_check, BudgetInv
  <2>2. CASE budget # <<>>
    <3>1. PICK n \in Nat : budget = <<n>>
        BY <2>2 DEF BudgetInv
    <3>2. Limit(n) \in Nat
        BY LimitIsNatural
    <3>3. /\ ticks \in Nat /\ ticks <= Limit(n)
          /\ step_budget = IF ticks = Limit(n) THEN -1 ELSE Limit(n) - ticks
        BY <3>1 DEF BudgetInv
    <3>4. budget' = <<n>>
        BY <1>3, <3>1 DEF emit_step_budget_check
    <3>5. \A k \in Nat : budget' = <<k>> => k = n
        BY <3>4
    <3>6. CASE ticks = Limit(n)
      <4>1. step_budget = -1
          BY <3>3, <3>6
      <4>2. step_budget' = -1 /\ ticks' = ticks
          BY <1>3, <4>1 DEF emit_step_budget_check
      <4> QED
          BY <3>2, <3>3, <3>4, <3>5, <3>6, <4>2 DEF BudgetInv
    <3>7. CASE ticks # Limit(n)
      <4>1. step_budget = Limit(n) - ticks /\ step_budget > 0
          BY <3>2, <3>3, <3>7
      <4>2. /\ step_budget' = IF step_budget = 1 THEN -1 ELSE step_budget - 1
            /\ ticks' = ticks + 1 /\ status' = "run"
          BY <1>3, <4>1 DEF emit_step_budget_check
      <4>3. ticks' \in Nat /\ ticks' <= Limit(n)
          BY <3>2, <3>3, <3>7, <4>2
      <4>4. step_budget' = IF ticks' = Limit(n) THEN -1 ELSE Limit(n) - ticks'
          BY <3>2, <3>3, <4>1, <4>2
      <4> QED
          BY <3>4, <3>5, <4>2, <4>3, <4>4 DEF BudgetInv
    <3> QED
        BY <3>6, <3>7
  <2> QED
      BY <2>1, <2>2
<1> QED
    BY <1>1, <1>2, <1>3 DEF BudgetNext

\* set_step_budget(Some(n)): the generated code passes emit_step_budget_check n
\* times (i64::MAX times at most) and is stopped at the next, for every limit
\* and for every program that keeps to the protocol.
THEOREM BudgetIsSpentExactly == BudgetSpec => []BudgetIsExact
<1>1. BudgetInv => BudgetIsExact
  <2> SUFFICES ASSUME BudgetInv, budget # <<>>
               PROVE  /\ ticks <= Limit(budget[1])
                      /\ status = "ResourceExhausted" => ticks = Limit(budget[1])
      BY DEF BudgetInv, BudgetIsExact
  <2>1. PICK n \in Nat : budget = <<n>>
      BY DEF BudgetInv
  <2>2. Limit(n) \in Nat /\ budget[1] = n
      BY <2>1, LimitIsNatural
  <2>3. /\ ticks \in Nat /\ ticks <= Limit(n)
        /\ step_budget = IF ticks = Limit(n) THEN -1 ELSE Limit(n) - ticks
        /\ status = "ResourceExhausted" => step_budget = -1
      BY <2>1 DEF BudgetInv
  <2> QED
      BY <2>2, <2>3
<1> QED
    BY <1>1, BudgetInitInv, BudgetStepInv, PTL DEF BudgetSpec
=============================================================================
