---------------------- MODULE RemoteImportCacheProofs ----------------------
(***************************************************************************)
(* What the origin confirms is what it has, and validators stay with their *)
(* bodies, for any number of processes, versions and faults.               *)
(***************************************************************************)
EXTENDS RemoteImportCache, TLAPS, SequenceTheorems

\* Meta files whose validator, if there is one, is of the text of the digest.
SoundMetas == {m \in Metas : m.etag # NoTag => m.body_sha256 = Whole(m.etag)}

\* Writes that put no other meta file in place.
SoundWrites == [op : {"body"}, text : Texts] \cup [op : {"meta"}, meta : SoundMetas]

Labels == {"idle", "load_body", "load_meta", "remove_body", "remove_meta", "open", "fill",
           "request", "answer"}
Confirmed == {"fetched", "not_modified"}

Resolves == [pc : Labels, text : Texts \cup {Absent}, meta : SoundMetas \cup {Absent},
             todo : Seq(SoundWrites), after : {"none", "request", "answer"},
             via : {"none", "cache"} \cup Confirmed, at : 0..MaxVersion]

Types ==
    /\ origin \in 1..MaxVersion
    /\ legacy \in {Absent, Whole(1)}
    /\ body \in Texts \cup {Absent}
    /\ meta \in SoundMetas \cup {Absent, Unreadable}
    /\ proc \in [Procs -> Resolves]
    /\ faults \in 0..MaxFaults

\* Of a resolve: a process that writes has something to write and knows where
\* to go then; one past the load that goes by a text holds the meta file with
\* the digest of that text; one that may still load or send a request has not
\* been confirmed, and one that has been holds the text of that moment.
Coherent(r) ==
    /\ r.pc \in {"open", "fill"} => Len(r.todo) \in {1, 2} /\ r.after # "none"
    /\ r.pc \notin {"open", "fill"} => r.todo = <<>>
    /\ r.pc = "load_meta" => r.text # Absent
    /\ r.pc \in {"idle", "load_body", "remove_body", "remove_meta"} => r.text = Absent
    /\ r.pc \in {"request", "open", "fill", "answer"} /\ r.text # Absent =>
          r.meta # Absent /\ r.meta.body_sha256 = r.text
    /\ r.via \in Confirmed =>
          /\ r.text = Whole(r.at)
          /\ r.pc = "answer" \/ (r.pc \in {"open", "fill"} /\ r.after = "answer")

Inv == Types /\ \A p \in Procs : Coherent(proc[p])

LEMMA TextsAreDistinct ==
    /\ \A v, w : Whole(v) = Whole(w) => v = w
    /\ Absent \notin Texts
    /\ Absent \notin Metas /\ Unreadable \notin Metas
    /\ \A v \in 1..MaxVersion : Whole(v) \in Texts /\ CutOff(v) \in Texts
    /\ \A t \in Texts : t.of \in 1..MaxVersion
<1>1. \A v, w : Whole(v) = Whole(w) => v = w
    BY DEF Whole
<1>2. Absent \notin Texts
    BY Zenon DEF Absent, Texts, Whole, CutOff
<1>3. Absent \notin Metas /\ Unreadable \notin Metas
    BY DEF Absent, Unreadable, Metas
<1>4. \A v \in 1..MaxVersion : Whole(v) \in Texts /\ CutOff(v) \in Texts
    BY DEF Texts
<1>5. \A t \in Texts : t.of \in 1..MaxVersion
    BY DEF Texts, Whole, CutOff
<1> QED
    BY <1>1, <1>2, <1>3, <1>4, <1>5

LEMMA WritesAreSound ==
    ASSUME NEW m \in SoundMetas
    PROVE  /\ <<PutMeta(m)>> \in Seq(SoundWrites) /\ Len(<<PutMeta(m)>>) = 1
           /\ \A t \in Texts : /\ <<PutBody(t), PutMeta(m)>> \in Seq(SoundWrites)
                               /\ Len(<<PutBody(t), PutMeta(m)>>) = 2
<1>1. PutMeta(m) \in SoundWrites
    BY DEF PutMeta, SoundWrites
<1>2. \A t \in Texts : PutBody(t) \in SoundWrites
    BY DEF PutBody, SoundWrites
<1>3. \A a, b \in SoundWrites : /\ <<a>> \in Seq(SoundWrites) /\ Len(<<a>>) = 1
                                /\ <<a, b>> \in Seq(SoundWrites) /\ Len(<<a, b>>) = 2
    OBVIOUS
<1> QED
    BY <1>1, <1>2, <1>3

\* A meta file without a validator, or with the one of its text.
LEMMA MadeMetas ==
    ASSUME NEW text \in Texts, NEW fresh \in BOOLEAN, NEW tag \in 0..MaxVersion,
           tag = NoTag \/ text = Whole(tag)
    PROVE  /\ Meta(tag, text, fresh) \in SoundMetas
           /\ Meta(tag, text, fresh).body_sha256 = text
           /\ Meta(tag, text, fresh) # Absent
BY DEF Meta, SoundMetas, Metas, Absent

LEMMA RestOfWrites ==
    ASSUME NEW todo \in Seq(SoundWrites), Len(todo) \in {1, 2}
    PROVE  /\ Tail(todo) \in Seq(SoundWrites) /\ Head(todo) \in SoundWrites
           /\ Len(todo) = 1 => Tail(todo) = <<>>
           /\ Len(todo) # 1 => Len(Tail(todo)) = 1
<1>1. todo # <<>>
    BY EmptySeq
<1>2. /\ Tail(todo) \in Seq(SoundWrites) /\ Head(todo) \in SoundWrites
      /\ Len(Tail(todo)) = Len(todo) - 1
    BY <1>1, HeadTailProperties
<1>3. ASSUME Len(todo) = 1 PROVE Tail(todo) = <<>>
  <2> DEFINE rest == Tail(todo)
  <2>1. rest \in Seq(SoundWrites) /\ Len(rest) = 0
      BY <1>2, <1>3
  <2> HIDE DEF rest
  <2>2. rest = <<>>
      BY <2>1, EmptySeq
  <2> QED
      BY <2>2 DEF rest
<1> QED
    BY <1>2, <1>3

LEMMA IdleIsCoherent == Idle \in Resolves /\ Coherent(Idle)
<1>1. Idle \in Resolves
    BY ConstantsAssumption DEF Idle, Resolves, Labels, Confirmed
<1>2. Coherent(Idle)
    BY DEF Idle, Coherent, Confirmed
<1> QED
    BY <1>1, <1>2

LEMMA InitInv == Init => Inv
<1> SUFFICES ASSUME Init PROVE Inv
    OBVIOUS
<1>1. Types
    BY IdleIsCoherent, ConstantsAssumption DEF Init, Types
<1> QED
    BY <1>1, IdleIsCoherent DEF Init, Inv

\* A step of one process that leaves it with a coherent resolve.
LEMMA OneResolve ==
    ASSUME Inv, NEW p \in Procs, NEW r \in Resolves, Coherent(r),
           proc' = [proc EXCEPT ![p] = r],
           body' \in Texts \cup {Absent}, meta' \in SoundMetas \cup {Absent, Unreadable},
           faults' \in 0..MaxFaults, UNCHANGED <<origin, legacy>>
    PROVE  Inv'
<1>1. Types'
    BY DEF Inv, Types
<1>2. ASSUME NEW q \in Procs PROVE Coherent(proc[q])'
  <2>1. proc'[q] = IF q = p THEN r ELSE proc[q]
      BY DEF Inv, Types
  <2> QED
      BY <2>1 DEF Inv, Coherent
<1> QED
    BY <1>1, <1>2 DEF Inv

LEMMA StepInv == ASSUME Inv, NEW p \in Procs,
                        Resolve(p) \/ Step(p) \/ RequestFails(p) \/ Crash(p)
                 PROVE  Inv'
<1> DEFINE old == proc[p]
<1>1. old \in Resolves /\ Coherent(old)
    BY DEF Inv, Types
<1>2. /\ body \in Texts \cup {Absent} /\ legacy \in {Absent, Whole(1)}
      /\ meta \in SoundMetas \cup {Absent, Unreadable}
      /\ origin \in 1..MaxVersion /\ origin \in 0..MaxVersion /\ Tags(origin) \subseteq 0..MaxVersion
      /\ faults \in 0..MaxFaults
    BY ConstantsAssumption DEF Inv, Types, Tags, NoTag
<1>3. ASSUME NEW r \in Resolves, Coherent(r), proc' = [proc EXCEPT ![p] = r],
             UNCHANGED <<origin, legacy, body, meta, faults>>
      PROVE  Inv'
    BY Zenon, <1>2, <1>3, OneResolve
<1>4. CASE Resolve(p)
  <2> DEFINE r == [old EXCEPT !.pc = "load_body"]
  <2>1. r \in Resolves
      BY <1>1 DEF Resolves, Labels
  <2>2. Coherent(r)
      BY <1>1, <1>4 DEF Resolve, At, Resolves, Coherent, Confirmed
  <2>3. proc' = [proc EXCEPT ![p] = r]
      BY SMTT(60), <1>4 DEF Resolve
  <2> HIDE DEF r
  <2> QED
      BY Zenon, <1>4, <2>1, <2>2, <2>3, <1>3 DEF Resolve
<1>5. CASE LoadBody(p)
  <2>1. CASE body # Absent /\ proc' = [proc EXCEPT ![p].text = body, ![p].pc = "load_meta"]
    <3> DEFINE r == [old EXCEPT !.text = body, !.pc = "load_meta"]
    <3>1. r \in Resolves
        BY Zenon, <1>1, <1>2 DEF Resolves, Labels
    <3>2. Coherent(r)
        BY Zenon, <1>1, <1>5, <2>1 DEF LoadBody, At, Resolves, Coherent, Confirmed
    <3>3. proc' = [proc EXCEPT ![p] = r]
        BY Zenon, <2>1
    <3> HIDE DEF r
    <3> QED
        BY Zenon, <1>5, <3>1, <3>2, <3>3, <1>3 DEF LoadBody
  <2>2. ASSUME legacy # Absent, NEW fresh \in BOOLEAN,
               proc' = [proc EXCEPT ![p].text = legacy, ![p].meta = Meta(NoTag, legacy, fresh),
                                    ![p].todo = <<PutBody(legacy),
                                                  PutMeta(Meta(NoTag, legacy, fresh))>>,
                                    ![p].pc = "open",
                                    ![p].after = Decide(Meta(NoTag, legacy, fresh)),
                                    ![p].via = "cache"]
        PROVE  Inv'
    <3> DEFINE m == Meta(NoTag, legacy, fresh)
               w == <<PutBody(legacy), PutMeta(m)>>
               r == [old EXCEPT !.text = legacy, !.meta = m, !.todo = w, !.pc = "open",
                                !.after = Decide(m), !.via = "cache"]
    <3>1. legacy \in Texts
        BY <1>2, <2>2, TextsAreDistinct, ConstantsAssumption
    <3>2. m \in SoundMetas /\ m.body_sha256 = legacy /\ m # Absent
        BY Zenon, <1>2, <3>1, MadeMetas DEF Tags
    <3>3. w \in Seq(SoundWrites) /\ Len(w) = 2
        BY <3>1, <3>2, WritesAreSound
    <3>4. Decide(m) \in {"request", "answer"}
        BY DEF Decide
    <3>6. proc' = [proc EXCEPT ![p] = r]
        BY Zenon, <2>2
    <3> HIDE DEF m, w
    <3>7. r \in Resolves
        BY Zenon, <1>1, <3>1, <3>2, <3>3, <3>4 DEF Resolves, Labels
    <3>8. Coherent(r)
        BY SMTT(60), <1>1, <3>2, <3>3, <3>4 DEF Resolves, Coherent, Confirmed
    <3> HIDE DEF r
    <3> QED
        BY Zenon, <1>5, <3>6, <3>7, <3>8, <1>3 DEF LoadBody
  <2>3. CASE /\ body = Absent /\ legacy = Absent
             /\ proc' = [proc EXCEPT ![p].pc = "request"]
    <3> DEFINE r == [old EXCEPT !.pc = "request"]
    <3>1. r \in Resolves
        BY SMTT(60), <1>1 DEF Resolves, Labels
    <3>2. Coherent(r)
        BY Zenon, <1>1, <1>5 DEF LoadBody, At, Resolves, Coherent, Confirmed
    <3>3. proc' = [proc EXCEPT ![p] = r]
        BY <2>3
    <3> HIDE DEF r
    <3> QED
        BY Zenon, <1>5, <3>1, <3>2, <3>3, <1>3 DEF LoadBody
  <2> QED
      BY Zenon, <1>5, <2>1, <2>2, <2>3 DEF LoadBody
<1>6. CASE LoadMeta(p)
  <2>1. CASE /\ meta.is = "meta" /\ meta.body_sha256 = old.text
             /\ proc' = [proc EXCEPT ![p].meta = meta, ![p].pc = Decide(meta),
                                     ![p].via = "cache"]
    <3> DEFINE r == [old EXCEPT !.meta = meta, !.pc = Decide(meta), !.via = "cache"]
    <3>1. meta \in SoundMetas /\ meta # Absent
        BY <1>2, <2>1 DEF Absent, Unreadable
    <3>2. Decide(meta) \in {"request", "answer"}
        BY DEF Decide
    <3>3. r \in Resolves
        BY Zenon, <1>1, <3>1, <3>2 DEF Resolves, Labels
    <3>4. Coherent(r)
        BY Zenon, <1>1, <1>6, <2>1, <3>1, <3>2 DEF LoadMeta, At, Resolves, Coherent, Confirmed
    <3>5. proc' = [proc EXCEPT ![p] = r]
        BY Zenon, <2>1
    <3> HIDE DEF r
    <3> QED
        BY Zenon, <1>6, <3>3, <3>4, <3>5, <1>3 DEF LoadMeta
  <2>2. CASE proc' = [proc EXCEPT ![p].text = Absent, ![p].pc = "remove_body"]
    <3> DEFINE r == [old EXCEPT !.text = Absent, !.pc = "remove_body"]
    <3>1. r \in Resolves
        BY Zenon, <1>1 DEF Resolves, Labels
    <3>2. Coherent(r)
        BY Zenon, <1>1, <1>6 DEF LoadMeta, At, Resolves, Coherent, Confirmed
    <3>3. proc' = [proc EXCEPT ![p] = r]
        BY Zenon, <2>2
    <3> HIDE DEF r
    <3> QED
        BY Zenon, <1>6, <3>1, <3>2, <3>3, <1>3 DEF LoadMeta
  <2>3. CASE proc' = [proc EXCEPT ![p].meta = Meta(NoTag, old.text, TRUE),
                                  ![p].todo = <<PutMeta(Meta(NoTag, old.text, TRUE))>>,
                                  ![p].pc = "open",
                                  ![p].after = Decide(Meta(NoTag, old.text, TRUE)),
                                  ![p].via = "cache"]
    <3> DEFINE m == Meta(NoTag, old.text, TRUE)
               w == <<PutMeta(m)>>
               r == [old EXCEPT !.meta = m, !.todo = w, !.pc = "open", !.after = Decide(m),
                                !.via = "cache"]
    <3>1. old.text \in Texts
      <4>1. old.text \in Texts \cup {Absent}
          BY <1>1 DEF Resolves
      <4>2. old.text # Absent
          BY Zenon, <1>1, <1>6 DEF LoadMeta, At, Coherent
      <4> QED
          BY <4>1, <4>2
    <3>2. m \in SoundMetas /\ m.body_sha256 = old.text /\ m # Absent
        BY Zenon, <1>2, <3>1, MadeMetas DEF Tags
    <3>3. w \in Seq(SoundWrites) /\ Len(w) = 1
        BY Zenon, <3>2, WritesAreSound
    <3>4. Decide(m) \in {"request", "answer"}
        BY DEF Decide
    <3>6. proc' = [proc EXCEPT ![p] = r]
        BY Zenon, <2>3
    <3> HIDE DEF m, w
    <3>7. r \in Resolves
        BY Zenon, <1>1, <3>2, <3>3, <3>4 DEF Resolves, Labels
    <3>8. Coherent(r)
        BY Zenon, <1>1, <3>2, <3>3, <3>4 DEF Resolves, Coherent, Confirmed
    <3> HIDE DEF r
    <3> QED
        BY Zenon, <1>6, <3>6, <3>7, <3>8, <1>3 DEF LoadMeta
  <2> QED
      BY Zenon, <1>6, <2>1, <2>2, <2>3 DEF LoadMeta
<1>7. CASE RemoveBody(p)
  <2> DEFINE r == [old EXCEPT !.pc = "remove_meta"]
  <2>1. r \in Resolves
      BY Zenon, <1>1 DEF Resolves, Labels
  <2>2. Coherent(r)
      BY Zenon, <1>1, <1>7 DEF RemoveBody, At, Resolves, Coherent, Confirmed
  <2>3. proc' = [proc EXCEPT ![p] = r]
      BY Zenon, <1>7 DEF RemoveBody
  <2> HIDE DEF r
  <2> QED
      BY Zenon, <1>2, <1>7, <2>1, <2>2, <2>3, OneResolve DEF RemoveBody
<1>8. CASE RemoveMeta(p)
  <2> DEFINE r == [old EXCEPT !.pc = "request"]
  <2>1. r \in Resolves
      BY Zenon, <1>1 DEF Resolves, Labels
  <2>2. Coherent(r)
      BY Zenon, <1>1, <1>8 DEF RemoveMeta, At, Resolves, Coherent, Confirmed
  <2>3. proc' = [proc EXCEPT ![p] = r]
      BY Zenon, <1>8 DEF RemoveMeta
  <2> HIDE DEF r
  <2> QED
      BY Zenon, <1>2, <1>8, <2>1, <2>2, <2>3, OneResolve DEF RemoveMeta
<1>9. CASE OpenFile(p)
  <2> DEFINE r == [old EXCEPT !.pc = "fill"]
             w == Head(old.todo)
  <2>1. r \in Resolves
      BY Zenon, <1>1 DEF Resolves, Labels
  <2>2. Coherent(r)
      BY Zenon, <1>1, <1>9 DEF OpenFile, At, Resolves, Coherent, Confirmed
  <2>3. proc' = [proc EXCEPT ![p] = r]
      BY Zenon, <1>9 DEF OpenFile
  <2>4. w \in SoundWrites
      BY <1>1, <1>9 DEF OpenFile, At, Resolves, Coherent
  <2>5. w.op = "body" => w.text \in Texts
      BY <2>4 DEF SoundWrites
  <2>6. body' \in Texts \cup {Absent} /\ meta' \in SoundMetas \cup {Absent, Unreadable}
      BY <1>2, <1>9, <2>5, TextsAreDistinct DEF OpenFile
  <2> HIDE DEF r
  <2> QED
      BY Zenon, <1>2, <1>9, <2>1, <2>2, <2>3, <2>6, OneResolve DEF OpenFile
<1>10. CASE FillFile(p)
  <2> DEFINE r == [old EXCEPT !.todo = Tail(@),
                              !.pc = IF Len(old.todo) = 1 THEN old.after ELSE "open"]
             w == Head(old.todo)
  <2>1. /\ old.todo \in Seq(SoundWrites) /\ Len(old.todo) \in {1, 2}
        /\ old.pc = "fill" /\ old.after \in {"request", "answer"}
      BY SMTT(30), <1>1, <1>10 DEF FillFile, At, Resolves, Coherent
  <2>2. /\ Tail(old.todo) \in Seq(SoundWrites)
        /\ Len(old.todo) = 1 => Tail(old.todo) = <<>>
        /\ Len(old.todo) # 1 => Len(Tail(old.todo)) = 1
        /\ w \in SoundWrites
      BY <2>1, RestOfWrites
  <2>3. r \in Resolves
      BY Zenon, <1>1, <2>1, <2>2 DEF Resolves, Labels
  <2>4. Coherent(r)
      BY <1>1, <2>1, <2>2 DEF Resolves, Coherent, Confirmed
  <2>5. proc' = [proc EXCEPT ![p] = r]
      BY Zenon, <1>10 DEF FillFile
  <2>6. /\ w.op = "body" => w.text \in Texts
        /\ w.op = "meta" => w.meta \in SoundMetas
      BY <2>2 DEF SoundWrites
  <2>7. body' \in Texts \cup {Absent} /\ meta' \in SoundMetas \cup {Absent, Unreadable}
    <3>1. CASE w.op = "body" /\ UNCHANGED meta
        BY <1>2, <1>10, <2>6, <3>1, TextsAreDistinct DEF FillFile
    <3>2. CASE w.op = "meta" /\ UNCHANGED body
        BY <1>2, <1>10, <2>6, <3>2 DEF FillFile
    <3> QED
        BY <1>10, <3>1, <3>2 DEF FillFile
  <2> HIDE DEF r
  <2> QED
      BY Zenon, <1>2, <1>10, <2>3, <2>4, <2>5, <2>7, OneResolve DEF FillFile
<1>11. CASE NotModified(p)
  <2>1. PICK tag \in Tags(origin) :
           proc' = [proc EXCEPT
               ![p].todo = <<PutMeta(Meta(IF tag # NoTag THEN tag ELSE old.meta.etag,
                                          old.meta.body_sha256, TRUE))>>,
               ![p].pc = "open", ![p].after = "answer", ![p].via = "not_modified",
               ![p].at = origin]
      BY Zenon, <1>11 DEF NotModified
  <2> DEFINE m == Meta(IF tag # NoTag THEN tag ELSE old.meta.etag, old.meta.body_sha256, TRUE)
             w == <<PutMeta(m)>>
             r == [old EXCEPT !.todo = w, !.pc = "open", !.after = "answer",
                              !.via = "not_modified", !.at = origin]
  <2>2. old.pc = "request" /\ old.text # Absent /\ old.meta.etag = origin
      BY Zenon, <1>11 DEF NotModified, At
  <2>3. old.meta # Absent /\ old.meta.body_sha256 = old.text
      BY Zenon, <1>1, <2>2 DEF Coherent
  <2>4. old.meta \in SoundMetas
      BY <1>1, <2>3 DEF Resolves
  <2>5. old.text = Whole(origin) /\ old.text \in Texts
      BY <1>2, <2>2, <2>3, <2>4 DEF SoundMetas, Metas, NoTag
  <2>7. m \in SoundMetas
      BY Zenon, <1>2, <2>1, <2>2, <2>3, <2>5, MadeMetas DEF Tags
  <2>8. w \in Seq(SoundWrites) /\ Len(w) = 1
      BY Zenon, <2>7, WritesAreSound
  <2>9. proc' = [proc EXCEPT ![p] = r]
      BY Zenon, <2>1
  <2> HIDE DEF m, w
  <2>10. r \in Resolves
      BY Zenon, <1>1, <1>2, <2>8 DEF Resolves, Labels, Confirmed
  <2>11. Coherent(r)
      BY Zenon, <1>1, <2>3, <2>5, <2>8 DEF Resolves, Coherent, Confirmed
  <2> HIDE DEF r
  <2> QED
      BY Zenon, <1>11, <2>9, <2>10, <2>11, <1>3 DEF NotModified
<1>12. CASE Fetched(p)
  <2>1. PICK tag \in Tags(origin) :
           proc' = [proc EXCEPT ![p].text = Whole(origin),
                                ![p].meta = Meta(tag, Whole(origin), TRUE),
                                ![p].todo = <<PutBody(Whole(origin)),
                                              PutMeta(Meta(tag, Whole(origin), TRUE))>>,
                                ![p].pc = "open", ![p].after = "answer",
                                ![p].via = "fetched", ![p].at = origin]
      BY Zenon, <1>12 DEF Fetched
  <2> DEFINE t == Whole(origin)
             m == Meta(tag, t, TRUE)
             w == <<PutBody(t), PutMeta(m)>>
             r == [old EXCEPT !.text = t, !.meta = m, !.todo = w, !.pc = "open",
                              !.after = "answer", !.via = "fetched", !.at = origin]
  <2>2. t \in Texts
      BY <1>2, TextsAreDistinct
  <2>3. m \in SoundMetas /\ m.body_sha256 = t /\ m # Absent
      BY Zenon, <1>2, <2>1, <2>2, MadeMetas DEF Tags
  <2>5. w \in Seq(SoundWrites) /\ Len(w) = 2
      BY Zenon, <2>2, <2>3, WritesAreSound
  <2>6. proc' = [proc EXCEPT ![p] = r]
      BY Zenon, <2>1
  <2> HIDE DEF m, w
  <2>7. r \in Resolves
      BY Zenon, <1>1, <1>2, <2>2, <2>3, <2>5 DEF Resolves, Labels, Confirmed
  <2>8. Coherent(r)
      BY Zenon, <1>1, <2>3, <2>5 DEF Resolves, Coherent, Confirmed
  <2> HIDE DEF r
  <2> QED
      BY Zenon, <1>12, <2>6, <2>7, <2>8, <1>3 DEF Fetched
<1>13. ASSUME proc' = [proc EXCEPT ![p] = Idle], UNCHANGED <<origin, legacy, body, meta>>,
              faults' \in 0..MaxFaults
       PROVE  Inv'
    BY Zenon, <1>2, <1>13, IdleIsCoherent, OneResolve
<1>14. Fault("network") \/ Fault("crash") => faults' \in 0..MaxFaults
    BY <1>2, ConstantsAssumption DEF Fault
<1>15. CASE Answer(p) \/ RequestFails(p) \/ Crash(p)
    BY Zenon, <1>2, <1>13, <1>14, <1>15 DEF Answer, RequestFails, Crash
<1> QED
    BY Zenon, <1>4, <1>5, <1>6, <1>7, <1>8, <1>9, <1>10, <1>11, <1>12, <1>15 DEF Step

LEMMA NextInv == Inv /\ [Next]_vars => Inv'
<1> SUFFICES ASSUME Inv, [Next]_vars PROVE Inv'
    OBVIOUS
<1>1. CASE Publish
  <2>1. origin' \in 1..MaxVersion
      BY <1>1, ConstantsAssumption DEF Publish, Inv, Types
  <2> QED
      BY Zenon, <1>1, <2>1 DEF Publish, Inv, Types, Coherent
<1>2. CASE Expire
  <2>1. meta \in SoundMetas
      BY <1>2 DEF Expire, Inv, Types, Absent, Unreadable
  <2>2. meta' \in SoundMetas
      BY Zenon, <1>2, <2>1 DEF Expire, SoundMetas, Metas
  <2> QED
      BY <1>2, <2>2 DEF Expire, Inv, Types, Coherent
<1>3. CASE UNCHANGED vars
    BY <1>3 DEF vars, Inv, Types, Coherent
<1> QED
    BY <1>1, <1>2, <1>3, StepInv DEF Next

LEMMA AlwaysInv == Spec => []Inv
BY InitInv, NextInv, PTL DEF Spec

\* Types of the two files and of every resolve, for any number of processes.
THEOREM TypesHold == Spec => []TypeOK
<1>1. ASSUME Inv PROVE TypeOK
  <2>1. SoundMetas \subseteq Metas
      BY DEF SoundMetas
  <2>2. ASSUME NEW p \in Procs
        PROVE  /\ proc[p].text \in Texts \cup {Absent}
               /\ proc[p].meta \in Metas \cup {Absent}
               /\ Len(proc[p].todo) =< 2
               /\ proc[p].pc \in {"open", "fill"} => proc[p].todo # <<>>
    <3>1. proc[p] \in Resolves /\ Coherent(proc[p])
        BY <1>1 DEF Inv, Types
    <3>2. /\ proc[p].text \in Texts \cup {Absent}
          /\ proc[p].meta \in Metas \cup {Absent}
        BY <2>1, <3>1 DEF Resolves
    <3>3. /\ Len(proc[p].todo) =< 2
          /\ proc[p].pc \in {"open", "fill"} => proc[p].todo # <<>>
      <4>1. CASE proc[p].pc \in {"open", "fill"}
        <5>1. Len(proc[p].todo) \in {1, 2}
            BY Zenon, <3>1, <4>1 DEF Coherent
        <5>2. proc[p].todo # <<>>
            BY <5>1
        <5>3. \A n \in {1, 2} : n =< 2
            OBVIOUS
        <5> QED
            BY Zenon, <5>1, <5>2, <5>3
      <4>2. CASE proc[p].pc \notin {"open", "fill"}
        <5>1. proc[p].todo = <<>>
            BY Zenon, <3>1, <4>2 DEF Coherent
        <5> QED
            BY <4>2, <5>1
      <4> QED
          BY <4>1, <4>2
    <3> QED
        BY <3>2, <3>3
  <2> QED
      BY <1>1, <2>1, <2>2 DEF Inv, Types, TypeOK
<1> QED
    BY <1>1, AlwaysInv, PTL

\* A 200 or a 304 leaves a resolve with the text the origin had when it
\* answered, whatever other processes did to the files before and after.
THEOREM ConfirmedIsCurrent == Spec => []ConfirmedTextIsCurrent
<1>1. Inv => ConfirmedTextIsCurrent
    BY Zenon DEF Inv, Coherent, Confirmed, ConfirmedTextIsCurrent
<1> QED
    BY <1>1, AlwaysInv, PTL

\* store, refresh and synth_meta of any number of processes never leave a
\* validator beside the digest of another text.
THEOREM ValidatorsStayWithBodies == Spec => []ValidatorNamesTheBody
<1>1. Inv => ValidatorNamesTheBody
    BY DEF Inv, Types, SoundMetas, Absent, Unreadable, ValidatorNamesTheBody
<1> QED
    BY <1>1, AlwaysInv, PTL
=============================================================================
