------------------------- MODULE RemoteImportCache -------------------------
(***************************************************************************)
(* The on-disk cache of one remote import (RemoteImportCache and           *)
(* RemoteHttpResolver::fetch in relon-evaluator/src/module.rs), used by    *)
(* several processes at once.                                              *)
(*                                                                         *)
(* An entry is a body file and a meta file.  Both are written in place:    *)
(* std::fs::write truncates the file, then fills it, and nothing keeps     *)
(* another process from reading, writing or removing it in between, so the *)
(* two halves of a write are two steps.                                    *)
(*                                                                         *)
(* A text is a version the origin served, whole or cut off.  The validator *)
(* (ETag; Last-Modified plays the same part) of a version is the version.  *)
(* A digest is represented by the text it is of.  A meta file says whether *)
(* it is inside its TTL; the clock may end that at any time.               *)
(***************************************************************************)
EXTENDS Integers, Sequences, FiniteSets

CONSTANTS Procs,
          MaxVersion, \* bound: versions the origin goes through
          Faults,     \* kinds of fault: crash, network
          MaxFaults   \* bound: faults of a behaviour

ASSUME ConstantsAssumption == MaxVersion \in Nat \ {0} /\ MaxFaults \in Nat

VARIABLES
    origin,  \* the version the origin serves
    legacy,  \* the single-file entry of an older release
    body,
    meta,
    proc,
    faults

vars == <<origin, legacy, body, meta, proc, faults>>

Absent     == [is |-> "absent"]
Whole(v)   == [is |-> "whole", of |-> v]
CutOff(v)  == [is |-> "cut_off", of |-> v]
Unreadable == [is |-> "unreadable"]
NoTag      == 0
Meta(tag, text, fresh) == [is |-> "meta", etag |-> tag, body_sha256 |-> text, fresh |-> fresh]

\* A resolve: the entry it goes by, the writes or removals it has to do and
\* where it goes then, how its text was obtained and what the origin had.
Idle == [pc |-> "idle", text |-> Absent, meta |-> Absent, todo |-> <<>>, after |-> "none",
         via |-> "none", at |-> 0]

Init ==
    /\ origin = 1
    /\ legacy \in {Absent, Whole(1)}
    /\ body = Absent
    /\ meta = Absent
    /\ proc = [p \in Procs |-> Idle]
    /\ faults = 0

At(p, pc) == proc[p].pc = pc
Fault(kind) == /\ kind \in Faults
               /\ faults < MaxFaults
               /\ faults' = faults + 1

PutBody(t) == [op |-> "body", text |-> t]
PutMeta(m) == [op |-> "meta", meta |-> m]

\* With an entry in hand: served if fresh, else confirmed with the origin.
Decide(m) == IF m.fresh THEN "answer" ELSE "request"

-----------------------------------------------------------------------------
Resolve(p) ==
    /\ At(p, "idle")
    /\ proc' = [proc EXCEPT ![p].pc = "load_body"]
    /\ UNCHANGED <<origin, legacy, body, meta, faults>>

LoadBody(p) ==
    /\ At(p, "load_body")
    /\ \/ /\ body # Absent
          /\ proc' = [proc EXCEPT ![p].text = body, ![p].pc = "load_meta"]
       \/ /\ body = Absent /\ legacy # Absent
          /\ \E fresh \in BOOLEAN :
                LET m == Meta(NoTag, legacy, fresh)
                IN  proc' = [proc EXCEPT ![p].text = legacy, ![p].meta = m,
                                         ![p].todo = <<PutBody(legacy), PutMeta(m)>>,
                                         ![p].pc = "open", ![p].after = Decide(m),
                                         ![p].via = "cache"]
       \/ /\ body = Absent /\ legacy = Absent
          /\ proc' = [proc EXCEPT ![p].pc = "request"]
    /\ UNCHANGED <<origin, legacy, body, meta, faults>>

\* Mutant: the digest is not compared.
LoadMetaUnchecked(p) ==
    /\ At(p, "load_meta")
    /\ \/ /\ meta.is = "meta"
          /\ proc' = [proc EXCEPT ![p].meta = meta, ![p].pc = Decide(meta), ![p].via = "cache"]
       \/ /\ meta.is # "meta"
          /\ LET m == Meta(NoTag, proc[p].text, TRUE)
             IN  proc' = [proc EXCEPT ![p].meta = m, ![p].todo = <<PutMeta(m)>>,
                                      ![p].pc = "open", ![p].after = Decide(m),
                                      ![p].via = "cache"]
    /\ UNCHANGED <<origin, legacy, body, meta, faults>>

LoadMeta(p) ==
    /\ At(p, "load_meta")
    /\ \/ /\ meta.is = "meta" /\ meta.body_sha256 = proc[p].text
          /\ proc' = [proc EXCEPT ![p].meta = meta, ![p].pc = Decide(meta), ![p].via = "cache"]
       \/ /\ meta.is = "meta" /\ meta.body_sha256 # proc[p].text
          /\ proc' = [proc EXCEPT ![p].text = Absent, ![p].pc = "remove_body"]
       \/ /\ meta.is # "meta" \* synth_meta
          /\ LET m == Meta(NoTag, proc[p].text, TRUE)
             IN  proc' = [proc EXCEPT ![p].meta = m, ![p].todo = <<PutMeta(m)>>,
                                      ![p].pc = "open", ![p].after = Decide(m),
                                      ![p].via = "cache"]
    /\ UNCHANGED <<origin, legacy, body, meta, faults>>

RemoveBody(p) ==
    /\ At(p, "remove_body")
    /\ body' = Absent
    /\ proc' = [proc EXCEPT ![p].pc = "remove_meta"]
    /\ UNCHANGED <<origin, legacy, meta, faults>>

RemoveMeta(p) ==
    /\ At(p, "remove_meta")
    /\ meta' = Absent
    /\ proc' = [proc EXCEPT ![p].pc = "request"]
    /\ UNCHANGED <<origin, legacy, body, faults>>

-----------------------------------------------------------------------------
\* std::fs::write: create or truncate, then fill.
OpenFile(p) ==
    /\ At(p, "open")
    /\ LET w == Head(proc[p].todo)
       IN  \/ w.op = "body" /\ body' = CutOff(w.text.of) /\ UNCHANGED meta
           \/ w.op = "meta" /\ meta' = Unreadable /\ UNCHANGED body
    /\ proc' = [proc EXCEPT ![p].pc = "fill"]
    /\ UNCHANGED <<origin, legacy, faults>>

\* A file that was removed meanwhile gets nothing; over what another process
\* wrote meanwhile the bytes land as they do: last, or mixed.
FillFile(p) ==
    /\ At(p, "fill")
    /\ LET w == Head(proc[p].todo)
       IN  \/ /\ w.op = "body" /\ UNCHANGED meta
              /\ body' \in CASE body = Absent -> {Absent}
                             [] body = CutOff(w.text.of) -> {w.text}
                             [] OTHER -> {w.text, CutOff(w.text.of)}
           \/ /\ w.op = "meta" /\ UNCHANGED body
              /\ meta' \in CASE meta = Absent -> {Absent}
                             [] meta = Unreadable -> {w.meta}
                             [] OTHER -> {w.meta, Unreadable}
    /\ proc' = [proc EXCEPT ![p].todo = Tail(@),
                            ![p].pc = IF Len(proc[p].todo) = 1 THEN proc[p].after ELSE "open"]
    /\ UNCHANGED <<origin, legacy, faults>>

-----------------------------------------------------------------------------
Tags(v) == {v, NoTag}

\* 304: only a request that carried the current version's validator gets it.
NotModified(p) ==
    /\ At(p, "request")
    /\ proc[p].text # Absent /\ proc[p].meta.etag = origin
    /\ \E tag \in Tags(origin) :
          LET old == proc[p].meta
              m   == Meta(IF tag # NoTag THEN tag ELSE old.etag, old.body_sha256, TRUE)
          IN  proc' = [proc EXCEPT ![p].todo = <<PutMeta(m)>>, ![p].pc = "open",
                                   ![p].after = "answer", ![p].via = "not_modified",
                                   ![p].at = origin]
    /\ UNCHANGED <<origin, legacy, body, meta, faults>>

\* Mutant: the new text is stored with the validator of the old one.
FetchedKeepingTag(p) ==
    /\ At(p, "request")
    /\ ~(proc[p].text # Absent /\ proc[p].meta.etag = origin)
    /\ \E tag \in Tags(origin) :
          LET t == Whole(origin)
              m == Meta(IF proc[p].text # Absent THEN proc[p].meta.etag ELSE tag, t, TRUE)
          IN  proc' = [proc EXCEPT ![p].text = t, ![p].meta = m,
                                   ![p].todo = <<PutBody(t), PutMeta(m)>>,
                                   ![p].pc = "open", ![p].after = "answer",
                                   ![p].via = "fetched", ![p].at = origin]
    /\ UNCHANGED <<origin, legacy, body, meta, faults>>

\* Mutant: an entry that is there is not written again.
FetchedStoringOnce(p) ==
    /\ At(p, "request")
    /\ ~(proc[p].text # Absent /\ proc[p].meta.etag = origin)
    /\ \E tag \in Tags(origin) :
          LET t == Whole(origin)
              m == Meta(tag, t, TRUE)
          IN  proc' = [proc EXCEPT
                  ![p].text = t, ![p].meta = m,
                  ![p].todo = IF proc[p].text = Absent THEN <<PutBody(t), PutMeta(m)>> ELSE <<>>,
                  ![p].pc = IF proc[p].text = Absent THEN "open" ELSE "answer",
                  ![p].after = "answer", ![p].via = "fetched", ![p].at = origin]
    /\ UNCHANGED <<origin, legacy, body, meta, faults>>

\* 200.
Fetched(p) ==
    /\ At(p, "request")
    /\ ~(proc[p].text # Absent /\ proc[p].meta.etag = origin)
    /\ \E tag \in Tags(origin) :
          LET t == Whole(origin)
              m == Meta(tag, t, TRUE)
          IN  proc' = [proc EXCEPT ![p].text = t, ![p].meta = m,
                                   ![p].todo = <<PutBody(t), PutMeta(m)>>,
                                   ![p].pc = "open", ![p].after = "answer",
                                   ![p].via = "fetched", ![p].at = origin]
    /\ UNCHANGED <<origin, legacy, body, meta, faults>>

\* No connection, a time-out, a redirect, any other status: an error, and the
\* entry stays as it is.
RequestFails(p) ==
    /\ At(p, "request")
    /\ Fault("network")
    /\ proc' = [proc EXCEPT ![p] = Idle]
    /\ UNCHANGED <<origin, legacy, body, meta>>

Answer(p) ==
    /\ At(p, "answer")
    /\ proc' = [proc EXCEPT ![p] = Idle]
    /\ UNCHANGED <<origin, legacy, body, meta, faults>>

-----------------------------------------------------------------------------
Crash(p) ==
    /\ ~At(p, "idle")
    /\ Fault("crash")
    /\ proc' = [proc EXCEPT ![p] = Idle]
    /\ UNCHANGED <<origin, legacy, body, meta>>

Publish ==
    /\ origin < MaxVersion
    /\ origin' = origin + 1
    /\ UNCHANGED <<legacy, body, meta, proc, faults>>

\* is_fresh turns false.
Expire ==
    /\ meta.is = "meta" /\ meta.fresh
    /\ meta' = [meta EXCEPT !.fresh = FALSE]
    /\ UNCHANGED <<origin, legacy, body, proc, faults>>

Step(p) == \/ LoadBody(p) \/ LoadMeta(p) \/ RemoveBody(p) \/ RemoveMeta(p)
           \/ OpenFile(p) \/ FillFile(p) \/ NotModified(p) \/ Fetched(p) \/ Answer(p)

Next == \/ \E p \in Procs : Resolve(p) \/ Step(p) \/ RequestFails(p) \/ Crash(p)
        \/ Publish
        \/ Expire

Spec == Init /\ [][Next]_vars

\* Processes are scheduled, the import is resolved again and again by one or
\* the other, time passes; requests fail only so often (Faults).
Fairness == /\ \A p \in Procs : WF_vars(Step(p))
            /\ WF_vars(\E p \in Procs : Resolve(p))
            /\ SF_vars(Expire)
FairSpec == Spec /\ Fairness

-----------------------------------------------------------------------------
Texts == {Whole(v) : v \in 1..MaxVersion} \cup {CutOff(v) : v \in 1..MaxVersion}
Metas == [is : {"meta"}, etag : 0..MaxVersion, body_sha256 : Texts, fresh : BOOLEAN]

TypeOK ==
    /\ origin \in 1..MaxVersion
    /\ legacy \in {Absent, Whole(1)}
    /\ body \in Texts \cup {Absent}
    /\ meta \in Metas \cup {Absent, Unreadable}
    /\ \A p \in Procs :
          /\ proc[p].text \in Texts \cup {Absent}
          /\ proc[p].meta \in Metas \cup {Absent}
          /\ Len(proc[p].todo) =< 2
          /\ proc[p].pc \in {"open", "fill"} => proc[p].todo # <<>>
    /\ faults \in 0..MaxFaults

\* "So a later resolve cannot keep serving stale bytes or accept a 304 against
\* the wrong body": a text the origin confirmed, by sending it or with a 304,
\* is the origin's at that moment, whatever other processes did to the two
\* files between the load, the request and the write.
ConfirmedTextIsCurrent ==
    \A p \in Procs : proc[p].via \in {"fetched", "not_modified"}
                     => proc[p].text = Whole(proc[p].at)

\* A validator never stands beside the digest of a text it is not of: no
\* interleaving of store, refresh, synth_meta and removal pairs them wrongly.
ValidatorNamesTheBody ==
    meta.is = "meta" /\ meta.etag # NoTag => meta.body_sha256 = Whole(meta.etag)

\* From some time on at most one process uses the cache.
OneProcessLeft == <>[](\E p \in Procs : \A q \in Procs \ {p} : At(q, "idle"))

\* A body that a crash or another writer cut off is not for good: with one
\* process left the entry is written again, at the latest when the TTL of the
\* meta file that synth_meta made for it has passed.
CutOffBodiesGo == OneProcessLeft => (body.is = "cut_off" ~> body.is # "cut_off")

\* An import gets a text the origin served in full: a cached entry is that or
\* a miss ("a cache miss after a successful fetch is non-fatal, the next run
\* simply re-fetches", module.rs:291-293).
\* Does not hold: a body is found before its meta file is.
ServedTextsAreWhole ==
    \A p \in Procs : At(p, "answer") => proc[p].text.is = "whole"
=============================================================================
