-------------------------- MODULE LspServerProofs --------------------------
(***************************************************************************)
(* What the language server shows and answers is what its latest pass      *)
(* found, for any number of files, imports, edits and changes on disk.     *)
(***************************************************************************)
EXTENDS LspServer, TLAPS

Contents == Texts \cup {NoText}

Types ==
  /\ disk \in [File -> Contents]
  /\ docs \in [File -> Contents]
  /\ DOMAIN shown = File
  /\ DOMAIN pass = {"uri", "fresh", "out"}

(* A pass over the workspace as it would be now has the outcome out. *)
Found(out) ==
  LET mods == Modules(PassView, pass.uri)
  IN  \E blame \in BlameChoices(PassView, mods), owner \in OwnerChoices(PassView, mods),
         cycles \in SUBSET CyclicImports(PassView, mods) :
        out = Mapped(PassView, pass.uri, blame, owner, cycles)

(* What the client shows is the outcome of the latest pass, until the      *)
(* files change or a document is closed.                                   *)
ShowsThePass ==
  Standing /\ pass.uri \in File /\ disk[pass.uri] # NoText =>
    /\ Found(pass.out)
    /\ \A f \in File \cap DOMAIN pass.out : shown[f] = pass.out[f]

(* A URI is published and open as long as its pass stands. *)
PassIsOfDocument ==
  pass.fresh => pass.uri \in File

(* The graph that is kept is the one of the latest pass.  A close does not *)
(* drop it.                                                                *)
KeepsTheGraph ==
  pass.fresh /\ docs[pass.uri] # NoText /\ disk[pass.uri] # NoText
    => last = Graph(PassView, pass.uri)

(* A stale answer is dropped with the next step. *)
AnswersFromTheGraph ==
  Asked =>
    /\ answer.uri \in File
    /\ docs[answer.uri] # NoText
    /\ answer.ix \in 1 .. Len(ImportsOf(docs[answer.uri]))
    /\ answer.id = CanonicalId(answer.uri, answer.ix)

Inv == /\ Types /\ NoLeftovers /\ PassIsOfDocument
       /\ ShowsThePass /\ KeepsTheGraph /\ AnswersFromTheGraph

---------------------------------------------------------------------------
LEMMA InitInv == Init => Inv
BY ConstantsAssumption
   DEF Init, Inv, Types, Contents, NoLeftovers, PassIsOfDocument, ShowsThePass, KeepsTheGraph,
       AnswersFromTheGraph, NoPass, NoAnswer, Asked, Standing

(* A set of files that holds u and all its files import. *)
Closed(view, u, S) ==
  u \in S /\ \A f \in S : \A g \in Links(view, f) : Leads(view, g) => g \in S

LEMMA ImportsAreFiles ==
  ASSUME NEW t \in Contents
  PROVE  ImportsOf(t) \in Seq(File \cup {NoFile})
<1>1. t \in Texts \/ t = NoText
    BY DEF Contents
<1> QED
    BY <1>1, ConstantsAssumption DEF ImportsOf, Parses, NoText

LEMMA LinksAreFiles ==
  ASSUME NEW view \in [File -> Contents], NEW f \in File, NEW g \in Links(view, f)
  PROVE  g \in File
<1>1. ImportsOf(view[f]) \in Seq(File \cup {NoFile})
    BY ImportsAreFiles
<1> QED
    BY <1>1 DEF Links

(* The files an entry reaches: the intersection of the closed sets. *)
LEMMA ReachedIsClosed ==
  ASSUME NEW view \in [File -> Contents], NEW u \in File
  PROVE  Reached(view, u) \subseteq File /\ u \in Reached(view, u)
<1> DEFINE Least == {f \in File : \A R \in SUBSET File : Closed(view, u, R) => f \in R}
           Good(S) == Closed(view, u, S) /\ \A R \in SUBSET S : Closed(view, u, R) => R = S
<1>1. Least \in SUBSET File
    OBVIOUS
<1>2. Closed(view, u, Least)
  <2>1. u \in Least
      BY DEF Closed
  <2>2. ASSUME NEW f \in Least, NEW g \in Links(view, f), Leads(view, g) PROVE g \in Least
    <3>1. g \in File
        BY <2>2, LinksAreFiles
    <3>2. ASSUME NEW R \in SUBSET File, Closed(view, u, R) PROVE g \in R
        BY <2>2, <3>2 DEF Closed
    <3> QED
        BY <3>1, <3>2
  <2> QED
      BY <2>1, <2>2 DEF Closed
<1>3. ASSUME NEW R \in SUBSET Least, Closed(view, u, R) PROVE R = Least
    BY <1>3
<1>4. Good(Least)
    BY <1>2, <1>3
<1>5. Reached(view, u) = CHOOSE S \in SUBSET File : Good(S)
    BY DEF Reached, Closed
<1> HIDE DEF Least, Good
<1>6. Reached(view, u) \in SUBSET File /\ Good(Reached(view, u))
    BY <1>1, <1>4, <1>5
<1> QED
    BY <1>6 DEF Good, Closed

(* What publish_diagnostics does, whichever of its two modes it takes. *)
LEMMA PassShows ==
  ASSUME Types, NoLeftovers, NEW u \in File, NEW out, DOMAIN out \subseteq File,
         shown' = Sent(out, published), published' = DOMAIN out,
         pass' = [uri |-> u, fresh |-> TRUE, out |-> out]
  PROVE  /\ DOMAIN shown' = File
         /\ DOMAIN pass' = {"uri", "fresh", "out"}
         /\ pass'.uri = u /\ pass'.out = out
         /\ NoLeftovers'
         /\ \A f \in File \cap DOMAIN out : shown'[f] = out[f]
<1>1. /\ pass'.out = out /\ pass'.uri = u
      /\ DOMAIN pass' = {"uri", "fresh", "out"}
    OBVIOUS
<1>2. /\ DOMAIN shown' = File
      /\ \A v \in File : shown'[v] = IF v \in DOMAIN out THEN out[v]
                                      ELSE IF v \in published THEN {} ELSE shown[v]
    BY DEF Sent
<1>3. NoLeftovers'
    BY <1>1, <1>2 DEF NoLeftovers
<1> QED
    BY <1>1, <1>2, <1>3

(* An edit of a document: the pass runs over the text just received, and   *)
(* its outcome is what is shown.                                           *)
LEMMA UpsertInv ==
  ASSUME Inv, NEW u \in File, NEW t \in Texts, Upsert(u, t)
  PROVE  Inv'
<1>1. /\ disk' = disk
      /\ disk \in [File -> Contents]
      /\ docs' = [docs EXCEPT ![u] = t]
      /\ docs' \in [File -> Contents]
      /\ docs'[u] = t
      /\ answer' = NoAnswer
    BY DEF Upsert, Inv, Types, Contents
<1>2. AnswersFromTheGraph'
    BY <1>1 DEF AnswersFromTheGraph, Asked, NoAnswer
<1> DEFINE view == View(u, t)
           mods == Modules(view, u)
<1>3. pass'.uri = u => PassView' = view
    BY <1>1 DEF PassView, View
<1>4. CASE PublishWorkspace(u, t)
  <2>1. PICK blame \in BlameChoices(view, mods), owner \in OwnerChoices(view, mods),
             cycles \in SUBSET CyclicImports(view, mods) :
          /\ shown' = Sent(Mapped(view, u, blame, owner, cycles), published)
          /\ published' = DOMAIN Mapped(view, u, blame, owner, cycles)
          /\ pass' = [uri |-> u, fresh |-> TRUE, out |-> Mapped(view, u, blame, owner, cycles)]
      BY Zenon, <1>4 DEF PublishWorkspace
  <2> DEFINE out == Mapped(view, u, blame, owner, cycles)
  <2>2. last' = Graph(view, u)
      BY <1>4 DEF PublishWorkspace
  <2>3. view \in [File -> Contents]
      BY <1>1 DEF View, Contents
  <2>4. DOMAIN out = mods \cup {u} /\ mods \subseteq File
      BY <2>3, ReachedIsClosed DEF Mapped, Modules
  <2> HIDE DEF out, view
  <2>5. /\ DOMAIN shown' = File
        /\ DOMAIN pass' = {"uri", "fresh", "out"}
        /\ pass'.uri = u /\ pass'.out = out
        /\ NoLeftovers'
        /\ \A f \in File \cap DOMAIN out : shown'[f] = out[f]
    <3>1. DOMAIN out \subseteq File
        BY <2>4
    <3>2. /\ shown' = Sent(out, published) /\ published' = DOMAIN out
          /\ pass' = [uri |-> u, fresh |-> TRUE, out |-> out]
        BY <2>1 DEF out
    <3> QED
        BY <3>1, <3>2, PassShows DEF Inv
  <2>6. Types'
      BY <1>1, <2>5 DEF Types
  <2>7. PassView' = view
      BY <1>3, <2>5
  <2>8. Found(pass.out)'
      BY <2>1, <2>5, <2>7 DEF Found, out
  <2>9. ShowsThePass'
      BY Zenon, <2>5, <2>8 DEF ShowsThePass
  <2>10. KeepsTheGraph' /\ PassIsOfDocument'
      BY <2>2, <2>5, <2>7 DEF KeepsTheGraph, PassIsOfDocument
  <2> QED
      BY <1>2, <2>5, <2>6, <2>9, <2>10 DEF Inv
<1>5. CASE PublishSingle(u, t)
  <2> DEFINE out == [f \in {u} |-> Single(t)]
  <2>1. /\ disk[u] = NoText
        /\ shown' = Sent(out, published)
        /\ published' = {u}
        /\ pass' = [uri |-> u, fresh |-> TRUE, out |-> out]
      BY <1>5 DEF PublishSingle
  <2>2. DOMAIN out = {u}
      OBVIOUS
  <2> HIDE DEF out
  <2>3. /\ DOMAIN shown' = File
        /\ DOMAIN pass' = {"uri", "fresh", "out"}
        /\ pass'.uri = u
        /\ NoLeftovers'
      BY <2>1, <2>2, PassShows DEF Inv
  <2>4. Types'
      BY <1>1, <2>3 DEF Types
  <2>5. disk'[pass'.uri] = NoText
      BY <1>1, <2>1, <2>3
  <2>6. ShowsThePass' /\ KeepsTheGraph' /\ PassIsOfDocument'
      BY <2>3, <2>5 DEF ShowsThePass, KeepsTheGraph, PassIsOfDocument
  <2> QED
      BY <1>2, <2>3, <2>4, <2>6 DEF Inv
<1> QED
    BY <1>4, <1>5 DEF Upsert

(* A close clears what is published, and nothing is published then. *)
LEMMA CloseInv ==
  ASSUME Inv, NEW u \in File, DidClose(u)
  PROVE  Inv'
<1>1. /\ disk' = disk /\ last' = last /\ pass' = pass /\ answer' = NoAnswer
      /\ published' = {}
      /\ docs' = [docs EXCEPT ![u] = NoText]
      /\ shown' = [v \in File |-> IF v = u \/ v \in published THEN {} ELSE shown[v]]
    BY DEF DidClose
<1>2. Types'
    BY <1>1 DEF Inv, Types, Contents
<1>3. NoLeftovers'
    BY <1>1 DEF Inv, NoLeftovers
<1>4. ShowsThePass'
    BY <1>1 DEF ShowsThePass, Standing
<1>5. AnswersFromTheGraph'
    BY <1>1 DEF AnswersFromTheGraph, Asked, NoAnswer
<1>6. PassIsOfDocument'
    BY <1>1 DEF Inv, PassIsOfDocument
<1>7. KeepsTheGraph'
  <2> SUFFICES ASSUME pass.fresh, docs'[pass.uri] # NoText, disk[pass.uri] # NoText
               PROVE  last = Graph(PassView', pass.uri)
      BY <1>1 DEF KeepsTheGraph
  <2>1. pass.uri \in File /\ docs'[pass.uri] = docs[pass.uri]
      BY <1>1 DEF Inv, Types, PassIsOfDocument
  <2>2. PassView' = PassView
      BY Zenon, <1>1, <2>1 DEF PassView, View
  <2> QED
      BY <2>1, <2>2 DEF Inv, KeepsTheGraph
<1> QED
    BY <1>2, <1>3, <1>4, <1>5, <1>6, <1>7 DEF Inv

LEMMA GotoInv ==
  ASSUME Inv, NEW u \in File, NEW i \in 1 .. MaxImports, GotoDefinition(u, i)
  PROVE  Inv'
<1>1. UNCHANGED <<disk, docs, published, last, shown, pass>>
    BY DEF GotoDefinition
<1>2. Types' /\ NoLeftovers' /\ PassIsOfDocument'
    BY <1>1 DEF Inv, Types, NoLeftovers, PassIsOfDocument
<1>3. PassView' = PassView
    BY <1>1 DEF PassView, View
<1>4. ShowsThePass' /\ KeepsTheGraph'
    BY <1>1, <1>3 DEF Inv, ShowsThePass, KeepsTheGraph, Found, Standing
<1>5. /\ docs[u] # NoText
      /\ i <= Len(ImportsOf(docs[u]))
      /\ answer'.uri = u /\ answer'.ix = i /\ answer'.id = CanonicalId(u, i)
    BY DEF GotoDefinition
<1>6. CanonicalId(u, i)' = CanonicalId(u, i)
    BY <1>1 DEF CanonicalId
<1>7. i \in 1 .. Len(ImportsOf(docs[u]))
    BY <1>5, ImportsAreFiles DEF Inv, Types
<1>8. AnswersFromTheGraph'
    BY <1>1, <1>5, <1>6, <1>7 DEF AnswersFromTheGraph
<1> QED
    BY <1>2, <1>4, <1>8 DEF Inv

LEMMA ChangeDiskInv ==
  ASSUME Inv, NEW f \in File, NEW t \in Contents, ChangeDisk(f, t)
  PROVE  Inv'
<1>1. /\ UNCHANGED <<docs, published, last, shown>> /\ answer' = NoAnswer
      /\ disk' = [disk EXCEPT ![f] = t]
      /\ pass' = [pass EXCEPT !.fresh = FALSE]
    BY DEF ChangeDisk
<1>2. /\ DOMAIN pass' = {"uri", "fresh", "out"}
      /\ pass'.fresh = FALSE /\ pass'.out = pass.out
    BY <1>1 DEF Inv, Types
<1>3. Types'
    BY <1>1, <1>2 DEF Inv, Types
<1>4. NoLeftovers'
    BY <1>1, <1>2 DEF Inv, NoLeftovers
<1>5. ShowsThePass' /\ KeepsTheGraph' /\ PassIsOfDocument'
    BY <1>2 DEF ShowsThePass, KeepsTheGraph, PassIsOfDocument, Standing
<1>6. AnswersFromTheGraph'
    BY <1>1 DEF AnswersFromTheGraph, Asked, NoAnswer
<1> QED
    BY <1>3, <1>4, <1>5, <1>6 DEF Inv

LEMMA StepInv == Inv /\ [Next]_vars => Inv'
<1> SUFFICES ASSUME Inv, [Next]_vars PROVE Inv'
    OBVIOUS
<1>1. ASSUME NEW u \in File, NEW t \in Texts, DidOpen(u, t) \/ DidChange(u, t) PROVE Inv'
    BY <1>1, UpsertInv DEF DidOpen, DidChange
<1>2. ASSUME NEW u \in File, DidClose(u) PROVE Inv'
    BY <1>2, CloseInv
<1>3. ASSUME NEW u \in File, NEW i \in 1 .. MaxImports, GotoDefinition(u, i) PROVE Inv'
    BY <1>3, GotoInv
<1>4. ASSUME NEW f \in File, NEW t \in Contents, ChangeDisk(f, t) PROVE Inv'
    BY <1>4, ChangeDiskInv
<1>5. CASE UNCHANGED vars
  <2>1. UNCHANGED <<disk, docs, published, last, shown, answer, pass>>
      BY <1>5 DEF vars
  <2>2. PassView' = PassView
      BY <2>1 DEF PassView, View
  <2>3. Types' /\ NoLeftovers' /\ PassIsOfDocument'
      BY <2>1 DEF Inv, Types, NoLeftovers, PassIsOfDocument
  <2>4. ShowsThePass' /\ KeepsTheGraph'
      BY <2>1, <2>2 DEF Inv, ShowsThePass, KeepsTheGraph, Found, Standing
  <2>5. AnswersFromTheGraph'
      BY <2>1 DEF Inv, AnswersFromTheGraph, Asked, CanonicalId
  <2> QED
      BY <2>3, <2>4, <2>5 DEF Inv
<1> QED
    BY <1>1, <1>2, <1>3, <1>4, <1>5 DEF Next, Contents

LEMMA AlwaysInv == Spec => []Inv
BY InitInv, StepInv, PTL DEF Spec

---------------------------------------------------------------------------
(* No diagnostic outlives the pass that found it: the client shows what    *)
(* the latest publish_diagnostics sent, at URIs that the server will clear *)
(* with the next.                                                          *)
THEOREM NothingIsLeftOver == Spec => []NoLeftovers
BY AlwaysInv, PTL DEF Inv

(* The places of the imports tell the files apart. *)
PlacesAreDistinct == \A f, g \in File : At[f] = At[g] => f = g

(* find_owning_module gives an import that leads nowhere to its own file. *)
LEMMA MissingImportIsMapped ==
  ASSUME PlacesAreDistinct,
         NEW view \in [File -> Contents], NEW u \in File,
         NEW blame, NEW owner \in OwnerChoices(view, Modules(view, u)),
         NEW cycles \in SUBSET CyclicImports(view, Modules(view, u)),
         NEW f \in Modules(view, u), NEW i \in 1 .. MaxImports
  PROVE  [kind |-> "not_found", span |-> Span(f, i)] \in Mapped(view, u, blame, owner, cycles)[f]
           <=> /\ i <= Len(ImportsOf(view[f]))
               /\ ~Leads(view, ImportsOf(view[f])[i])
<1> DEFINE mods == Modules(view, u)
           lost == {g \in File \cup {NoFile} : ~Leads(view, g)}
           d == [kind |-> "not_found", span |-> Span(f, i)]
           all == UNION {Spans(view, g) : g \in mods}
           missing == {Problem("not_found", p) : p \in ImportsOfAny(view, mods, lost)}
<1>1. mods \subseteq File
    BY ReachedIsClosed DEF Modules
<1>2. \A g \in File : \A j : Span(g, j) = Span(f, i) => g = f /\ j = i
    BY <1>1 DEF Span, PlacesAreDistinct
<1>3. d \in Mapped(view, u, blame, owner, cycles)[f]
        <=> d \in WorkspaceDiags(view, u, blame) /\ d.span \in DOMAIN owner /\ owner[d.span] = f
    BY Zenon DEF Mapped, Problem
<1>4. d \in WorkspaceDiags(view, u, blame) <=> d \in missing
    BY Zenon DEF WorkspaceDiags, Problem
<1>5. d \in missing <=> <<f, i>> \in ImportsOfAny(view, mods, lost)
  <2>1. ASSUME d \in missing PROVE <<f, i>> \in ImportsOfAny(view, mods, lost)
    <3>1. PICK p \in ImportsOfAny(view, mods, lost) : d = Problem("not_found", p)
        BY <2>1
    <3>2. p \in mods \X (1 .. MaxImports) /\ Span(p[1], p[2]) = Span(f, i)
        BY <3>1 DEF ImportsOfAny, Problem
    <3>3. p = <<f, i>>
        BY <3>2, <1>1, <1>2
    <3> QED
        BY <3>1, <3>3
  <2>2. ASSUME <<f, i>> \in ImportsOfAny(view, mods, lost) PROVE d \in missing
    <3>1. Problem("not_found", <<f, i>>) = d
        BY DEF Problem
    <3> QED
        BY Zenon, <2>2, <3>1
  <2> QED
      BY <2>1, <2>2
<1>6. <<f, i>> \in ImportsOfAny(view, mods, lost)
        <=> i <= Len(ImportsOf(view[f])) /\ ImportsOf(view[f])[i] \in lost
    BY DEF ImportsOfAny
<1>7. ImportsOf(view[f]) \in Seq(File \cup {NoFile})
    BY <1>1, ImportsAreFiles
<1>8. i <= Len(ImportsOf(view[f]))
        => (ImportsOf(view[f])[i] \in lost <=> ~Leads(view, ImportsOf(view[f])[i]))
    BY <1>7
<1>9. ASSUME i <= Len(ImportsOf(view[f]))
      PROVE  d.span \in DOMAIN owner /\ owner[d.span] = f
  <2>1. Span(f, i) \in Spans(view, f)
      BY <1>7, <1>9 DEF Spans
  <2>2. Span(f, i) \in all
      BY <2>1
  <2>3. owner \in [all -> mods] /\ Span(f, i) \in Spans(view, owner[Span(f, i)])
      BY <2>2 DEF OwnerChoices
  <2>4. owner[Span(f, i)] \in mods
      BY <2>2, <2>3
  <2>5. owner[Span(f, i)] = f
      BY <1>1, <1>2, <2>3, <2>4 DEF Spans
  <2> QED
      BY <2>2, <2>3, <2>5
<1> QED
    BY <1>3, <1>4, <1>5, <1>6, <1>8, <1>9

(* After a pass every module shows just the imports of its own that lead   *)
(* nowhere, provided no two files have imports at the same place:          *)
(* map_workspace_to_lsp knows a diagnostic's file by its span only.        *)
THEOREM ShowsMissingImports ==
  ASSUME PlacesAreDistinct
  PROVE  Spec => []MissingImportsAreShown
<1>1. ASSUME Inv PROVE MissingImportsAreShown
  <2> SUFFICES ASSUME Standing, disk[pass.uri] # NoText,
                      NEW f \in Modules(PassView, pass.uri), NEW i \in 1 .. MaxImports
               PROVE  [kind |-> "not_found", span |-> Span(f, i)] \in shown[f]
                        <=> /\ i <= Len(ImportsOf(PassView[f]))
                            /\ ~Leads(PassView, ImportsOf(PassView[f])[i])
      BY DEF MissingImportsAreShown
  <2>1. pass.uri \in File
      BY <1>1 DEF Inv, PassIsOfDocument, Standing
  <2>2. PassView \in [File -> Contents]
      BY <1>1, <2>1 DEF Inv, Types, PassView, View
  <2>3. PICK blame \in BlameChoices(PassView, Modules(PassView, pass.uri)),
             owner \in OwnerChoices(PassView, Modules(PassView, pass.uri)),
             cycles \in SUBSET CyclicImports(PassView, Modules(PassView, pass.uri)) :
          pass.out = Mapped(PassView, pass.uri, blame, owner, cycles)
      BY <1>1, <2>1 DEF Inv, ShowsThePass, Found
  <2>4. f \in File
      BY <2>1, <2>2, ReachedIsClosed DEF Modules
  <2>5. f \in DOMAIN pass.out
      BY <2>3 DEF Mapped
  <2>6. shown[f] = pass.out[f]
      BY <1>1, <2>1, <2>4, <2>5 DEF Inv, ShowsThePass
  <2> QED
    <3>1. [kind |-> "not_found", span |-> Span(f, i)]
            \in Mapped(PassView, pass.uri, blame, owner, cycles)[f]
              <=> /\ i <= Len(ImportsOf(PassView[f]))
                  /\ ~Leads(PassView, ImportsOf(PassView[f])[i])
        BY Zenon, <2>1, <2>2, MissingImportIsMapped
    <3> QED
        BY <2>3, <2>6, <3>1
<1> QED
    BY <1>1, AlwaysInv, PTL

(* Go-to-definition on an import of the document that was analysed last    *)
(* gives the imported file, as long as the files are as they were.         *)
THEOREM GoesToTheImport == Spec => []GotoAfterOwnPass
<1>1. ASSUME Inv PROVE GotoAfterOwnPass
  <2> SUFFICES ASSUME Asked, disk[answer.uri] # NoText, pass.uri = answer.uri, pass.fresh,
                      Leads(PassView, AskedTarget)
               PROVE  answer.id = <<"id", AskedTarget>>
      BY DEF GotoAfterOwnPass
  <2> DEFINE u == answer.uri
             i == answer.ix
  <2>1. /\ u \in File /\ docs[u] # NoText
        /\ i \in 1 .. Len(ImportsOf(docs[u]))
        /\ answer.id = CanonicalId(u, i)
      BY <1>1 DEF Inv, AnswersFromTheGraph
  <2>2. last = Graph(PassView, u)
      BY <1>1, <2>1 DEF Inv, KeepsTheGraph
  <2>3. PassView \in [File -> Contents] /\ PassView[u] = docs[u]
      BY <1>1, <2>1 DEF Inv, Types, PassView, View
  <2>4. Parses(docs[u]) /\ ImportsOf(docs[u]) = docs[u].imports
      BY <2>1 DEF ImportsOf
  <2>5. u \in Modules(PassView, u)
      BY <2>1, <2>3, <2>4, ReachedIsClosed DEF Modules
  <2>6. last[u] = [j \in 1 .. Len(ImportsOf(docs[u])) |-> Edge(PassView, ImportsOf(docs[u])[j])]
      BY <2>2, <2>3, <2>5 DEF Graph
  <2>7. u \in DOMAIN last
      BY <2>2, <2>5 DEF Graph
  <2>8. CanonicalId(u, i) = Edge(PassView, AskedTarget)
      BY <2>1, <2>4, <2>6, <2>7 DEF CanonicalId, AskedTarget
  <2> QED
      BY <2>1, <2>8 DEF Edge
<1> QED
    BY <1>1, AlwaysInv, PTL
===========================================================================
