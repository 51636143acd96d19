---------------------------- MODULE LspServer ----------------------------
(***************************************************************************)
(* The language server: relon-lsp/src/server.rs, workspace.rs and          *)
(* features/definition.rs.  One thread handles a message at a time, so a   *)
(* handler is a step; files on disk change between any two of them.        *)
(*                                                                         *)
(* A text either does not parse, or has a list of imports, each of a file  *)
(* or of a path that leads nowhere, and possibly a flaw of its own that    *)
(* the analyzer reports.  What a build of the workspace yields is taken    *)
(* from what WorkspaceBuild shows of it.  A span is named by the place     *)
(* where the imports of a file begin and the number of the import, so the  *)
(* imports of two files may have the same span.                            *)
(***************************************************************************)
EXTENDS Integers, Sequences, FiniteSets

CONSTANTS File,       \* the files of the workspace, and their URIs
          Texts,      \* what a file or a buffer may hold
          At,         \* where in its text the imports of each file begin
          MaxImports  \* bound: imports of a text

NoFile == 0

NoText == [kind |-> "none"]

ASSUME ConstantsAssumption ==
  /\ NoFile \notin File
  /\ \A t \in Texts :
       /\ t # NoText
       /\ t.kind = "text" => t.imports \in Seq(File \cup {NoFile})

VARIABLES disk,       \* the files; NoText is a file that does not exist
          docs,       \* ServerState::docs; NoText is a URI that is not open
          published,  \* ServerState::published_uris
          last,       \* ServerState::last_workspace: its import graph
          shown,      \* the diagnostics the client shows at each URI
          answer,     \* a go-to-definition on an import, as just answered
          pass        \* history: the latest publish_diagnostics, and whether
                      \* the files are still the ones it read

vars == <<disk, docs, published, last, shown, answer, pass>>

NoGraph == <<>>

NoAnswer == [uri |-> NoFile, ix |-> 0, id |-> <<"none">>]

NoPass == [uri |-> NoFile, fresh |-> FALSE, out |-> <<>>]

Init ==
  /\ disk \in [File -> Texts \cup {NoText}]
  /\ docs = [u \in File |-> NoText]
  /\ published = {}
  /\ last = NoGraph
  /\ shown = [u \in File |-> {}]
  /\ answer = NoAnswer
  /\ pass = NoPass

---------------------------------------------------------------------------
(* What a build from entry u, with text t, sees in each file. *)
View(u, t) == [disk EXCEPT ![u] = t]

Parses(text) == text.kind = "text"

ImportsOf(text) == IF Parses(text) THEN text.imports ELSE <<>>

Leads(view, f) == f # NoFile /\ view[f] # NoText

Links(view, f) ==
  {ImportsOf(view[f])[i] : i \in 1 .. Len(ImportsOf(view[f]))} \ {NoFile}

Reached(view, u) ==
  CHOOSE S \in SUBSET File :
    /\ u \in S /\ \A f \in S : \A g \in Links(view, f) : Leads(view, g) => g \in S
    /\ \A R \in SUBSET S : (u \in R /\ \A f \in R : \A g \in Links(view, f) : Leads(view, g) => g \in R)
                             => R = S

(* An entry that does not parse is in no module table. *)
Modules(view, u) == IF Parses(view[u]) THEN Reached(view, u) ELSE {}

Edge(view, f) == IF Leads(view, f) THEN <<"id", f>> ELSE <<"path", f>>

Graph(view, u) ==
  [f \in Modules(view, u) |->
     [i \in 1 .. Len(ImportsOf(view[f])) |-> Edge(view, ImportsOf(view[f])[i])]]

Span(f, i) == <<At[f], i>>

Spans(view, f) == {Span(f, i) : i \in 1 .. Len(ImportsOf(view[f]))}

(* The imports, as file and number, of one of the targets. *)
ImportsOfAny(view, mods, targets) ==
  {p \in mods \X (1 .. MaxImports) :
     p[2] <= Len(ImportsOf(view[p[1]])) /\ ImportsOf(view[p[1]])[p[2]] \in targets}

Problem(kind, import) == [kind |-> kind, span |-> Span(import[1], import[2])]

(* The import each broken module is blamed on. *)
BlameChoices(view, mods) ==
  LET broken == {f \in mods : ~Parses(view[f])}
  IN  {b \in [broken -> mods \X (1 .. MaxImports)] :
         \A f \in broken : b[f] \in ImportsOfAny(view, mods, {f})}

(* The diagnostics of the whole workspace, with nothing but their span. *)
WorkspaceDiags(view, u, blame) ==
  LET mods == Modules(view, u)
      lost == {g \in File \cup {NoFile} : ~Leads(view, g)}
  IN  {Problem("not_found", p) : p \in ImportsOfAny(view, mods, lost)}
      \cup {Problem("parse_error", blame[f]) : f \in DOMAIN blame}
      \cup {[kind |-> "parse_error", span |-> <<0, 0>>] : x \in {y \in {u} : ~Parses(view[y])}}

(* The imports that lie on a cycle. *)
CyclicImports(view, mods) ==
  {p \in mods \X (1 .. MaxImports) :
     /\ p[2] <= Len(ImportsOf(view[p[1]]))
     /\ LET g == ImportsOf(view[p[1]])[p[2]]
        IN  g \in mods /\ p[1] \in Reached(view, g)}

(* An owner looked up by the number of the import alone. *)
OwnerChoicesByNumber(view, mods) ==
  LET all == UNION {Spans(view, f) : f \in mods}
  IN  {o \in [all -> mods] : \A s \in all : s[2] <= Len(ImportsOf(view[o[s]]))}

(* find_owning_module: a module one of whose imports has the span, the     *)
(* first in the order of a hash map.                                       *)
OwnerChoices(view, mods) ==
  LET all == UNION {Spans(view, f) : f \in mods}
  IN  {o \in [all -> mods] : \A s \in all : s \in Spans(view, o[s])}

(* map_workspace_to_lsp: what goes to each URI.                            *)
(* A diagnostic whose span no module owns is dropped.                      *)
Mapped(view, u, blame, owner, cycles) ==
  [f \in Modules(view, u) \cup {u} |->
     {[kind |-> "flaw", span |-> <<0, 0>>] : x \in {y \in {f} : Parses(view[y]) /\ view[y].flaw}}
     \cup {d \in WorkspaceDiags(view, u, blame) : d.span \in DOMAIN owner /\ owner[d.span] = f}
     \cup {Problem("circular", p) : p \in {q \in cycles : q[1] = f}}]

(* compute_diagnostics: the fallback for a single file. *)
Single(t) ==
  IF ~Parses(t) THEN {[kind |-> "syntax", span |-> <<0, 0>>]}
  ELSE IF t.flaw THEN {[kind |-> "flaw", span |-> <<0, 0>>]}
  ELSE {}

---------------------------------------------------------------------------
(* A client shows what it was sent last. *)
Sent(out, cleared) ==
  [v \in File |-> IF v \in DOMAIN out THEN out[v]
                  ELSE IF v \in cleared THEN {} ELSE shown[v]]

(* A pass that clears nothing. *)
PublishWorkspaceUncleared(u, t) ==
  LET view == View(u, t)
      mods == Modules(view, u)
  IN  /\ disk[u] # NoText
      /\ \E blame \in BlameChoices(view, mods), owner \in OwnerChoices(view, mods),
            cycles \in SUBSET CyclicImports(view, mods) :
           LET out == Mapped(view, u, blame, owner, cycles)
           IN  /\ cycles = {} <=> CyclicImports(view, mods) = {}
               /\ shown' = Sent(out, {})
               /\ published' = DOMAIN out
               /\ pass' = [uri |-> u, fresh |-> TRUE, out |-> out]
      /\ last' = Graph(view, u)

(* A pass that keeps the graph of the one before. *)
PublishWorkspaceKept(u, t) ==
  LET view == View(u, t)
      mods == Modules(view, u)
  IN  /\ disk[u] # NoText
      /\ \E blame \in BlameChoices(view, mods), owner \in OwnerChoices(view, mods),
            cycles \in SUBSET CyclicImports(view, mods) :
           LET out == Mapped(view, u, blame, owner, cycles)
           IN  /\ cycles = {} <=> CyclicImports(view, mods) = {}
               /\ shown' = Sent(out, published)
               /\ published' = DOMAIN out
               /\ pass' = [uri |-> u, fresh |-> TRUE, out |-> out]
      /\ last' = IF last = NoGraph THEN Graph(view, u) ELSE last

PublishWorkspace(u, t) ==
  LET view == View(u, t)
      mods == Modules(view, u)
  IN  /\ disk[u] # NoText
      /\ \E blame \in BlameChoices(view, mods), owner \in OwnerChoices(view, mods),
            cycles \in SUBSET CyclicImports(view, mods) :
           LET out == Mapped(view, u, blame, owner, cycles)
           IN  /\ cycles = {} <=> CyclicImports(view, mods) = {}
               /\ shown' = Sent(out, published)
               /\ published' = DOMAIN out
               /\ pass' = [uri |-> u, fresh |-> TRUE, out |-> out]
      /\ last' = Graph(view, u)

PublishSingle(u, t) ==
  LET out == [f \in {u} |-> Single(t)]
  IN  /\ disk[u] = NoText
      /\ last' = NoGraph
      /\ shown' = Sent(out, published)
      /\ published' = {u}
      /\ pass' = [uri |-> u, fresh |-> TRUE, out |-> out]

(* didOpen and didChange: the client opens what is not open, and changes   *)
(* what is.                                                                *)
Upsert(u, t) ==
  /\ docs' = [docs EXCEPT ![u] = t]
  /\ PublishWorkspace(u, t) \/ PublishSingle(u, t)
  /\ answer' = NoAnswer
  /\ UNCHANGED disk

DidOpen(u, t) == docs[u] = NoText /\ Upsert(u, t)

DidChange(u, t) == docs[u] \notin {NoText, t} /\ Upsert(u, t)

DidClose(u) ==
  /\ docs[u] # NoText
  /\ docs' = [docs EXCEPT ![u] = NoText]
  /\ shown' = [v \in File |-> IF v = u \/ v \in published THEN {} ELSE shown[v]]
  /\ published' = {}
  /\ answer' = NoAnswer
  /\ UNCHANGED <<disk, last, pass>>

(* import_path_target: the slot of the import in the graph of whatever     *)
(* workspace was built last.                                               *)
CanonicalId(u, i) ==
  IF disk[u] # NoText /\ u \in DOMAIN last /\ i \in DOMAIN last[u]
    THEN last[u][i]
    ELSE <<"none">>

GotoDefinition(u, i) ==
  /\ docs[u] # NoText
  /\ i <= Len(ImportsOf(docs[u]))
  /\ answer' = [uri |-> u, ix |-> i, id |-> CanonicalId(u, i)]
  /\ UNCHANGED <<disk, docs, published, last, shown, pass>>

(* A file is saved, changed by somebody else, created or removed. *)
ChangeDisk(f, t) ==
  /\ disk[f] # t
  /\ disk' = [disk EXCEPT ![f] = t]
  /\ answer' = NoAnswer
  /\ pass' = [pass EXCEPT !.fresh = FALSE]
  /\ UNCHANGED <<docs, published, last, shown>>

Next ==
  \/ \E u \in File, t \in Texts : DidOpen(u, t)
  \/ \E u \in File, t \in Texts : DidChange(u, t)
  \/ \E u \in File : DidClose(u)
  \/ \E u \in File, i \in 1 .. MaxImports : GotoDefinition(u, i)
  \/ \E f \in File, t \in Texts \cup {NoText} : ChangeDisk(f, t)

Spec == Init /\ [][Next]_vars

---------------------------------------------------------------------------
Kinds == {"flaw", "not_found", "parse_error", "syntax", "circular"}

Diags == [kind : Kinds, span : (0 .. Cardinality(File)) \X (0 .. MaxImports)]

TypeOK ==
  /\ disk \in [File -> Texts \cup {NoText}]
  /\ docs \in [File -> Texts \cup {NoText}]
  /\ published \subseteq File
  /\ DOMAIN last \subseteq File
  /\ \A u \in File : \A d \in shown[u] : d \in Diags
  /\ answer.uri \in File \cup {NoFile}

(***************************************************************************)
(* The client shows nothing but what the latest pass of                    *)
(* publish_diagnostics found, and the server knows every URI it has to     *)
(* clear: no squiggle is left behind by an earlier pass, by a switch       *)
(* between workspace and single-file mode, or by a close.                  *)
(***************************************************************************)
NoLeftovers ==
  \A u \in File : shown[u] # {} =>
    /\ u \in published
    /\ u \in DOMAIN pass.out
    /\ shown[u] = pass.out[u]

(* Nothing has been closed or changed on disk since the latest pass. *)
Standing == pass.fresh /\ published # {}

PassView == View(pass.uri, docs[pass.uri])

(***************************************************************************)
(* After a pass over the workspace, every loaded module shows the imports  *)
(* of its own that lead nowhere, and only those.                           *)
(***************************************************************************)
MissingImportsAreShown ==
  Standing /\ disk[pass.uri] # NoText =>
    \A f \in Modules(PassView, pass.uri) : \A i \in 1 .. MaxImports :
      [kind |-> "not_found", span |-> Span(f, i)] \in shown[f]
        <=> /\ i <= Len(ImportsOf(PassView[f]))
            /\ ~Leads(PassView, ImportsOf(PassView[f])[i])

(***************************************************************************)
(* A document that does not parse shows its syntax error after a pass.     *)
(* Does not hold: the entry's syntax error has no import that owns it.     *)
(***************************************************************************)
SyntaxErrorsAreShown ==
  Standing /\ ~Parses(docs[pass.uri]) =>
    \E d \in shown[pass.uri] : d.kind \in {"syntax", "parse_error"}

Asked == answer.uri # NoFile

AskedTarget == docs[answer.uri].imports[answer.ix]

(***************************************************************************)
(* Go-to-definition on an import that leads to a file gives that file, if  *)
(* the latest pass was over the document and the files are as they were.   *)
(***************************************************************************)
GotoAfterOwnPass ==
  /\ Asked /\ disk[answer.uri] # NoText
  /\ pass.uri = answer.uri /\ pass.fresh
  /\ Leads(PassView, AskedTarget)
  => answer.id = <<"id", AskedTarget>>

(***************************************************************************)
(* GotoTarget::ImportPath's canonical id is the one of the import asked    *)
(* for.                                                                    *)
(* Does not hold when another document was analysed last.                  *)
(***************************************************************************)
GotoLeadsToTheImport ==
  Asked /\ answer.id[1] = "id" => answer.id = <<"id", AskedTarget>>

(***************************************************************************)
(* An import that could not be resolved has no canonical id.               *)
(* Does not hold: the path takes the place of the id.                      *)
(***************************************************************************)
FailedImportsHaveNoId ==
  /\ Asked /\ pass.uri = answer.uri /\ pass.fresh
  /\ AskedTarget = NoFile
  => answer.id = <<"none">>
===========================================================================
