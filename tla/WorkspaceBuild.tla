-------------------------- MODULE WorkspaceBuild --------------------------
(***************************************************************************)
(* The workspace pass of relon-analyzer/src/workspace_build.rs: from the   *)
(* text of an entry it loads the modules reached by imports level by       *)
(* level, analyses a level in parallel, and searches the graph it built    *)
(* for cycles (module ImportCycles).                                       *)
(*                                                                         *)
(* A text either does not parse or is its list of imports.  An import      *)
(* names a file, or a path no resolver knows (NoFile), and may carry a     *)
(* pin: one refused before anything is loaded (required and missing, an    *)
(* unknown algorithm, bad hex), or one the loaded text does not match.     *)
(*                                                                         *)
(* The queue of the code holds the imports of the modules of a level in    *)
(* the order of the modules' ids, those of a module in their own order,    *)
(* and no import twice.  Here it is the set of them, taken in that order.  *)
(***************************************************************************)
EXTENDS Integers, Sequences, FiniteSets

CONSTANTS File,     \* the files of the workspace, in the order of their ids
          Entry,    \* the file the pass starts from
          Sources   \* what the files may hold

NoFile == 0

ASSUME ConstantsAssumption ==
  /\ File \subseteq Nat \ {NoFile} /\ Entry \in File
  /\ \A s \in Sources : \A f \in File :
       /\ s[f].parses \in BOOLEAN
       /\ s[f].imports \in Seq([to : File \cup {NoFile}, check : {"ok", "refused", "mismatch"}])

VARIABLES source,    \* the text of every file
          phase,     \* where build() is
          modules,   \* WorkspaceTree::modules: the files loaded
          graph,     \* WorkspaceTree::import_graph
          diags,     \* WorkspaceTree::workspace_diagnostics, but cycles
          queue,     \* the imports of the next level
          level,     \* the imports of this level still to be loaded
          jobs,      \* the modules of this level to be analysed
          analyzed,  \* the jobs the workers are done with
          color, stack, edge, emitted, rank, clock   \* the cycle search

loadVars == <<modules, diags, queue, level, jobs, analyzed>>
searchVars == <<color, stack, edge, emitted, rank, clock>>
vars == <<source, phase, graph, loadVars, searchVars>>

(* A vertex of the graph is a canonical id or the path of an import. *)
Id(f) == <<"id", f>>
Path(f) == <<"path", f>>
Vertex == {Id(f) : f \in File} \cup {Path(f) : f \in File \cup {NoFile}}

Cycles == INSTANCE ImportCycles

ImportAt(item) == source[item.by].imports[item.ix]

Imports(f) == source[f].imports

(* collect_import_targets: one pending import per directive. *)
Pending(f) == {[by |-> f, ix |-> i] : i \in 1 .. Len(Imports(f))}

RawEdges(f) == [i \in 1 .. Len(Imports(f)) |-> Path(Imports(f)[i].to)]

Diag(kind, item) == [kind |-> kind, by |-> item.by, ix |-> item.ix]

NoSearch ==
  /\ color = <<>>
  /\ stack = <<>>
  /\ edge = <<>>
  /\ emitted = {}
  /\ rank = <<>>
  /\ clock = 0

Init ==
  /\ source \in Sources
  /\ phase = "entry"
  /\ modules = {} /\ graph = <<>> /\ diags = {}
  /\ queue = {} /\ level = {}
  /\ jobs = {} /\ analyzed = {}
  /\ NoSearch

(* The entry is analysed first; one that does not parse stays out. *)
AnalyzeEntry ==
  /\ phase = "entry"
  /\ phase' = "levels"
  /\ IF source[Entry].parses
       THEN /\ modules' = {Entry}
            /\ graph' = [v \in {Id(Entry)} |-> RawEdges(Entry)]
            /\ queue' = Pending(Entry)
            /\ UNCHANGED diags
       ELSE /\ diags' = {Diag("parse_error", [by |-> NoFile, ix |-> 0])}
            /\ UNCHANGED <<modules, graph, queue>>
  /\ UNCHANGED <<source, level, jobs, analyzed, searchVars>>

TakeLevel ==
  /\ phase = "levels"
  /\ queue # {}
  /\ level' = queue
  /\ queue' = {}
  /\ phase' = "prelude"
  /\ UNCHANGED <<source, graph, modules, diags, jobs, analyzed, searchVars>>

(* The first edge that still has the import's path becomes the id. *)
Resolved(edges, path, id) ==
  LET at == {i \in 1 .. Len(edges) : edges[i] = path}
  IN  IF at = {} THEN edges
      ELSE [edges EXCEPT ![CHOOSE i \in at : \A j \in at : i <= j] = id]

Scheduled == {j.id : j \in jobs}

Refuse(item) ==
  /\ ImportAt(item).check = "refused"
  /\ diags' = diags \cup {Diag("hash_refused", item)}
  /\ UNCHANGED <<graph, jobs>>

NotFound(item) ==
  /\ ImportAt(item).check # "refused"
  /\ ImportAt(item).to = NoFile
  /\ diags' = diags \cup {Diag("not_found", item)}
  /\ UNCHANGED <<graph, jobs>>

Mismatch(item) ==
  /\ ImportAt(item).check = "mismatch"
  /\ ImportAt(item).to # NoFile
  /\ diags' = diags \cup {Diag("hash_mismatch", item)}
  /\ UNCHANGED <<graph, jobs>>

(* A level that remembers who imported instead of what was imported. *)
LoadOnePerImporter(item) ==
  LET f == ImportAt(item).to
  IN  /\ ImportAt(item).check = "ok"
      /\ f # NoFile
      /\ graph' = [graph EXCEPT ![Id(item.by)] = Resolved(@, Path(f), Id(f))]
      /\ jobs' = IF f \in modules \/ item.by \in {j.by : j \in jobs}
                   THEN jobs
                   ELSE jobs \cup {[id |-> f, by |-> item.by, ix |-> item.ix]}
      /\ UNCHANGED diags

(* Only the first import of a module not loaded yet leaves a job. *)
Load(item) ==
  LET f == ImportAt(item).to
  IN  /\ ImportAt(item).check = "ok"
      /\ f # NoFile
      /\ graph' = [graph EXCEPT ![Id(item.by)] = Resolved(@, Path(f), Id(f))]
      /\ jobs' = IF f \in modules \cup Scheduled
                   THEN jobs
                   ELSE jobs \cup {[id |-> f, by |-> item.by, ix |-> item.ix]}
      /\ UNCHANGED diags

(* The modules in the order of their ids, the imports of each in turn. *)
First(item) ==
  \A other \in level : item.by < other.by \/ (item.by = other.by /\ item.ix <= other.ix)

PreludeImport ==
  /\ phase = "prelude"
  /\ \E item \in level :
       /\ First(item)
       /\ Refuse(item) \/ NotFound(item) \/ Mismatch(item) \/ Load(item)
       /\ level' = level \ {item}
  /\ UNCHANGED <<source, phase, modules, queue, analyzed, searchVars>>

FanOut ==
  /\ phase = "prelude"
  /\ level = {}
  /\ phase' = "analyze"
  /\ UNCHANGED <<source, graph, loadVars, searchVars>>

(* The workers of the pool finish their jobs in any order. *)
AnalyzeJob(j) ==
  /\ phase = "analyze"
  /\ j \in jobs \ analyzed
  /\ analyzed' = analyzed \cup {j}
  /\ UNCHANGED <<source, phase, graph, modules, diags, queue, level, jobs, searchVars>>

Broken == {j \in jobs : ~source[j.id].parses}

(* A module that does not parse is blamed on nobody. *)
MergeSilently ==
  LET new == {Id(f) : f \in Scheduled}
  IN  /\ phase = "analyze"
      /\ analyzed = jobs
      /\ modules' = modules \cup Scheduled
      /\ graph' = [v \in DOMAIN graph \cup new |->
                     IF v \notin new THEN graph[v]
                     ELSE IF source[v[2]].parses THEN RawEdges(v[2]) ELSE <<>>]
      /\ queue' = UNION {Pending(f) : f \in {g \in Scheduled : source[g].parses}}
      /\ UNCHANGED diags
      /\ jobs' = {}
      /\ analyzed' = {}
      /\ phase' = "levels"
      /\ UNCHANGED <<source, level, searchVars>>

(* Results are folded back and their imports queued; a module that does    *)
(* not parse gets an empty shell, and its error goes to the import that    *)
(* led to it.                                                              *)
Merge ==
  LET new == {Id(f) : f \in Scheduled}
  IN  /\ phase = "analyze"
      /\ analyzed = jobs
      /\ modules' = modules \cup Scheduled
      /\ graph' = [v \in DOMAIN graph \cup new |->
                     IF v \notin new THEN graph[v]
                     ELSE IF source[v[2]].parses THEN RawEdges(v[2]) ELSE <<>>]
      /\ queue' = UNION {Pending(f) : f \in {g \in Scheduled : source[g].parses}}
      /\ diags' = diags \cup {Diag("parse_error", j) : j \in Broken}
      /\ jobs' = {}
      /\ analyzed' = {}
      /\ phase' = "levels"
      /\ UNCHANGED <<source, level, searchVars>>

DetectCycles ==
  /\ phase = "levels"
  /\ queue = {}
  /\ phase' = "cycles"
  /\ color' = [v \in Cycles!Nodes(graph) |-> "white"]
  /\ rank' = [v \in Cycles!Nodes(graph) |-> 0]
  /\ UNCHANGED <<source, graph, loadVars, stack, edge, emitted, clock>>

Search ==
  /\ phase = "cycles"
  /\ Cycles!Next
  /\ UNCHANGED <<source, phase, loadVars>>

Done ==
  /\ phase = "cycles"
  /\ Cycles!Finished
  /\ phase' = "done"
  /\ UNCHANGED <<source, graph, loadVars, searchVars>>

Next ==
  \/ AnalyzeEntry
  \/ TakeLevel
  \/ PreludeImport
  \/ FanOut
  \/ \E j \in jobs : AnalyzeJob(j)
  \/ Merge
  \/ DetectCycles
  \/ Search
  \/ Done

Spec == Init /\ [][Next]_vars

---------------------------------------------------------------------------
Items == [by : File, ix : Nat \ {0}]

Jobs == [id : File, by : File, ix : Nat \ {0}]

TypeOK ==
  /\ phase \in {"entry", "levels", "prelude", "analyze", "cycles", "done"}
  /\ modules \subseteq File
  /\ DOMAIN graph = {Id(f) : f \in modules}
  /\ \A v \in DOMAIN graph : graph[v] \in Seq(Vertex)
  /\ \A d \in diags : d.by \in File \cup {NoFile} /\ d.ix \in Nat
  /\ queue \subseteq Items /\ level \subseteq Items
  /\ jobs \subseteq Jobs /\ analyzed \subseteq jobs
  /\ phase \in {"cycles", "done"} => Cycles!TypeOK

Loaded == phase \in {"cycles", "done"}

(* An import that leads to a module: found, and not refused. *)
Resolves(f, i) == Imports(f)[i].to # NoFile /\ Imports(f)[i].check = "ok"

Closed(S) ==
  /\ source[Entry].parses => Entry \in S
  /\ \A f \in S : source[f].parses =>
       \A i \in 1 .. Len(Imports(f)) : Resolves(f, i) => Imports(f)[i].to \in S

(***************************************************************************)
(* The level-by-level loading of build() ends with the modules that        *)
(* imports reach from the entry, and no others.                            *)
(***************************************************************************)
EveryModuleIsLoaded ==
  Loaded => Closed(modules) /\ \A S \in SUBSET File : Closed(S) => modules \subseteq S

(* Two imports of one path, of which an earlier one failed its pin. *)
PathAfterFailedPin(f) ==
  \E i, j \in 1 .. Len(Imports(f)) :
    i < j /\ Imports(f)[i].to = Imports(f)[j].to /\ ~Resolves(f, i) /\ Resolves(f, j)

(***************************************************************************)
(* When loading is through, every import of a loaded module either leads   *)
(* to a module or has its one diagnostic, and a module that does not parse *)
(* is blamed on exactly one import that leads to it.  The i-th edge of a   *)
(* module is where its i-th import leads: the id if it resolved, the path  *)
(* if it did not; build_import_index and locate_import_range walk the two  *)
(* lists in lockstep.  This is so unless a good import comes after one of  *)
(* the same path whose pin failed: its id is written into the first edge   *)
(* that has the path.                                                      *)
(***************************************************************************)
ImportsAreAccountedFor ==
  Loaded =>
    /\ \A f \in modules : \A i \in 1 .. Len(Imports(f)) :
         source[f].parses =>
           Cardinality({d \in diags : d.by = f /\ d.ix = i /\ d.kind # "parse_error"}) =
             IF Resolves(f, i) THEN 0 ELSE 1
    /\ \A f \in modules : ~source[f].parses =>
         Cardinality({d \in diags : /\ d.kind = "parse_error"
                                    /\ d.by # NoFile
                                    /\ Imports(d.by)[d.ix].to = f}) = 1
    /\ \A f \in modules : source[f].parses /\ ~PathAfterFailedPin(f) =>
         \A i \in 1 .. Len(Imports(f)) :
           graph[Id(f)][i] = IF Resolves(f, i) THEN Id(Imports(f)[i].to)
                                               ELSE Path(Imports(f)[i].to)

ImportCycle(S) ==
  /\ S # {}
  /\ \A f \in S : /\ source[f].parses
                  /\ \E i \in 1 .. Len(Imports(f)) : Resolves(f, i) /\ Imports(f)[i].to \in S

(* A chain of ids in which each file imports the next, back to the first. *)
ImportCircle(chain) ==
  /\ Len(chain) >= 2
  /\ chain[1] = chain[Len(chain)]
  /\ \A k \in 1 .. Len(chain) - 1 :
       \E f \in modules : \E i \in 1 .. Len(Imports(f)) :
         /\ Resolves(f, i)
         /\ chain[k] = Id(f)
         /\ chain[k + 1] = Id(Imports(f)[i].to)

(***************************************************************************)
(* A build reports a circular import exactly if the texts it loaded import *)
(* each other in a circle, and every chain it reports is such a circle of  *)
(* imports as the files have them, in the order of the files.              *)
(***************************************************************************)
CircularImportsAreReported ==
  /\ \A chain \in emitted : ImportCircle(chain)
  /\ phase = "done" => (emitted # {} <=> \E S \in SUBSET modules : ImportCycle(S))

===========================================================================
