---------------------------- MODULE MCLspServer ----------------------------
(* Texts with every list of up to MaxImports imports, one with a flaw, and *)
(* one that does not parse.                                                *)
EXTENDS LspServer

Lists == UNION {[1 .. n -> File \cup {NoFile}] : n \in 0 .. MaxImports}

AllTexts ==
  {[kind |-> "broken"], [kind |-> "text", flaw |-> TRUE, imports |-> <<>>]}
  \cup {[kind |-> "text", flaw |-> FALSE, imports |-> s] : s \in Lists}

DistinctPlaces == [f \in File |-> f]

SamePlace == [f \in File |-> 1]
============================================================================
