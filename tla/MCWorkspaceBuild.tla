------------------------- MODULE MCWorkspaceBuild -------------------------
(* Workspaces of three files: the entry imports up to twice and its imports *)
(* may fail in every way, so may the one of file 2, file 3 closes cycles.   *)
EXTENDS WorkspaceBuild

ImportSet(checks) == [to : File \cup {NoFile}, check : checks]
AnyCheck == {"ok", "refused", "mismatch"}

Texts(max, checks) ==
  {[parses |-> FALSE, imports |-> <<>>]} \cup
  {[parses |-> TRUE, imports |-> s] :
     s \in UNION {[1 .. n -> ImportSet(checks)] : n \in 0 .. max}}

ThreeFiles ==
  {<<a, b, c>> : a \in Texts(2, AnyCheck), b \in Texts(1, AnyCheck), c \in Texts(1, {"ok"})}
===========================================================================
