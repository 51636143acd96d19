--------------------------- MODULE MCObjectCache ---------------------------
EXTENDS ObjectCache, TLC

CONSTANTS p1, p2

\* The same linker everywhere, and a second one on the other process's PATH.
SameLinker  == [p \in Procs |-> "o"]
OwnLinkers  == p1 :> "o1" @@ p2 :> "o2"
=============================================================================
