---------------------------- MODULE MCModuleLoad ----------------------------
EXTENDS ModuleLoad, TLC

CONSTANTS a, b, v1, v2

\* Module a has two names.
TwoNames == "a" :> a @@ "alias" :> a @@ "b" :> b

\* Import lists of at most one name; both modules can be on a cycle, alone or
\* together, by either name of a.
ShortGraphs ==
    {g \in [Modules -> {<<>>} \cup {<<n>> : n \in Names}] :
        g[a] # <<"a">> /\ g[b] # <<"alias">>}

\* The workspace pass has kept nothing, or an earlier text of b.
FewWorkspaces ==
    {[m \in Modules |-> NoVersion], [m \in Modules |-> IF m = b THEN v1 ELSE NoVersion]}

Symmetric == Permutations(Threads)
=============================================================================
