--------------------------- MODULE MCStrContains ---------------------------
EXTENDS StrContains, TLC

\* Texts over the bytes a and b: needles of no, one and several bytes, found
\* at the start, found at the very end, and not found.
FewTexts == {<<>>, <<98>>, <<98, 97>>, <<97, 97, 98>>}

Symmetric == Permutations(Threads)
=============================================================================
