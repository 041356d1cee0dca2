------------------------------ MODULE MCChunkTree ------------------------------
(***************************************************************************)
(* ChunkTree for TLC: sentences with one or two chunks at the top, chunks  *)
(* three levels deep, refs that do and do not follow the document, and     *)
(* chunks with several words; rules with each operator on each side, one   *)
(* of which begins with a label, any number of them for one chunk or word. *)
(***************************************************************************)
EXTENDS ChunkTree

C(r) == Chunk(r)
W(r) == Word(r, 0)

\* A tree, from pairs of an element and its children.
Tree(pairs) ==
    LET elements == UNION {{pair[1]} \cup ToSet(pair[2]) : pair \in pairs}
    IN [e \in elements |-> IF \E pair \in pairs : pair[1] = e THEN (CHOOSE pair \in pairs : pair[1] = e)[2] ELSE <<>>]

MCDocuments ==
    {Tree({<<Sentence, <<C(1), C(3)>>>>, <<C(1), <<W(1), C(2)>>>>, <<C(2), <<W(2)>>>>, <<C(3), <<W(3)>>>>}),
     Tree({<<Sentence, <<C(2), C(3), C(1)>>>>, <<C(2), <<W(2)>>>>, <<C(3), <<W(3)>>>>, <<C(1), <<W(1)>>>>}),
     Tree({<<Sentence, <<C(3)>>>>, <<C(3), <<W(3), C(1), C(4)>>>>, <<C(1), <<W(1), C(2)>>>>, <<C(2), <<W(2)>>>>,
           <<C(4), <<W(4)>>>>}),
     Tree({<<Sentence, <<C(2)>>>>, <<C(2), <<W(2), C(4)>>>>, <<W(2), <<W(1), W(3)>>>>, <<C(4), <<W(4)>>>>}),
     Tree({<<Sentence, <<C(1)>>>>, <<C(1), <<W(1)>>>>, <<W(1), <<W(2)>>>>, <<W(2), <<W(3)>>>>})}

T(operator, variable) == Token(operator, variable)
MCChunkRules ==
    {<<T("", "x1"), T(".", "x2"), T(".", "head")>>,
     <<T("", "label"), T("", "x2"), T("+", "x1"), T("+", "head")>>,
     <<T("", "head"), T("+", "x1"), T(".", "x2")>>}
MCWordRules == {<<T("", "x1"), T("+", "head")>>, <<T("", "head"), T(".", "x1")>>}
MCVariables == {"x1", "x2"}
===============================================================================
