--------------------------- MODULE MCContiguousDecode ---------------------------
(* Model-checking instance of ContiguousDecode. Token 3 ends a text. *)
EXTENDS ContiguousDecode

CONSTANTS d1, d2

MCDevices == {d1, d2}

\* A greedy model whose choice depends on the whole text; texts that begin with 1
\* come to their end, the others do not.
MCPick(text) ==
    IF Len(text) >= 3 /\ text[1] = 1 THEN 3
    ELSE 1 + ((Len(SelectSeq(text, LAMBDA t : t = 2)) + Len(text)) % 2)

\* The rows of two requests never agree.
MCPrompts(r) == {<<r>>, <<r, r>>}

MCAsks == {<<1, d1>>, <<2, d1>>, <<2, d2>>}

MCSpecPrompts == {<<1>>, <<2, 1>>}

MCAdmissions == {<<<<1>>, 4>>, <<<<2, 1>>, 3>>, <<<<2>>, 2>>}
================================================================================
