----------------------------- MODULE MCGraphRealize -----------------------------
EXTENDS GraphRealize

Rank == [const |-> 0, plain |-> 1, view |-> 2, inplace |-> 3, write |-> 4]

\* Two nodes pushed one after the other that do not read one another could have
\* been pushed the other way round; one of the two orders is enough.
Key(n) == FoldLeft(LAMBDA i, j : 10 * i + j, Rank[graph[n].op], graph[n].inputs \o [k \in 1..(2 - Len(graph[n].inputs)) |-> 0])

Canonical ==
  LET n == Len(graph)
  IN  phase = "building" /\ n > 1 /\ n - 1 \notin InputsOf(graph, n) => Key(n - 1) <= Key(n)
================================================================================
