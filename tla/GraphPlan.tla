------------------------------- MODULE GraphPlan -------------------------------
(* The passes of fuel-graph that order in-place operations.  A graph is a      *)
(* sequence of nodes; a node reads other nodes by their index.  An in-place    *)
(* node writes through the storage of its first input and a view shares it,    *)
(* so the order in which the nodes run decides what the other readers of that  *)
(* storage see.                                                                *)
EXTENDS Naturals, SequencesExt

Node(op, inputs) == [op |-> op, inputs |-> inputs]

\* "view" stands for every op that shares the storage of its input (the strided
\* views, View, Reshape and Contiguize), "inplace" for the in-place unary ops and
\* ZeroFill, "write" for the slice writes.  Release, which has no result, is left out.
InPlaceOps  == {"inplace", "write"}
Destructive == InPlaceOps \cup {"move"}
IsView(g, n)  == g[n].op = "view"
InputsOf(g, n) == ToSet(g[n].inputs)

\* The nodes of order, then those of todo with the inputs each needs: the last
\* of todo first, a node after its inputs.  The stack of the code, as a recursion:
\* on a graph without cycles a node it has visited is in the order when it comes
\* up again.
RECURSIVE Walk(_, _, _)
Walk(g, todo, order) ==
  IF todo = <<>> THEN order
  ELSE LET n    == Last(todo)
           done == IF n \in ToSet(order) THEN order ELSE Append(Walk(g, g[n].inputs, order), n)
       IN  Walk(g, Front(todo), done)

topo_order_multi(g, roots) == Walk(g, roots, <<>>)

\* The node whose storage a node has, views looked through.
alias_groups(g) ==
  LET base[n \in DOMAIN g] == IF IsView(g, n) THEN base[g[n].inputs[1]] ELSE n
  IN  base

\* Mutant: only the readers of the destroyed node itself are waited for.
derive_ordering_Direct(g, live) ==
  [d \in live |->
     IF g[d].op \notin Destructive THEN {}
     ELSE {r \in live \ {d} : g[d].inputs[1] \in InputsOf(g, r)}]

\* What a destructive node waits for: every reader of a node that shares the
\* storage it destroys.  Views of that storage are not readers themselves.
derive_ordering(g, live) ==
  LET base == alias_groups(g)
  IN  [d \in live |->
         IF g[d].op \notin Destructive THEN {}
         ELSE LET alias == {a \in live : base[a] = base[g[d].inputs[1]]}
              IN  {r \in live \ (alias \cup {d}) : InputsOf(g, r) \cap alias # {}}]

\* The edges that execution_plan linearises: data and ordering.
Predecessors(g, live) ==
  LET ordering == derive_ordering(g, live)
  IN  [n \in live |-> InputsOf(g, n) \cup ordering[n]]

\* Kahn's algorithm; of the ready nodes the first of topo_order_multi goes
\* first.  Shorter than that order when the edges form a cycle.
execution_plan(g, roots) ==
  LET base  == topo_order_multi(g, roots)
      preds == Predecessors(g, ToSet(base))
      ready(p) == {i \in DOMAIN base : base[i] \notin ToSet(p) /\ preds[base[i]] \subseteq ToSet(p)}
      plan[k \in 0..Len(base)] ==
        IF k = 0 THEN <<>>
        ELSE LET p == plan[k-1]
                 r == ready(p)
             IN  IF r = {} THEN p ELSE Append(p, base[Min(r)])
  IN  IF \A n \in ToSet(base) : preds[n] = InputsOf(g, n) THEN base ELSE plan[Len(base)]

\* The optimized graph's order: extract_runs_multi cuts the walk into runs and
\* lowering puts them end to end again, so without branches it is the walk.
dispatch_order(g, roots) == topo_order_multi(g, roots)

order_for(g, roots, entry) ==
  IF entry = "default" THEN execution_plan(g, roots) ELSE dispatch_order(g, roots)

\* execution_plan panics when it is shorter than the walk.
HasPlan(g, roots) == Len(execution_plan(g, roots)) = Len(topo_order_multi(g, roots))

\* The nodes that one step of adj or more reaches from those of from.
RECURSIVE reach(_, _)
reach(from, adj) ==
  LET more == from \cup UNION {adj[m] : m \in from}
  IN  IF more = from THEN from ELSE reach(more, adj)

forced_before(preds, n) == reach(preds[n], preds)
forced_after(preds, n) ==
  LET succ == [m \in DOMAIN preds |-> {s \in DOMAIN preds : m \in preds[s]}]
  IN  reach(succ[n], succ)

\* Mutant: only the readers that must run after d conflict with it.
ConflictingReaders_After(g, preds, d) ==
  {r \in forced_after(preds, d) \ {d} : g[d].inputs[1] \in InputsOf(g, r)}

\* Mutant: every other reader conflicts.
ConflictingReaders_All(g, preds, d) ==
  {r \in DOMAIN preds \ {d} : g[d].inputs[1] \in InputsOf(g, r)}

\* What the scan of one destructive node d finds: the readers of its target that
\* the edges do not force to run before it.
ConflictingReaders(g, preds, d) ==
  LET readers == {r \in DOMAIN preds \ {d} : g[d].inputs[1] \in InputsOf(g, r)}
  IN  IF readers = {} THEN {}
      ELSE readers \ (forced_before(preds, d) \ forced_after(preds, d))

\* Every use of one input of a node becomes a use of another.
rewrite_input(node, old, new) ==
  [node EXCEPT !.inputs = [k \in DOMAIN @ |-> IF @[k] = old THEN new ELSE @[k]]]

\* Mutant: the pass is not run.
insert_safety_copies_None(g, roots) == g

\* One copy of the target for each destructive node with conflicting readers,
\* which read the copy instead.  The conflicts are those of the graph before any
\* copy, so a reader two of them name is rewired by the first.
insert_safety_copies(g, roots) ==
  LET order     == topo_order_multi(g, roots)
      preds     == Predecessors(g, ToSet(order))
      destroys  == {d \in ToSet(order) : g[d].op \in Destructive}
      readers   == [d \in destroys |-> ConflictingReaders(g, preds, d)]
      conflicts == SelectSeq(order, LAMBDA d : d \in destroys /\ readers[d] # {})
      target(c) == g[conflicts[c]].inputs[1]
      of(n, i)  == {c \in DOMAIN conflicts : target(c) = i /\ n \in readers[conflicts[c]]}
      source(n, i) == IF of(n, i) = {} THEN i ELSE Len(g) + Min(of(n, i))
  IN  [n \in DOMAIN g |-> [g[n] EXCEPT !.inputs = [k \in DOMAIN @ |-> source(n, @[k])]]]
      \o [c \in DOMAIN conflicts |-> Node("copy", <<target(c)>>)]

\* The consumers of a node after the longest stretch without one, in the order
\* of a walk from every node; none when that stretch is shorter than two.
find_gap_consumers(g, candidate) ==
  LET order == topo_order_multi(g, [n \in DOMAIN g |-> n])
      uses  == SelectSeq([p \in DOMAIN order |-> p], LAMBDA p : candidate \in InputsOf(g, order[p]))
      gap(u) == uses[u + 1] - uses[u]
      gaps  == 1..(Len(uses) - 1)
      widest == {u \in gaps : \A w \in gaps : gap(w) <= gap(u)}
  IN  IF gaps = {} \/ \A u \in gaps : gap(u) < 2 THEN {}
      ELSE {order[uses[u]] : u \in (Min(widest) + 1)..Len(uses)}

already_evicted(g, candidate) ==
  \E n \in DOMAIN g : g[n].op = "move" /\ g[n].inputs[1] = candidate

\* The candidate is moved to the host after its last consumer before the gap, and
\* loaded back for the consumers after it.
insert_evict_reload_in(g, candidate, post) ==
  LET move_id   == Len(g) + 1
      reload_id == Len(g) + 2
  IN  [n \in DOMAIN g |-> IF n \in post THEN rewrite_input(g[n], candidate, reload_id) ELSE g[n]]
      \o <<Node("move", <<candidate>>), Node("copy", <<move_id>>)>>

\* The node whose result a node's value is: a view, a copy and a move have the
\* value of their input.
ValueOf(g) ==
  LET value[n \in DOMAIN g] ==
        IF g[n].op \in {"view", "copy", "move"} THEN value[g[n].inputs[1]] ELSE n
  IN  value
================================================================================
