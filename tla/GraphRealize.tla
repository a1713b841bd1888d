------------------------------ MODULE GraphRealize ------------------------------
(* Building a graph, the passes over it, and the dispatch of its nodes one      *)
(* after another over shared buffers.  "default" is PipelinedExecutor::realize,  *)
(* "optimized" the route of the lazy front end: optimize_graph, then the order   *)
(* of dispatch_order, which on a graph without branches and on one device is     *)
(* topo_order_multi.  Of the passes of optimize_graph only the eviction changes  *)
(* the inputs of a node here.                                                    *)
EXTENDS GraphPlan

CONSTANTS MaxNodes, MaxConsts, MaxRoots, MaxEvictions, Entries

ASSUME GraphBounds == MaxNodes \in Nat /\ MaxConsts \in Nat \ {0} /\ MaxRoots \in Nat /\ MaxEvictions \in Nat

VARIABLES
  graph,     \* the nodes, in the order they were pushed
  built,     \* the graph as it was when it was realized
  roots,     \* the requested outputs, the side-effect roots included
  entry,     \* which realize is used
  phase,     \* building, passes, running, returned, failed or panicked
  evictions, \* evict and reload chains inserted so far
  plan,      \* the nodes left to dispatch
  cache,     \* node -> buffer, for the nodes whose result is held
  content    \* buffer -> the node whose result it holds

vars == <<graph, built, roots, entry, phase, evictions, plan, cache, content>>

Init ==
  /\ graph = <<Node("const", <<>>)>>
  /\ built = <<>>
  /\ roots = <<>>
  /\ entry = "none"
  /\ phase = "building"
  /\ evictions = 0
  /\ plan = <<>>
  /\ cache = <<>>
  /\ content = <<>>

Arity == [const |-> {0}, plain |-> {1, 2}, view |-> {1}, inplace |-> {1}, write |-> {2}]

\* A builder appends a node over nodes that exist.
Push ==
  /\ phase = "building"
  /\ Len(graph) < MaxNodes
  /\ \E op \in DOMAIN Arity, inputs \in UNION {[1..k -> DOMAIN graph] : k \in 0..2} :
       /\ Len(inputs) \in Arity[op]
       /\ IsInjective(inputs)
       /\ op = "const" => Cardinality({n \in DOMAIN graph : graph[n].op = "const"}) < MaxConsts
       /\ graph' = Append(graph, Node(op, inputs))
  /\ UNCHANGED <<built, roots, entry, phase, evictions, plan, cache, content>>

Sinks == {n \in DOMAIN graph : \A m \in DOMAIN graph : n \notin InputsOf(graph, m)}

\* The caller asks, in any order, for the nodes nothing reads, and perhaps for one
\* more.  The optimizer plans the graph at once.
Request ==
  /\ phase = "building"
  /\ Len(graph) > 1
  /\ \E extra \in {{}} \cup {{n} : n \in DOMAIN graph \ Sinks} :
       /\ Cardinality(Sinks \cup extra) <= MaxRoots
       /\ roots' \in SetToSeqs(Sinks \cup extra)
  /\ entry' \in Entries
  /\ built' = graph
  /\ phase' = IF entry' = "optimized" /\ ~HasPlan(graph, roots') THEN "panicked" ELSE "passes"
  /\ UNCHANGED <<graph, evictions, plan, cache, content>>

\* One round of insert_residency_evictions_in, which analyses the planned graph
\* before and after.  Sizes and the budget are left out: any candidate with a gap may
\* be the one that is chosen.
Evict ==
  /\ phase = "passes"
  /\ evictions < MaxEvictions
  /\ IF HasPlan(graph, roots)
     THEN \E c \in DOMAIN graph \ ToSet(roots) :
            LET post == find_gap_consumers(graph, c)
            IN  /\ post # {}
                /\ ~already_evicted(graph, c)
                /\ \E g \in {insert_evict_reload_in(graph, c, post)} :
                     /\ graph' = g
                     /\ phase' = IF HasPlan(g, roots) THEN "passes" ELSE "panicked"
     ELSE phase' = "panicked" /\ graph' = graph
  /\ evictions' = evictions + 1
  /\ UNCHANGED <<built, roots, entry, plan, cache, content>>

\* The copies, the order, and the constants in the cache.
Realize ==
  /\ phase = "passes"
  /\ \E g \in {insert_safety_copies(graph, roots)} :
       LET order  == order_for(g, roots, entry)
           consts == {n \in ToSet(order) : g[n].op = "const"}
       IN  /\ graph' = g
           /\ phase' = IF Len(order) < Len(topo_order_multi(g, roots)) THEN "panicked" ELSE "running"
           /\ plan' = SelectSeq(order, LAMBDA n : g[n].op # "const")
           /\ cache' = [n \in consts |-> n]
           /\ content' = [n \in consts |-> n]
  /\ UNCHANGED <<built, roots, entry, evictions>>

\* The buffers a node leaves its result in: those of its first input when it
\* writes in place or is a view, one of its own otherwise.  A Contiguize of a
\* strided view copies.
Buffers(n) ==
  LET first == graph[n].inputs[1]
  IN  IF graph[n].op \in InPlaceOps THEN {cache[first]}
      ELSE IF ~IsView(graph, n) THEN {n}
      ELSE IF IsView(graph, first) THEN {cache[first], n} ELSE {cache[first]}

\* What is in the buffer afterwards.
Result(n) ==
  IF graph[n].op \in {"view", "copy", "move"} THEN content[cache[graph[n].inputs[1]]] ELSE n

\* The input a destructive node takes out of the cache.
Evicted(n) == IF graph[n].op \in Destructive THEN {graph[n].inputs[1]} \ ToSet(roots) ELSE {}

\* One work item; an input that is not in the cache is an error.
Dispatch ==
  /\ phase = "running"
  /\ plan # <<>>
  /\ LET n == Head(plan)
     IN  IF InputsOf(graph, n) \subseteq DOMAIN cache
         THEN \E b \in Buffers(n) :
                /\ cache' = [m \in (DOMAIN cache \cup {n}) \ Evicted(n) |-> IF m = n THEN b ELSE cache[m]]
                /\ content' = (b :> Result(n)) @@ content
                /\ plan' = Tail(plan)
                /\ phase' = phase
         ELSE phase' = "failed" /\ UNCHANGED <<plan, cache, content>>
  /\ UNCHANGED <<graph, built, roots, entry, evictions>>

\* The requested outputs are read out of the cache.
Return ==
  /\ phase = "running"
  /\ plan = <<>>
  /\ phase' = IF ToSet(roots) \subseteq DOMAIN cache THEN "returned" ELSE "failed"
  /\ UNCHANGED <<graph, built, roots, entry, evictions, plan, cache, content>>

Next == Push \/ Request \/ Evict \/ Realize \/ Dispatch \/ Return

Spec == Init /\ [][Next]_vars
--------------------------------------------------------------------------------
Live == ToSet(topo_order_multi(graph, roots))

\* Some destructive node shares what it destroys with another reader.
Shared ==
  LET ordering == derive_ordering(graph, Live)
  IN  \E d \in DOMAIN ordering : ordering[d] # {}

\* The nodes of the graph that was built which write in place to what n shares.
Writers(n) ==
  LET base == alias_groups(built)
  IN  {d \in DOMAIN built : built[d].op \in InPlaceOps /\ base[built[d].inputs[1]] = base[n]}

\* The next node, when it reads bytes, finds each of its inputs, with the value the
\* graph that was built gives it.
NextReads ==
  phase = "running" /\ plan # <<>> /\ Head(plan) \in DOMAIN built /\ ~IsView(graph, Head(plan)) =>
    LET n == Head(plan)
    IN  \A k \in DOMAIN built[n].inputs :
          /\ graph[n].inputs[k] \in DOMAIN cache
          /\ content[cache[graph[n].inputs[k]]] = ValueOf(built)[built[n].inputs[k]]

\* Whatever the order of the walk, the copies and the evictions, a kernel reads
\* what its graph means: in-place nodes run after the other readers of the storage
\* (derive_ordering and execution_plan), or those read a copy.  On the optimized
\* route only where no in-place node has another reader.
ReadsMeant == NextReads \/ (entry = "optimized" /\ Shared)

\* The default route fails only at a view of what two nodes write in place.  When
\* it returns, an output has the value that was asked for if nothing writes in place
\* to its storage, and also if it is a view nothing else reads and the one such
\* write is to the very tensor it views: nothing pins a view, so only a copy can
\* save it.
OutputsMeant ==
  entry = "default" =>
    /\ phase = "failed" => \E n \in DOMAIN built : IsView(built, n) /\ Cardinality(Writers(n)) > 1
    /\ phase = "returned" =>
         \A r \in ToSet(roots) :
           \/ Writers(r) = {}
           \/ /\ IsView(built, r)
              /\ \A n \in DOMAIN built : r \notin InputsOf(built, n)
              /\ Cardinality(Writers(r)) = 1
              /\ \A d \in Writers(r) : built[d].inputs[1] = built[r].inputs[1]
           => content[cache[r]] = ValueOf(built)[r]

\* A reader that every plan puts behind an in-place node reads what the node
\* writes under another name: the conflicts that insert_safety_copies announces
\* it leaves to the panic of execution_plan.
ViewMediated ==
  LET live   == ToSet(topo_order_multi(built, roots))
      preds  == Predecessors(built, live)
      base   == alias_groups(built)
  IN  \E d \in live :
        LET target == built[d].inputs[1]
        IN  \E r \in derive_ordering(built, live)[d] \cap forced_after(preds, d) :
              \E a \in InputsOf(built, r) \ {target} : base[a] = base[target]

InPlaceOn(n) == {d \in DOMAIN built : built[d].op \in InPlaceOps /\ built[d].inputs[1] = n}

\* The tensors of the graph that was built which an eviction has moved away.
Moved == {n \in DOMAIN built : already_evicted(graph, n)}

\* The default route breaks every direct conflict (a reader of an in-place target
\* that also needs the result): if no two nodes write to one tensor in place and
\* nothing was evicted, execution_plan panics only on a conflict through a view.
\* With evictions, a graph without in-place nodes is planned if what was moved
\* away shares its storage with no other node.  Outside these premises a direct
\* conflict can end in the panic: two nodes write to one tensor, or an eviction
\* beside in-place nodes analyses the order before the copies are made.
DirectConflictsPlanned ==
  phase = "panicked" /\ entry = "default" =>
    /\ evictions = 0 /\ (\A n \in DOMAIN built : Cardinality(InPlaceOn(n)) <= 1) => ViewMediated
    /\ evictions > 0 /\ (\A n \in DOMAIN built : InPlaceOn(n) = {})
         => \E n \in Moved : \E m \in DOMAIN built \ {n} : alias_groups(built)[m] = alias_groups(built)[n]

\* Without views: the pass copies nothing when the plan can order the readers
\* first, and a second call finds nothing left to copy.
CopiesNeeded ==
  phase \in {"returned", "failed"} /\ (\A n \in DOMAIN built : ~IsView(built, n)) =>
    /\ evictions = 0 /\ HasPlan(built, roots) => graph = built
    /\ HasPlan(graph, roots) => insert_safety_copies(graph, roots) = graph
================================================================================
