-------------------------------- MODULE LogicalKv --------------------------------
(***************************************************************************)
(* What the paged KV store promises a decode driver: every session has a    *)
(* KV history of its own. A step appends to the histories of the sessions   *)
(* it feeds and to no other; sharing a prefix copies it by value; evicting, *)
(* restoring and reusing physical blocks are invisible.                     *)
(***************************************************************************)
EXTENDS Naturals, Sequences

CONSTANTS
  Sessions,  \* session handles
  Values     \* what the model computes for one token, over all layers

VARIABLES
  live,  \* sessions whose history can be relied upon
  kv     \* each session's history, one entry per token position

vars == <<live, kv>>

Init ==
  /\ live = {}
  /\ kv = [s \in Sessions |-> <<>>]

Start(s) ==
  /\ s \notin live
  /\ live' = live \cup {s}
  /\ UNCHANGED kv

Feed(fed, feed) ==
  /\ UNCHANGED live
  /\ fed # {}
  /\ fed \subseteq live
  /\ kv' = [s \in Sessions |-> IF s \in fed THEN Append(kv[s], feed[s]) ELSE kv[s]]

\* dst continues with the entries from + 1 .. to of src.
Fork(src, dst, from, to) ==
  /\ UNCHANGED live
  /\ src \in live
  /\ dst \in live
  /\ kv' = [kv EXCEPT ![dst] = @ \o SubSeq(kv[src], from + 1, to)]

\* A new session that starts with a prefix of src.
StartFrom(src, s, to) ==
  /\ src \in live
  /\ s \notin live
  /\ live' = live \cup {s}
  /\ kv' = [kv EXCEPT ![s] = SubSeq(kv[src], 1, to)]

\* Sessions are dropped, or forfeit their history to an error reported to them.
End(gone) ==
  /\ gone # {}
  /\ gone \subseteq live
  /\ live' = live \ gone
  /\ kv' = [s \in Sessions |-> IF s \in gone THEN <<>> ELSE kv[s]]

\* A step that changes nothing is stuttering, not one of these.
Next ==
  /\ vars' # vars
  /\ \/ \E s \in Sessions : Start(s)
     \/ \E fed \in SUBSET live : \E feed \in [fed -> Values] : Feed(fed, feed)
     \/ \E src, dst \in Sessions : \E to \in 0 .. Len(kv[src]) :
          \/ \E from \in 0 .. to : Fork(src, dst, from, to)
          \/ StartFrom(src, dst, to)
     \/ \E gone \in SUBSET live : End(gone)

Spec == Init /\ [][Next]_vars
=============================================================================
