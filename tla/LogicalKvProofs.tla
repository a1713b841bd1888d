----------------------------- MODULE LogicalKvProofs -----------------------------
(***************************************************************************)
(* Every step of the paged forward passes is a step of a store of private   *)
(* histories, or a stutter, under the mapping that reads each session's     *)
(* rows through its block table.                                            *)
(***************************************************************************)
EXTENDS PagedFacts

-----------------------------------------------------------------------------
(* What attention reads. *)

Read == Values \cup {Blank}

\* The rows of a slot are its block's, or those its handle saved.
RowsFact ==
  \A s \in Reliable : \A i \in 1 .. Len(slots[s]) :
    /\ slots[s][i] \in Blocks => RowsOf(s, i) = cells[slots[s][i]]
    /\ \A h \in handles : h.session = s /\ i \in h.gone => RowsOf(s, i) = saved[h][i]
    /\ slots[s][i] \notin Blocks => \E h \in handles : h.session = s /\ i \in h.gone
    /\ RowsOf(s, i) \in [Offsets -> Row]

\* A session with an error or none at all has the empty history; the others have
\* one entry per position, read at the position's block and offset.
HistoryFact ==
  \A s \in Sessions :
    /\ s \notin Reliable => History(s) = <<>>
    /\ Written(s) \in Nat
    /\ \A t \in 1 .. Written(s) : BlockAt(t) \in 1 .. Len(slots[s]) /\ OffsetAt(t) \in Offsets
    /\ s \in Reliable => /\ History(s) \in Seq(Read) /\ Len(History(s)) = Written(s)
                         /\ \A t \in 1 .. Written(s) : History(s)[t] = ValueAt(s, t)

\* The rows of e blocks and of b - 1 behind them.
LEMMA RowsOfBlocks ==
  ASSUME NEW e \in Nat, NEW b \in Nat \ {0}, NEW z \in Nat \ {0}
  PROVE  /\ (e + b - 1) * z = e * z + (b - 1) * z
         /\ (e + b - 1) * z \in Int /\ (b - 1) * z \in Int
OBVIOUS

LEMMA RowsRead == LogicalInv => RowsFact
<1>. SUFFICES ASSUME LogicalInv, NEW s \in Reliable, NEW i \in 1 .. Len(slots[s])
              PROVE  /\ slots[s][i] \in Blocks => RowsOf(s, i) = cells[slots[s][i]]
                     /\ \A h \in handles : h.session = s /\ i \in h.gone => RowsOf(s, i) = saved[h][i]
                     /\ slots[s][i] \notin Blocks => \E h \in handles : h.session = s /\ i \in h.gone
                     /\ RowsOf(s, i) \in [Offsets -> Row]
  BY Zenon DEF RowsFact
<1>. /\ Sound /\ DeviceTypeOK /\ HandleInv /\ s \in Sessions /\ s \in opened
     /\ slots[s] \in Seq(Slot) /\ Externalized \notin Blocks
  BY PoolTypes, BlocksAssumption, Zenon DEF LogicalInv, ForwardInv, PoolInv, Reliable
<1>1. CASE slots[s][i] \in Blocks
  <2>. USE <1>1
  <2>1. RowsOf(s, i) = cells[slots[s][i]]
    BY Zenon DEF RowsOf, Resident
  <2>2. ~\E h \in handles : h.session = s /\ i \in h.gone
    BY DEF HandleInv
  <2>. QED BY <2>1, <2>2 DEF DeviceTypeOK
<1>2. CASE slots[s][i] \notin Blocks
  <2>. USE <1>2
  <2>. DEFINE g == CHOOSE h \in handles : h.session = s /\ i \in h.gone
  <2>1. slots[s][i] = Externalized
    BY DEF Slot
  <2>. \E h \in handles : h.session = s /\ i \in h.gone
    BY <2>1, Zenon DEF HandleInv
  <2>. g \in handles /\ g.session = s /\ i \in g.gone
    BY Zenon
  <2>4. RowsOf(s, i) = saved[g][i]
    BY Zenon DEF RowsOf, Resident
  <2>. HIDE DEF g
  <2>5. \A h \in handles : h.session = s /\ i \in h.gone => h = g
    BY Zenon DEF HandleInv
  <2>6. saved[g][i] \in [Offsets -> Row]
    BY Zenon DEF DeviceTypeOK
  <2>. QED BY <2>4, <2>5, <2>6, Zenon
<1>. QED BY <1>1, <1>2, Zenon

LEMMA HistoryRead == LogicalInv => HistoryFact
<1>. SUFFICES ASSUME LogicalInv, NEW s \in Sessions
              PROVE  /\ s \notin Reliable => History(s) = <<>>
                     /\ Written(s) \in Nat
                     /\ \A t \in 1 .. Written(s) : BlockAt(t) \in 1 .. Len(slots[s]) /\ OffsetAt(t) \in Offsets
                     /\ s \in Reliable => /\ History(s) \in Seq(Read) /\ Len(History(s)) = Written(s)
                                          /\ \A t \in 1 .. Written(s) : History(s)[t] = ValueAt(s, t)
  BY Zenon DEF HistoryFact
<1>. /\ Sound /\ Ownership /\ StepInv /\ filled[s] \in Nat /\ Len(slots[s]) \in Nat
     /\ filled[s] <= Len(slots[s]) * BlockSize
  BY PoolTypes, Zenon DEF LogicalInv, ForwardInv, PoolInv, FillFitsBlocks
<1>. Written(s) \in Nat /\ Written(s) <= filled[s]
  <2>1. s = work.current \/ s \in work.grown => filled[s] > 0
    BY StepFacts, Zenon
  <2>. QED BY <2>1 DEF Written
<1>2. ASSUME NEW t \in 1 .. Written(s) PROVE BlockAt(t) \in 1 .. Len(slots[s]) /\ OffsetAt(t) \in Offsets
  <2>. t \in Nat \ {0} /\ t <= filled[s]
    OBVIOUS
  <2>2. Len(slots[s]) * BlockSize \in Int
    BY BlockSizeAssumption
  <2>3. t <= Len(slots[s]) * BlockSize
    BY <2>2
  <2>. QED BY <2>3, BlockRange, PositionSplit
<1>3. ASSUME s \notin Reliable PROVE History(s) = <<>>
  <2>1. CASE s \in failed
    BY <2>1, Zenon DEF History
  <2>2. CASE s \notin opened /\ s \notin failed
    <3>1. filled[s] = 0
      BY <2>2, Zenon DEF Ownership
    <3>2. Written(s) = 0
      BY <3>1
    <3>3. [t \in 1 .. 0 |-> ValueAt(s, t)] = <<>>
      OBVIOUS
    <3>. QED BY <2>2, <3>2, <3>3, Zenon DEF History
  <2>. QED BY <1>3, <2>1, <2>2, Zenon DEF Reliable
<1>4. ASSUME s \in Reliable
      PROVE  /\ History(s) \in Seq(Read) /\ Len(History(s)) = Written(s)
             /\ \A t \in 1 .. Written(s) : History(s)[t] = ValueAt(s, t)
  <2>. History(s) = [t \in 1 .. Written(s) |-> ValueAt(s, t)]
    BY <1>4, Zenon DEF History, Reliable
  <2>2. ASSUME NEW t \in 1 .. Written(s) PROVE ValueAt(s, t) \in Read
    <3>1. RowsOf(s, BlockAt(t))[OffsetAt(t)] \in Row
      BY <1>2, <1>4, RowsRead DEF RowsFact
    <3>. QED BY <3>1, Zenon DEF ValueAt, Row, Read
  <2>3. History(s) \in [1 .. Written(s) -> Read]
    BY <2>2, Zenon
  <2>. QED BY <2>3
<1>. QED BY <1>2, <1>3, <1>4, Zenon

LEMMA ReadsNext == LogicalInv' => RowsFact' /\ HistoryFact'
BY RowsRead, HistoryRead, PTL

\* The rows of one slot, before and after a step.
LEMMA RowAt ==
  ASSUME RowsFact, NEW s \in Reliable, NEW i \in 1 .. Len(slots[s])
  PROVE  /\ slots[s][i] \in Blocks => RowsOf(s, i) = cells[slots[s][i]]
         /\ \A h \in handles : h.session = s /\ i \in h.gone => RowsOf(s, i) = saved[h][i]
BY Zenon DEF RowsFact

LEMMA RowNext ==
  ASSUME RowsFact', NEW s \in Reliable', NEW i \in 1 .. Len(slots'[s])
  PROVE  /\ slots'[s][i] \in Blocks => RowsOf(s, i)' = cells'[slots'[s][i]]
         /\ \A h \in handles' : h.session = s /\ i \in h.gone => RowsOf(s, i)' = saved'[h][i]
BY Zenon DEF RowsFact

\* Positions within and beyond a table that grew.
LEMMA WiderRange ==
  ASSUME NEW m \in Nat, NEW n \in Nat
  PROVE  /\ \A j \in 1 .. m : j \in 1 .. m + n
         /\ \A j \in 1 .. n : m + j \in 1 .. m + n
OBVIOUS

\* A slot that stays where it is, with its rows, reads the same.
LEMMA RowKept ==
  ASSUME LogicalInv, LogicalInv', NEW s \in Reliable, s \in Reliable', NEW i \in 1 .. Len(slots[s]),
         i \in 1 .. Len(slots'[s]), slots'[s][i] = slots[s][i],
         slots[s][i] \in Blocks => cells'[slots[s][i]] = cells[slots[s][i]],
         \A h \in handles : h.session = s /\ i \in h.gone => h \in handles' /\ saved'[h] = saved[h]
  PROVE  RowsOf(s, i)' = RowsOf(s, i)
<1>. RowsFact /\ RowsFact'
  BY RowsRead, ReadsNext, Zenon
<1>2. CASE slots[s][i] \in Blocks
  BY <1>2 DEF RowsFact
<1>3. CASE slots[s][i] \notin Blocks
  <2>. PICK h \in handles : h.session = s /\ i \in h.gone
    BY <1>3, Zenon DEF RowsFact
  <2>2. RowsOf(s, i) = saved[h][i]
    BY DEF RowsFact
  <2>3. RowsOf(s, i)' = saved'[h][i]
    BY DEF RowsFact
  <2>. QED BY <2>2, <2>3, Zenon
<1>. QED BY <1>2, <1>3, Zenon

\* A session whose rows read the same has the same history.
LEMMA HistoryKept ==
  ASSUME LogicalInv, LogicalInv', NEW s \in Reliable, s \in Reliable', Written(s)' = Written(s),
         \A i \in 1 .. Len(slots[s]) : RowsOf(s, i)' = RowsOf(s, i)
  PROVE  History(s)' = History(s)
<1>. HistoryFact /\ HistoryFact' /\ s \in Sessions
  BY HistoryRead, ReadsNext, PoolTypes, Zenon DEF LogicalInv, ForwardInv, PoolInv, Reliable
<1>2. \A t \in 1 .. Written(s) : ValueAt(s, t)' = ValueAt(s, t)
  BY Zenon DEF HistoryFact, ValueAt
<1>3. /\ History(s) \in Seq(Read) /\ Len(History(s)) = Written(s)
      /\ \A t \in 1 .. Written(s) : History(s)[t] = ValueAt(s, t)
  BY Zenon DEF HistoryFact
<1>4. /\ History(s)' \in Seq(Read) /\ Len(History(s)') = Written(s)'
      /\ \A t \in 1 .. Written(s)' : History(s)'[t] = ValueAt(s, t)'
  BY Zenon DEF HistoryFact
<1>. QED BY <1>2, <1>3, <1>4, SeqSame, Zenon

\* A session that a step does not touch: its table and its handles stay, and
\* blocks outside the free list keep their rows.
LEMMA Bystander ==
  ASSUME LogicalInv, LogicalInv', NEW s \in Reliable, s \in Reliable', Written(s)' = Written(s),
         slots'[s] = slots[s], \A p \in Blocks \ free : cells'[p] = cells[p],
         \A h \in handles : h.session = s => h \in handles' /\ saved'[h] = saved[h]
  PROVE  History(s)' = History(s)
<1>1. Sound /\ s \in Sessions
  BY PoolTypes, Zenon DEF LogicalInv, ForwardInv, PoolInv, Reliable
<1>2. ASSUME NEW i \in 1 .. Len(slots[s]) PROVE RowsOf(s, i)' = RowsOf(s, i)
  <2>1. slots[s][i] \in Blocks => slots[s][i] \in Blocks \ free
    BY <1>1, NamedCounted, Zenon DEF Resident
  <2>. QED BY <2>1, RowKept, Zenon
<1>. QED BY <1>2, HistoryKept, Zenon

-----------------------------------------------------------------------------
(* The steps of the abstract store, in terms of the histories. *)

AbstractStep == [Logical!Next]_(Logical!vars)

LEMMA ReliableSessions ==
  ASSUME LogicalInv
  PROVE  Reliable \subseteq Sessions
BY PoolTypes, Zenon DEF LogicalInv, ForwardInv, PoolInv, Reliable

LEMMA StutterStep ==
  ASSUME LogicalInv, LogicalInv', Reliable' = Reliable, \A s \in Reliable : History(s)' = History(s)
  PROVE  AbstractStep
<1>1. HistoryFact /\ HistoryFact'
  BY HistoryRead, ReadsNext, Zenon
<1>2. \A s \in Sessions : History(s)' = History(s)
  BY <1>1, Zenon DEF HistoryFact
<1>3. Histories' = Histories
  BY <1>2, Zenon DEF Histories
<1>. QED BY <1>3, Zenon DEF AbstractStep, Logical!vars

LEMMA EndStep ==
  ASSUME LogicalInv, LogicalInv', NEW gone \in SUBSET Reliable, gone # {}, Reliable' = Reliable \ gone,
         \A s \in Reliable' : History(s)' = History(s)
  PROVE  AbstractStep
<1>1. HistoryFact /\ HistoryFact'
  BY HistoryRead, ReadsNext, Zenon
<1>2. \A s \in Sessions : History(s)' = IF s \in gone THEN <<>> ELSE History(s)
  BY <1>1, Zenon DEF HistoryFact
<1>3. Histories' = [s \in Sessions |-> IF s \in gone THEN <<>> ELSE Histories[s]]
  BY <1>2, Zenon DEF Histories
<1>4. Logical!End(gone)
  BY <1>3, Zenon DEF Logical!End
<1>. QED BY <1>4, Zenon DEF AbstractStep, Logical!Next, Logical!vars

LEMMA StartStep ==
  ASSUME LogicalInv, LogicalInv', NEW s \in Sessions, s \notin Reliable, Reliable' = Reliable \cup {s},
         History(s)' = <<>>, \A r \in Reliable : History(r)' = History(r)
  PROVE  AbstractStep
<1>1. HistoryFact /\ HistoryFact'
  BY HistoryRead, ReadsNext, Zenon
<1>2. \A r \in Sessions : History(r)' = History(r)
  BY <1>1, Zenon DEF HistoryFact
<1>3. Histories' = Histories
  BY <1>2, Zenon DEF Histories
<1>4. Logical!Start(s)
  BY <1>3, Zenon DEF Logical!Start
<1>. QED BY <1>4, Zenon DEF AbstractStep, Logical!Next, Logical!vars

LEMMA StartFromStep ==
  ASSUME LogicalInv, LogicalInv', NEW src \in Reliable, NEW s \in Sessions, s \notin Reliable,
         Reliable' = Reliable \cup {s}, NEW to \in 0 .. Len(History(src)),
         History(s)' = SubSeq(History(src), 1, to), \A r \in Reliable : History(r)' = History(r)
  PROVE  AbstractStep
<1>. HistoryFact /\ HistoryFact' /\ src \in Sessions
  BY HistoryRead, ReadsNext, ReliableSessions, Zenon
<1>2. \A r \in Sessions : History(r)' = IF r = s THEN SubSeq(History(src), 1, to) ELSE History(r)
  BY Zenon DEF HistoryFact
<1>. Histories[src] = History(src) /\ Histories' = [Histories EXCEPT ![s] = SubSeq(Histories[src], 1, to)]
  BY <1>2, Zenon DEF Histories
<1>4. Logical!StartFrom(src, s, to)
  BY Zenon DEF Logical!StartFrom
<1>5. to \in 0 .. Len(Histories[src])
  BY Zenon
<1>. QED BY <1>4, <1>5, Zenon DEF AbstractStep, Logical!Next, Logical!vars

LEMMA ForkStep ==
  ASSUME LogicalInv, LogicalInv', NEW src \in Reliable, NEW dst \in Reliable, Reliable' = Reliable,
         NEW to \in 0 .. Len(History(src)), NEW from \in 0 .. to,
         History(dst)' = History(dst) \o SubSeq(History(src), from + 1, to),
         \A r \in Reliable \ {dst} : History(r)' = History(r)
  PROVE  AbstractStep
<1>. HistoryFact /\ HistoryFact' /\ src \in Sessions /\ dst \in Sessions
  BY HistoryRead, ReadsNext, ReliableSessions, Zenon
<1>2. \A r \in Sessions :
        History(r)' = IF r = dst THEN History(dst) \o SubSeq(History(src), from + 1, to) ELSE History(r)
  BY Zenon DEF HistoryFact
<1>. /\ Histories[src] = History(src) /\ Histories[dst] = History(dst)
     /\ Histories' = [Histories EXCEPT ![dst] = Histories[dst] \o SubSeq(Histories[src], from + 1, to)]
  BY <1>2, Zenon DEF Histories
<1>4. Logical!Fork(src, dst, from, to)
  BY Zenon DEF Logical!Fork
<1>5. to \in 0 .. Len(Histories[src])
  BY Zenon
<1>. QED BY <1>4, <1>5, Zenon DEF AbstractStep, Logical!Next, Logical!vars

LEMMA FeedStep ==
  ASSUME LogicalInv, LogicalInv', NEW fed \in SUBSET Reliable, fed # {}, NEW feed \in [fed -> Values],
         Reliable' = Reliable, \A s \in fed : History(s)' = Append(History(s), feed[s]),
         \A r \in Reliable \ fed : History(r)' = History(r)
  PROVE  AbstractStep
<1>1. HistoryFact /\ HistoryFact'
  BY HistoryRead, ReadsNext, Zenon
<1>2. \A r \in Sessions : History(r)' = IF r \in fed THEN Append(History(r), feed[r]) ELSE History(r)
  BY <1>1, Zenon DEF HistoryFact
<1>3. Histories' = [r \in Sessions |-> IF r \in fed THEN Append(Histories[r], feed[r]) ELSE Histories[r]]
  BY <1>2, Zenon DEF Histories
<1>4. Logical!Feed(fed, feed)
  BY <1>3, Zenon DEF Logical!Feed
<1>. QED BY <1>4, Zenon DEF AbstractStep, Logical!Next, Logical!vars

-----------------------------------------------------------------------------
(* Opening, closing, sharing and registering. *)

\* Between steps nothing is owed.
LEMMA IdleWritten ==
  ASSUME LogicalInv, Idle, NEW s \in Sessions
  PROVE  Written(s) = filled[s]
<1>1. work.current = None /\ work.grown = {}
  BY Zenon DEF Idle, NoWork
<1>. QED BY <1>1, StepAssumption, Zenon DEF Written

LEMMA IdleWrittenNext ==
  ASSUME Idle, UNCHANGED work, NEW s \in Sessions
  PROVE  Written(s)' = filled'[s]
<1>1. work.current = None /\ work.grown = {}
  BY Zenon DEF Idle, NoWork
<1>. QED BY <1>1, StepAssumption, Zenon DEF Written

\* A session closes, or a prefix is released.
LEMMA ForgetStep ==
  ASSUME LogicalInv, LogicalInv', Idle, UNCHANGED <<deviceVars, work, handles>>, NEW s \in opened,
         Forget(s), failed' = failed \ {s}
  PROVE  AbstractStep
<1>. /\ opened' = opened \ {s} /\ Reliable' = Reliable \ {s} /\ Reliable \subseteq Sessions
     /\ slots \in [Sessions -> Seq(Slot)] /\ filled \in [Sessions -> Nat]
     /\ slots' = [slots EXCEPT ![s] = <<>>] /\ filled' = [filled EXCEPT ![s] = 0]
  BY ReliableSessions, PoolTypes, Zenon DEF Forget, Reliable, LogicalInv, ForwardInv, PoolInv
<1>2. ASSUME NEW r \in Reliable' PROVE History(r)' = History(r)
  <2>. r \in Reliable /\ r \in Sessions /\ slots'[r] = slots[r] /\ filled'[r] = filled[r]
    BY Zenon
  <2>2. Written(r)' = Written(r)
    BY IdleWritten, IdleWrittenNext, Zenon
  <2>. QED BY <2>2, Bystander, Zenon DEF deviceVars
<1>3. CASE s \in Reliable
  <2>1. {s} \in SUBSET Reliable /\ {s} # {}
    BY <1>3, Zenon
  <2>. QED BY <1>2, <2>1, EndStep, Zenon
<1>4. CASE s \notin Reliable
  <2>1. Reliable' = Reliable
    BY <1>4, Zenon
  <2>. QED BY <1>2, <2>1, StutterStep, Zenon
<1>. QED BY <1>3, <1>4, Zenon

\* The n entries of a sequence behind the first b.
Part(q, b, n) == SubSeq(q, b + 1, b + n)

LEMMA TailOf ==
  ASSUME NEW S, NEW q \in Seq(S), NEW b \in Nat, NEW n \in Nat, n > 0 => b + n <= Len(q)
  PROVE  /\ Part(q, b, n) \in Seq(S) /\ Len(Part(q, b, n)) = n
         /\ \A i \in 1 .. n : Part(q, b, n)[i] = q[b + i]
<1>. DEFINE tail == SubSeq(q, b + 1, b + n)
<1>1. \A i \in b + 1 .. b + n : i \in 1 .. Len(q)
  OBVIOUS
<1>2. \A i \in b + 1 .. b + n : q[i] \in S
  BY <1>1, SeqTyped, Zenon
<1>. /\ tail \in Seq(S)
     /\ Len(tail) = IF b + 1 <= b + n THEN (b + n) - (b + 1) + 1 ELSE 0
     /\ \A i \in 1 .. (b + n) - (b + 1) + 1 : tail[i] = q[b + 1 + i - 1]
  BY <1>2, SeqPart
<1>. HIDE DEF tail
<1>4. Len(tail) = n
  OBVIOUS
<1>5. ASSUME NEW i \in 1 .. n PROVE tail[i] = q[b + i]
  <2>1. i \in 1 .. (b + n) - (b + 1) + 1 /\ b + 1 + i - 1 = b + i
    OBVIOUS
  <2>. QED BY <2>1, Zenon
<1>. QED BY <1>4, <1>5, Zenon DEF tail, Part

\* The last position that the first n blocks of a session hold.
Through(n) == n * BlockSize

\* dst, whose own blocks are the first from, full ones, takes tokens more.
Spliced(src, dst, from, to, base, tokens) ==
  /\ Share(src, dst, from, to)
  /\ Len(slots[dst]) = from /\ filled[dst] = base /\ base = Through(from)
  /\ tokens = SharedTokens(src, from, to)

\* Sharing blocks from + 1 .. to behind a table of from full blocks continues the
\* history of dst with the entries of src at the same positions.
LEMMA SharedHistory ==
  ASSUME LogicalInv, LogicalInv', Idle, UNCHANGED <<deviceVars, work, handles>>,
         NEW src \in Reliable, NEW dst \in Sessions, dst \in Reliable', NEW from \in Nat, NEW to \in Nat,
         NEW base, NEW tokens, Spliced(src, dst, from, to, base, tokens),
         dst \in Reliable \/ from = 0
  PROVE  /\ History(dst)' = History(dst) \o Part(History(src), base, tokens)
         /\ tokens \in Nat /\ base \in Nat
         /\ tokens > 0 => base + tokens \in 0 .. Len(History(src))
         /\ tokens = 0 => History(dst)' = History(dst)
<1>. DEFINE own == History(dst)
            src_h == History(src)
            tail == Part(src_h, base, tokens)
<1>00. /\ Share(src, dst, from, to) /\ Len(slots[dst]) = from /\ filled[dst] = base
       /\ base = Through(from) /\ tokens = SharedTokens(src, from, to)
  BY Zenon DEF Spliced
<1>0. /\ Sound /\ Reliable \subseteq Sessions /\ src \in Sessions
      /\ HistoryFact /\ HistoryFact' /\ RowsFact /\ RowsFact'
  BY HistoryRead, RowsRead, ReadsNext, ReliableSessions, Zenon DEF LogicalInv, ForwardInv, PoolInv
<1>1. from <= to /\ to <= Len(slots[src]) /\ Len(slots'[dst]) = from + (to - from)
  BY <1>0, <1>00, ShareShape
<1>2. \A j \in 1 .. from : slots'[dst][j] = slots[dst][j]
  BY <1>0, <1>00, ShareShape, Zenon
<1>3. \A k \in 1 .. to - from : slots'[dst][from + k] = slots[src][from + k]
  BY <1>0, <1>00, ShareEntries, ZenonT(40)
<1>4. \A i \in from + 1 .. to : slots[src][i] \in Blocks
  BY <1>0, <1>00, ShareShape, Zenon
<1>5. filled'[dst] = base + tokens
  BY <1>0, <1>00, ShareShape
<1>6. /\ tokens \in Nat /\ base \in Nat /\ Through(to) \in Nat
      /\ base + tokens <= Through(to)
      /\ tokens > 0 => base + tokens <= filled[src]
      /\ filled[src] \in Nat
  <2>1. /\ tokens \in Nat /\ tokens <= (to - from) * BlockSize
        /\ tokens > 0 => tokens <= filled[src] - base
    BY <1>0, <1>00, <1>1, SharedTokensFit, Zenon DEF Through
  <2>2. base \in Nat /\ Through(to) \in Nat /\ (to - from) * BlockSize = Through(to) - base
    BY <1>00, <1>1, BlockSizeAssumption DEF Through
  <2>3. filled[src] \in Nat
    BY <1>0, <1>00, PoolTypes, Zenon
  <2>. QED BY <2>1, <2>2, <2>3
<1>. DEFINE fits == \A i \in base + 1 .. base + tokens : i \in 1 .. filled[src]
<1>60. fits
  BY <1>6
<1>7. /\ Written(dst) = base /\ Written(dst)' = base + tokens /\ Written(src) = filled[src]
  BY <1>0, <1>00, <1>5, IdleWritten, IdleWrittenNext, Zenon
<1>8. /\ own \in Seq(Read) /\ Len(own) = base
      /\ dst \in Reliable => \A t \in 1 .. base : own[t] = ValueAt(dst, t)
  <2>1. CASE dst \in Reliable
    BY <1>0, <1>00, <1>7, <2>1, Zenon DEF HistoryFact
  <2>2. CASE dst \notin Reliable
    <3>1. own = <<>> /\ base = 0
      BY <1>0, <1>00, <2>2, BlockSizeAssumption DEF HistoryFact, Through
    <3>. QED BY <2>2, <3>1
  <2>. QED BY <2>1, <2>2, Zenon
<1>9. /\ src_h \in Seq(Read) /\ Len(src_h) = filled[src]
      /\ \A t \in 1 .. filled[src] : src_h[t] = ValueAt(src, t)
  BY <1>0, <1>00, <1>7, Zenon DEF HistoryFact
<1>10. /\ own' \in Seq(Read) /\ Len(own') = base + tokens
       /\ \A t \in 1 .. base + tokens : own'[t] = ValueAt(dst, t)'
  BY <1>0, <1>00, <1>7, Zenon DEF HistoryFact
<1>. HIDE DEF own, src_h
<1>11. ASSUME NEW t \in 1 .. base PROVE ValueAt(dst, t)' = ValueAt(dst, t) /\ dst \in Reliable
  <2>1. dst \in Reliable
    BY <1>00, <1>11, BlockSizeAssumption DEF Through
  <2>2. BlockAt(t) \in 1 .. from /\ BlockAt(t) \in 1 .. Len(slots'[dst])
    <3>1. t \in Nat \ {0} /\ t <= from * BlockSize
      BY <1>00, <1>6, <1>11 DEF Through
    <3>2. BlockAt(t) \in Nat \ {0} /\ BlockAt(t) <= from
      BY <3>1, BlockRange, PositionSplit, Zenon
    <3>. QED BY <1>1, <3>2
  <2>3. RowsOf(dst, BlockAt(t))' = RowsOf(dst, BlockAt(t))
    BY <1>00, <1>2, <2>1, <2>2, RowKept, Zenon DEF deviceVars
  <2>. QED BY <2>1, <2>3, Zenon DEF ValueAt
<1>12. ASSUME NEW t \in base + 1 .. base + tokens PROVE ValueAt(dst, t)' = ValueAt(src, t)
  <2>. DEFINE b == BlockAt(t)
              k == b - from
  <2>1. b \in Nat /\ b > from /\ b <= to
    <3>1. t \in Nat \ {0} /\ t > from * BlockSize /\ t <= to * BlockSize
      BY <1>00, <1>6, <1>12 DEF Through
    <3>. QED BY <3>1, BlockRange, PositionSplit, Zenon
  <2>. HIDE DEF b
  <2>2. k \in 1 .. to - from /\ from + k = b /\ b \in from + 1 .. to
    BY <1>1, <2>1
  <2>3. slots'[dst][b] = slots[src][b] /\ slots[src][b] \in Blocks
    <3>. HIDE DEF k
    <3>. QED BY <1>3, <1>4, <2>2, Zenon
  <2>4. b \in 1 .. Len(slots'[dst]) /\ b \in 1 .. Len(slots[src])
    BY <1>0, <1>00, <1>1, <2>1, PoolTypes
  <2>5. RowsOf(dst, b)' = cells[slots[src][b]]
    BY <1>0, <1>00, <2>3, <2>4 DEF RowsFact, deviceVars
  <2>6. RowsOf(src, b) = cells[slots[src][b]]
    BY <1>0, <1>00, <2>3, <2>4 DEF RowsFact
  <2>. QED BY <2>5, <2>6, Zenon DEF ValueAt, b
<1>13. /\ tail \in Seq(Read) /\ Len(tail) = tokens
       /\ \A i \in 1 .. tokens : tail[i] = src_h[base + i]
  <2>1. tokens \in Nat /\ base \in Nat /\ src_h \in Seq(Read) /\ (tokens > 0 => base + tokens <= Len(src_h))
    BY <1>6, <1>9, Zenon
  <2>. QED BY <2>1, TailOf, Zenon
<1>. HIDE DEF tail
<1>14. own' = own \o tail
  <2>1. /\ own \o tail \in Seq(Read) /\ Len(own \o tail) = base + tokens
        /\ \A i \in 1 .. base + tokens : (own \o tail)[i] = IF i <= base THEN own[i] ELSE tail[i - base]
    BY <1>8, <1>13, SeqJoined, ZenonT(40)
  <2>2. ASSUME NEW i \in 1 .. base + tokens PROVE own'[i] = (own \o tail)[i]
    <3>1. CASE i <= base
      <4>1. i \in 1 .. base
        BY <1>6, <2>2, <3>1
      <4>. QED BY <1>8, <1>10, <1>11, <2>1, <3>1, <4>1, Zenon
    <3>2. CASE ~(i <= base)
      <4>1. i \in base + 1 .. base + tokens /\ i - base \in 1 .. tokens /\ base + (i - base) = i
        BY <1>6, <2>2, <3>2
      <4>2. i \in 1 .. filled[src]
        BY <1>60, <4>1, Zenon
      <4>3. tail[i - base] = src_h[i]
        BY <1>13, <4>1, Zenon
      <4>. QED BY <1>9, <1>10, <1>12, <2>1, <3>2, <4>1, <4>2, <4>3, Zenon
    <3>. QED BY <3>1, <3>2, Zenon
  <2>. QED BY <1>10, <2>1, <2>2, SeqSame, Zenon
<1>15. tokens = 0 => own' = own
  <2>1. tokens = 0 => tail = <<>>
    BY <1>13, SeqTyped, Zenon
  <2>. QED BY <1>8, <1>14, <2>1, SeqUnit, Zenon
<1>16. tokens > 0 => base + tokens \in 0 .. Len(src_h)
  BY <1>6, <1>9
<1>. QED BY <1>6, <1>14, <1>15, <1>16, Zenon DEF own, tail, src_h

\* A session that an operation between steps does not touch.
LEMMA IdleBystander ==
  ASSUME LogicalInv, LogicalInv', Idle, UNCHANGED work, NEW s \in Reliable, s \in Reliable',
         slots'[s] = slots[s], filled'[s] = filled[s], \A p \in Blocks \ free : cells'[p] = cells[p],
         \A h \in handles : h.session = s => h \in handles' /\ saved'[h] = saved[h]
  PROVE  History(s)' = History(s)
<1>1. s \in Sessions
  BY ReliableSessions, Zenon
<1>2. Written(s)' = Written(s)
  BY <1>1, IdleWritten, IdleWrittenNext, Zenon
<1>. QED BY <1>2, Bystander, Zenon

\* A splice at equal positions is a fork.
LEMMA SharedForks ==
  ASSUME LogicalInv, LogicalInv', Idle, UNCHANGED <<deviceVars, work, handles, opened, failed>>,
         NEW src \in Reliable, NEW dst \in Reliable, NEW from \in Nat, NEW to \in Nat,
         Share(src, dst, from, to), Len(slots[dst]) = from, filled[dst] = Through(from)
  PROVE  AbstractStep
<1>0. PICK base, tokens : base = Through(from) /\ tokens = SharedTokens(src, from, to)
  BY Zenon
<1>. DEFINE end == base + tokens
<1>. Reliable' = Reliable /\ Reliable \subseteq Sessions /\ Sound
  BY ReliableSessions, Zenon DEF Reliable, LogicalInv, ForwardInv, PoolInv
<1>. /\ History(dst)' = History(dst) \o Part(History(src), base, tokens)
     /\ tokens \in Nat /\ base \in Nat
     /\ tokens > 0 => base + tokens \in 0 .. Len(History(src))
     /\ tokens = 0 => History(dst)' = History(dst)
  <2>1. Spliced(src, dst, from, to, base, tokens)
    BY <1>0, Zenon DEF Spliced
  <2>. QED BY <2>1, SharedHistory
<1>3. \A r \in Sessions \ {dst} : slots'[r] = slots[r] /\ filled'[r] = filled[r]
  BY ShareShape, Zenon
<1>. \A r \in Reliable \ {dst} : History(r)' = History(r)
  BY <1>3, IdleBystander, Zenon DEF deviceVars
<1>5. CASE tokens = 0
  BY <1>5, StutterStep, Zenon
<1>6. CASE tokens > 0
  <2>1. end \in 0 .. Len(History(src)) /\ base \in 0 .. end
    BY <1>6
  <2>2. History(dst)' = History(dst) \o SubSeq(History(src), base + 1, end)
    BY Zenon DEF Part
  <2>. HIDE DEF end
  <2>. QED BY <2>1, <2>2, ForkStep, Zenon
<1>. QED BY <1>5, <1>6

\* A registered prefix starts with the donor's first n blocks.
LEMMA RegisterStarts ==
  ASSUME RegistersWhole, LogicalInv, LogicalInv', Idle, UNCHANGED <<deviceVars, work, failed>>,
         NEW s \in Reliable, NEW n \in Nat, RegisterPrefix(s, n)
  PROVE  AbstractStep
<1>. DEFINE h == History(s)
<1>0. PICK o, from, base, tokens : /\ o = next_session /\ from = 0 /\ base = Through(from)
                                   /\ tokens = SharedTokens(s, from, n)
  BY Zenon
<1>1. /\ Sound /\ Ownership /\ failed \subseteq opened /\ Reliable \subseteq Sessions
      /\ slots \in [Sessions -> Seq(Slot)]
  BY ReliableSessions, PoolTypes, Zenon DEF LogicalInv, ForwardInv, PoolInv, StepInv, Clients
<1>2. /\ o \in Sessions /\ o \notin opened
      /\ \A t \in Sessions \ {o} : slots'[t] = slots[t] /\ filled'[t] = filled[t]
  BY <1>0, <1>1, Zenon DEF RegistersWhole
<1>3. Share(s, o, from, n) /\ UNCHANGED handles /\ opened' = opened \cup {o}
  BY <1>0, Zenon DEF RegisterPrefix
<1>4. Reliable' = Reliable \cup {o} /\ o \notin Reliable
  BY <1>1, <1>2, <1>3, ZenonT(40) DEF Reliable
<1>5. slots[o] = <<>> /\ Len(slots[o]) = from /\ filled[o] = base /\ base = 0
  BY <1>0, <1>1, <1>2, BlockSizeAssumption DEF Ownership, Through
<1>6. /\ History(o)' = History(o) \o Part(h, base, tokens)
      /\ tokens \in Nat
      /\ tokens > 0 => base + tokens \in 0 .. Len(h)
  <2>1. Spliced(s, o, from, n, base, tokens) /\ UNCHANGED <<deviceVars, work, handles>> /\ o \in Reliable'
    BY <1>0, <1>3, <1>4, <1>5, Zenon DEF Spliced
  <2>2. from \in Nat /\ (o \in Reliable \/ from = 0)
    BY <1>0, Zenon
  <2>3. o \in Sessions
    BY <1>2, Zenon
  <2>. QED BY <2>1, <2>2, <2>3, SharedHistory
<1>7. \A r \in Reliable : History(r)' = History(r)
  BY <1>1, <1>2, <1>3, <1>4, IdleBystander, Zenon DEF deviceVars
<1>8. /\ History(o) = <<>> /\ h \in Seq(Read)
  BY <1>0, <1>1, <1>2, <1>4, HistoryRead, Zenon DEF HistoryFact
<1>. HIDE DEF h
<1>9. tokens \in 0 .. Len(h)
  <2>1. base = 0 /\ tokens \in Nat /\ (tokens > 0 => base + tokens \in 0 .. Len(h))
    BY <1>5, <1>6, Zenon
  <2>2. Len(h) \in Nat
    BY <1>8
  <2>. QED BY <2>1, <2>2
<1>10. Part(h, base, tokens) \in Seq(Read)
  <2>1. base \in Nat /\ tokens \in Nat /\ (tokens > 0 => base + tokens <= Len(h))
    BY <1>5, <1>6
  <2>. QED BY <1>8, <2>1, TailOf, Zenon
<1>11. History(o)' = SubSeq(h, 1, tokens)
  <2>1. base + 1 = 1 /\ base + tokens = tokens
    BY <1>5, <1>6
  <2>. QED BY <1>6, <1>8, <1>10, <2>1, SeqUnit, Zenon DEF Part
<1>. QED BY <1>0, <1>2, <1>4, <1>7, <1>9, <1>11, StartFromStep, Zenon DEF h

LEMMA LifecycleAbstract ==
  ASSUME RegistersWhole, LogicalInv, LogicalInv', Idle, LifecycleStep
  PROVE  AbstractStep
<1>. /\ Sound /\ Ownership /\ StepInv /\ failed \subseteq opened /\ Reliable \subseteq Sessions
     /\ Usable \subseteq Reliable /\ Owners \cap failed = {} /\ Owners \subseteq opened
     /\ next_session \notin opened
  BY ReliableSessions, PoolTypes
  DEF LogicalInv, ForwardInv, PoolInv, StepInv, Clients, Usable, Reliable, Ownership, Owners, PrefixWhole
<1>1. CASE Open /\ CoreOnly
  <2>. PICK o : o = next_session
    BY Zenon
  <2>. /\ UNCHANGED <<slots, filled, handles, failed, deviceVars, work>>
       /\ opened' = opened \cup {o} /\ o \in Sessions
    BY <1>1, PoolTypes, BoundsAssumption DEF Open, CoreOnly, MintSession, Sessions
  <2>. o \notin Reliable /\ Reliable' = Reliable \cup {o}
    BY Zenon DEF Reliable
  <2>3. \A r \in Reliable : History(r)' = History(r)
    BY IdleBystander, Zenon DEF deviceVars
  <2>4. filled'[o] = 0
    BY Zenon DEF Ownership
  <2>5. Written(o)' = 0
    BY <2>4, IdleWrittenNext, Zenon
  <2>6. History(o)' \in Seq(Read) /\ Len(History(o)') = 0
    BY <2>5, ReadsNext, Zenon DEF HistoryFact
  <2>7. History(o)' = <<>>
    BY <2>6, SeqTyped, Zenon
  <2>. QED BY <2>3, <2>7, StartStep, Zenon
<1>2. ASSUME NEW s \in Clients, Close(s) PROVE AbstractStep
  BY <1>2, ForgetStep, Zenon DEF Close, Discard, Clients
<1>3. ASSUME NEW src \in Usable, NEW dst \in Usable, NEW to \in 0 .. MaxSlots, NEW from \in 0 .. to,
             SpliceInPlace(src, dst, from, to), CoreOnly
      PROVE  AbstractStep
  <2>1. /\ Share(src, dst, from, to) /\ UNCHANGED <<deviceVars, work, handles, opened, failed>>
        /\ Len(slots[dst]) = from /\ filled[dst] = Through(from)
    BY <1>3, Zenon DEF SpliceInPlace, Splice, CoreOnly, Through
  <2>2. from \in Nat /\ to \in Nat /\ src \in Reliable /\ dst \in Reliable
    BY BoundsAssumption
  <2>. QED BY <2>1, <2>2, SharedForks, Zenon
<1>4. ASSUME NEW s \in Usable, NEW n \in 0 .. MaxSlots, RegisterPrefix(s, n), CoreOnly PROVE AbstractStep
  <2>1. n \in Nat /\ UNCHANGED <<deviceVars, work, failed>> /\ s \in Reliable
    BY <1>4, BoundsAssumption DEF CoreOnly
  <2>. QED BY <1>4, <2>1, RegisterStarts, Zenon
<1>5. ASSUME NEW s \in Usable, NEW n \in 0 .. MaxSlots, RegisterPrefixRefused(s, n), CoreOnly
      PROVE  AbstractStep
  <2>. UNCHANGED <<slots, filled, opened, failed, handles, deviceVars, work>>
    BY <1>5, Zenon DEF RegisterPrefixRefused, CoreOnly
  <2>. Reliable' = Reliable
    BY Zenon DEF Reliable
  <2>3. \A r \in Reliable : History(r)' = History(r)
    BY IdleBystander, Zenon DEF deviceVars
  <2>. QED BY <2>3, StutterStep, Zenon
<1>6. ASSUME NEW x \in prefixes, ReleasePrefix(x), CoreOnly PROVE AbstractStep
  <2>. x.owner \in opened /\ x.owner \notin failed
    BY Zenon DEF Owners
  <2>2. /\ Forget(x.owner) /\ UNCHANGED <<deviceVars, work, handles>> /\ failed' = failed \ {x.owner}
    BY <1>6, Zenon DEF ReleasePrefix, CoreOnly
  <2>. QED BY <2>2, ForgetStep, Zenon
<1>. QED BY <1>1, <1>2, <1>3, <1>4, <1>5, <1>6, Zenon DEF LifecycleStep

-----------------------------------------------------------------------------
(* Splicing a prefix in, at its own positions or shifted. *)

\* A position e whole blocks further on is at the same offset, e blocks later.
LEMMA ShiftedPosition ==
  ASSUME NEW e \in Nat, NEW u \in Nat \ {0}
  PROVE  /\ Through(e) \in Nat /\ Through(e) + u \in Nat \ {0}
         /\ BlockAt(Through(e) + u) = e + BlockAt(u)
         /\ OffsetAt(Through(e) + u) = OffsetAt(u)
<1>. DEFINE m == Through(e)
            t == m + u
            x == BlockAt(t) - 1
            y == e + BlockAt(u) - 1
            f == x * BlockSize
            g == y * BlockSize
            k == (BlockAt(u) - 1) * BlockSize
<1>. m \in Nat /\ t \in Nat \ {0} /\ BlockSize \in Nat \ {0}
  BY BlockSizeAssumption DEF Through
<1>. /\ BlockAt(u) \in Nat \ {0} /\ OffsetAt(u) \in 1 .. BlockSize /\ u = k + OffsetAt(u)
     /\ BlockAt(t) \in Nat \ {0} /\ OffsetAt(t) \in 1 .. BlockSize /\ t = f + OffsetAt(t)
  BY PositionSplit, Zenon DEF Offsets
<1>. g = m + k /\ g \in Int /\ k \in Int
  BY RowsOfBlocks, Zenon DEF Through
<1>. f \in Int
  OBVIOUS
<1>. x \in Int /\ y \in Int
  OBVIOUS
<1>5. (x < y => f + BlockSize <= g) /\ (y < x => g + BlockSize <= f)
  BY BlocksOrdered, Zenon
<1>6. t = m + u
  BY Zenon
<1>. HIDE DEF f, g, k, m, t
<1>. t = g + OffsetAt(u)
  BY <1>6
<1>8. ~(x < y) /\ ~(y < x)
  <2>. HIDE DEF x, y
  <2>. QED BY <1>5
<1>. x = y
  <2>. HIDE DEF x, y
  <2>. QED BY <1>8
<1>10. f = g
  BY Zenon DEF f, g
<1>11. OffsetAt(t) = OffsetAt(u)
  BY <1>10
<1>12. BlockAt(t) = e + BlockAt(u)
  OBVIOUS
<1>. QED BY <1>11, <1>12, Zenon DEF t, m

\* What a shifted splice leaves in the blocks it took.
LEMMA ShiftedRows ==
  ASSUME Sound, Ownership, DeviceTypeOK, NEW x \in prefixes, NEW dst \in Usable, SplicePrefixShifted(x, dst)
  PROVE  /\ \A p \in Blocks \ free : cells'[p] = cells[p]
         /\ \A k \in 1 .. x.blocks : \A o \in Offsets :
              cells'[slots'[dst][Len(slots[dst]) + k]][o] = Rotated(cells[slots[x.owner][k]][o], filled[dst])
<1>. DEFINE end == Len(slots[dst])
            At(k) == slots'[dst][end + k]
<1>. dst \in Sessions /\ free \subseteq Blocks
  BY PoolTypes, Zenon DEF Usable
<1>. /\ \A k \in 1 .. x.blocks : At(k) \in free
     /\ \A k, l \in 1 .. x.blocks : At(k) = At(l) => k = l
  BY ShiftedShape, ZenonT(40) DEF SplicePrefixShifted
<1>. cells' = [p \in Blocks |->
       IF \E k \in 1 .. x.blocks : At(k) = p
       THEN [o \in Offsets |->
               Rotated(cells[slots[x.owner][CHOOSE k \in 1 .. x.blocks : At(k) = p]][o], filled[dst])]
       ELSE cells[p]]
  BY ZenonT(40) DEF SplicePrefixShifted
<1>. HIDE DEF At
<1>4. ASSUME NEW k \in 1 .. x.blocks, NEW o \in Offsets
      PROVE  cells'[At(k)][o] = Rotated(cells[slots[x.owner][k]][o], filled[dst])
  <2>1. (CHOOSE l \in 1 .. x.blocks : At(l) = At(k)) = k
    BY Zenon
  <2>2. At(k) \in Blocks
    BY Zenon
  <2>. QED BY <2>1, <2>2, Zenon
<1>5. \A p \in Blocks \ free : cells'[p] = cells[p]
  BY Zenon
<1>. QED BY <1>4, <1>5, Zenon DEF At

\* Keys rotated by whole blocks read, at the shifted position, as the original.
LEMMA ShiftedHistory ==
  ASSUME LogicalInv, LogicalInv', Idle, UNCHANGED <<work, failed>>,
         NEW x \in prefixes, NEW dst \in Usable, SplicePrefixShifted(x, dst),
         NEW owner, owner = x.owner, NEW n, n = x.blocks,
         NEW end, end = Len(slots[dst]), filled[dst] = Through(end),
         dst \in Reliable, owner \in Reliable, dst \in Reliable',
         NEW u \in Nat \ {0}, u <= Through(n), u <= filled[owner]
  PROVE  ValueAt(dst, Through(end) + u)' = ValueAt(owner, u)
<1>. DEFINE m == Through(end)
            t == m + u
            k == BlockAt(u)
            o == OffsetAt(u)
<1>. /\ Sound /\ Ownership /\ DeviceTypeOK /\ RowsFact /\ RowsFact'
     /\ dst \in Sessions /\ owner \in Sessions /\ n \in Nat /\ end \in Nat /\ BlocksAssumption
     /\ cells \in [Blocks -> [Offsets -> Row]]
  BY PoolTypes, RowsRead, ReadsNext, ReliableSessions, BlocksAssumption, ZenonT(40)
  DEF LogicalInv, ForwardInv, PoolInv, DeviceTypeOK
<1>. /\ m \in Nat /\ BlockAt(t) = end + k /\ OffsetAt(t) = o
  BY ShiftedPosition, Zenon
<1>. k \in 1 .. n /\ o \in Offsets
  <2>1. u <= n * BlockSize
    BY Zenon DEF Through
  <2>2. k \in Nat \ {0} /\ k <= n /\ o \in Offsets
    BY <2>1, BlockRange, PositionSplit, Zenon
  <2>. HIDE DEF k, o
  <2>. QED BY <2>2
<1>. HIDE DEF k, o, m
<1>3. k \in 1 .. Len(slots[owner]) /\ slots[owner][k] \in Blocks
  BY ZenonT(40) DEF Ownership, PrefixWhole, Resident
<1>4. Len(slots'[dst]) = end + n /\ slots'[dst][end + k] \in Blocks
  BY ShiftedShape, PoolTypes, ZenonT(40) DEF SplicePrefixShifted
<1>5. cells'[slots'[dst][end + k]][o] = Rotated(cells[slots[owner][k]][o], m)
  <2>1. \A j \in 1 .. n : \A e \in Offsets :
          cells'[slots'[dst][end + j]][e] = Rotated(cells[slots[owner][j]][e], m)
    BY ShiftedRows DEF m
  <2>. QED BY <2>1, ZenonT(40)
<1>6. end + k \in 1 .. Len(slots'[dst])
  <2>1. n \in Nat /\ end \in Nat
    BY Zenon
  <2>2. end + k \in 1 .. end + n
    BY <2>1, WiderRange, Zenon
  <2>. QED BY <1>4, <2>2, Zenon
<1>7. RowsOf(dst, end + k)' = cells'[slots'[dst][end + k]]
  BY <1>4, <1>6, RowNext, ZenonT(40)
<1>8. RowsOf(owner, k) = cells[slots[owner][k]]
  BY <1>3, RowAt, ZenonT(40)
<1>. DEFINE row == RowsOf(owner, k)[o]
            row1 == RowsOf(dst, end + k)'[o]
<1>. row \in Row /\ row1 = Rotated(row, m)
  BY <1>3, <1>5, <1>7, <1>8, ZenonT(40)
<1>10. /\ ValueAt(owner, u) = IF row # Blank /\ row[2] = u THEN row[1] ELSE Blank
       /\ ValueAt(dst, t)' = IF row1 # Blank /\ row1[2] = t THEN row1[1] ELSE Blank
  BY Zenon DEF ValueAt, k, o
<1>. HIDE DEF row, row1
<1>11. CASE row = Blank
  BY <1>10, <1>11, Zenon DEF Rotated, m
<1>12. CASE row # Blank
  <2>1. row \in Values \X Nat
    BY <1>12, ZenonT(40) DEF Row
  <2>. row1 = <<row[1], row[2] + m>> /\ row[1] \in Values /\ row[2] \in Nat
    BY <1>12, <2>1, Zenon DEF Rotated
  <2>3. row1 \in Values \X Nat
    OBVIOUS
  <2>4. row1 # Blank /\ row1[1] = row[1] /\ row1[2] = row[2] + m
    BY <2>3, ValuesAssumption
  <2>5. row1[2] = t <=> row[2] = u
    BY <2>4
  <2>. QED BY <1>10, <1>12, <2>4, <2>5, Zenon DEF m
<1>. QED BY <1>11, <1>12, Zenon

\* r is q and then more, entry by entry.
Continues(r, q, more) ==
  /\ Len(r) = Len(q) + Len(more)
  /\ \A t \in 1 .. Len(q) : r[t] = q[t]
  /\ \A i \in 1 .. Len(more) : r[Len(q) + i] = more[i]

LEMMA Continued ==
  ASSUME NEW S, NEW q \in Seq(S), NEW r \in Seq(S), NEW more \in Seq(S), Continues(r, q, more)
  PROVE  r = q \o more
<1>. DEFINE b == Len(q)
            n == Len(more)
<1>. /\ b \in Nat /\ n \in Nat /\ Len(r) = b + n
     /\ \A t \in 1 .. b : r[t] = q[t]
     /\ \A i \in 1 .. n : r[b + i] = more[i]
  BY SeqTyped, Zenon DEF Continues
<1>. /\ q \o more \in Seq(S) /\ Len(q \o more) = b + n
     /\ \A i \in 1 .. b + n : (q \o more)[i] = IF i <= b THEN q[i] ELSE more[i - b]
  BY SeqJoined, Zenon
<1>. HIDE DEF b, n
<1>2. ASSUME NEW i \in 1 .. b + n PROVE r[i] = (q \o more)[i]
  <2>1. CASE i <= b
    BY <2>1
  <2>2. CASE ~(i <= b)
    <3>1. i - b \in 1 .. n /\ b + (i - b) = i
      BY <2>2
    <3>. QED BY <2>2, <3>1, Zenon
  <2>. QED BY <2>1, <2>2, Zenon
<1>. QED BY <1>2, SeqSame, Zenon

LEMMA ShiftedForks ==
  ASSUME LogicalInv, LogicalInv', Idle, UNCHANGED <<work, failed>>,
         NEW x \in prefixes, NEW dst \in Usable, SplicePrefixShifted(x, dst),
         Len(slots[dst]) * BlockSize = filled[dst], dst \in Reliable, x.owner \in Reliable
  PROVE  AbstractStep
<1>0. PICK owner, n, end, m, tokens : /\ owner = x.owner /\ n = x.blocks /\ end = Len(slots[dst])
                                      /\ m = Through(end) /\ tokens = Through(n)
  BY Zenon
<1>1. /\ Sound /\ Ownership /\ DeviceTypeOK /\ HistoryFact /\ HistoryFact'
      /\ dst \in Sessions /\ owner \in Sessions /\ Reliable \subseteq Sessions
      /\ n \in Nat /\ end \in Nat /\ filled[dst] = m
      /\ owner \in Reliable /\ owner # dst
  BY <1>0, PoolTypes, HistoryRead, ReadsNext, ReliableSessions, Zenon
  DEF LogicalInv, ForwardInv, PoolInv, Through, Usable, Clients, Owners
<1>2. /\ UNCHANGED <<opened, handles, saved>> /\ AllocShiftedPrefixSlots(x, dst)
  BY Zenon DEF SplicePrefixShifted, AllocShiftedPrefixSlots
<1>3. Reliable' = Reliable
  BY <1>2, Zenon DEF Reliable
<1>4. /\ Len(slots'[dst]) = end + n
      /\ \A j \in 1 .. end : slots'[dst][j] = slots[dst][j]
      /\ \A r \in Sessions \ {dst} : slots'[r] = slots[r] /\ filled'[r] = filled[r]
      /\ filled'[dst] = m + tokens
  BY <1>0, <1>1, <1>2, ShiftedShape, ZenonT(40) DEF Through
<1>5. \A p \in Blocks \ free : cells'[p] = cells[p]
  BY <1>1, ShiftedRows, ZenonT(40)
<1>6. \A r \in Reliable \ {dst} : History(r)' = History(r)
  BY <1>1, <1>2, <1>3, <1>4, <1>5, IdleBystander, ZenonT(40)
<1>7. m \in Nat /\ tokens \in Nat /\ filled[owner] \in Nat /\ tokens <= filled[owner]
  BY <1>0, <1>1, <1>2, PoolTypes, BlockSizeAssumption DEF Through, AllocShiftedPrefixSlots
<1>8. Written(dst) = m /\ Written(dst)' = m + tokens /\ Written(owner) = filled[owner]
  BY <1>1, <1>4, IdleWritten, IdleWrittenNext, ZenonT(40)
<1>. DEFINE q == History(dst)
            src == History(owner)
            more == Part(src, 0, tokens)
<1>9. /\ q \in Seq(Read) /\ Len(q) = m /\ \A t \in 1 .. m : q[t] = ValueAt(dst, t)
      /\ \A t \in 1 .. m : BlockAt(t) \in 1 .. end
  BY <1>0, <1>1, <1>8, ZenonT(40) DEF HistoryFact
<1>10. /\ q' \in Seq(Read) /\ Len(q') = m + tokens /\ \A t \in 1 .. m + tokens : q'[t] = ValueAt(dst, t)'
  BY <1>1, <1>3, <1>8, ZenonT(40) DEF HistoryFact
<1>11. /\ src \in Seq(Read) /\ Len(src) = filled[owner] /\ \A t \in 1 .. filled[owner] : src[t] = ValueAt(owner, t)
  BY <1>1, <1>8, ZenonT(40) DEF HistoryFact
<1>. HIDE DEF q, src
<1>12. /\ more \in Seq(Read) /\ Len(more) = tokens
       /\ \A i \in 1 .. tokens : more[i] = src[i]
  <2>1. /\ more \in Seq(Read) /\ Len(more) = tokens
        /\ \A i \in 1 .. tokens : more[i] = src[0 + i]
    BY <1>7, <1>11, TailOf
  <2>. QED BY <1>7, <2>1
<1>. HIDE DEF more
<1>13. ASSUME NEW t \in 1 .. m PROVE q'[t] = q[t]
  <2>1. BlockAt(t) \in 1 .. end /\ BlockAt(t) \in 1 .. Len(slots'[dst]) /\ BlockAt(t) \in 1 .. Len(slots[dst])
    <3>1. BlockAt(t) \in 1 .. end
      BY <1>9, Zenon
    <3>2. n \in Nat /\ end \in Nat
      BY <1>1, Zenon
    <3>3. BlockAt(t) \in 1 .. end + n
      BY <3>1, <3>2, WiderRange, Zenon
    <3>. QED BY <1>0, <1>4, <3>1, <3>3, Zenon
  <2>2. slots[dst][BlockAt(t)] \in Blocks => slots[dst][BlockAt(t)] \in Blocks \ free
    BY <1>1, <2>1, NamedCounted, Zenon DEF Resident
  <2>3. RowsOf(dst, BlockAt(t))' = RowsOf(dst, BlockAt(t))
    BY <1>2, <1>3, <1>4, <1>5, <2>1, <2>2, RowKept, ZenonT(40)
  <2>4. ValueAt(dst, t)' = ValueAt(dst, t)
    BY <2>3, ZenonT(40) DEF ValueAt
  <2>5. t \in 1 .. m + tokens
    BY <1>7, <1>13
  <2>. QED BY <1>9, <1>10, <2>4, <2>5, Zenon
<1>14. ASSUME NEW u \in 1 .. tokens PROVE q'[m + u] = more[u]
  <2>1. u \in Nat \ {0} /\ u <= tokens /\ u <= filled[owner] /\ m + u \in 1 .. m + tokens /\ u \in 1 .. filled[owner]
    BY <1>7, <1>14
  <2>2. ValueAt(dst, Through(end) + u)' = ValueAt(owner, u)
    <3>1. owner = x.owner /\ n = x.blocks /\ end = Len(slots[dst]) /\ owner \in Reliable /\ dst \in Reliable'
      BY <1>0, <1>1, <1>3, Zenon
    <3>2. filled[dst] = Through(end) /\ u \in Nat \ {0} /\ u <= Through(n) /\ u <= filled[owner]
      BY <1>0, <1>1, <2>1, Zenon
    <3>. QED BY <3>1, <3>2, ShiftedHistory
  <2>3. ValueAt(dst, m + u)' = ValueAt(owner, u)
    BY <1>0, <2>2, Zenon
  <2>. QED BY <1>10, <1>11, <1>12, <2>1, <2>3, ZenonT(40)
<1>15. q' = q \o more
  <2>1. q \in Seq(Read) /\ q' \in Seq(Read) /\ more \in Seq(Read) /\ m \in Nat /\ tokens \in Nat
    BY <1>7, <1>9, <1>10, <1>12, Zenon
  <2>2. Len(q) = m /\ Len(more) = tokens /\ Len(q') = m + tokens
    BY <1>9, <1>10, <1>12, Zenon
  <2>3. \A t \in 1 .. m : q'[t] = q[t]
    BY <1>13, Zenon
  <2>4. \A i \in 1 .. tokens : q'[m + i] = more[i]
    BY <1>14, Zenon
  <2>5. Continues(q', q, more)
    BY <2>2, <2>3, <2>4, Zenon DEF Continues
  <2>. QED BY <2>1, <2>5, Continued, Zenon
<1>16. 0 \in 0 .. tokens /\ tokens \in 0 .. Len(src) /\ more = SubSeq(src, 0 + 1, tokens)
  BY <1>7, <1>11 DEF more, Part
<1>. QED BY <1>1, <1>3, <1>6, <1>15, <1>16, ForkStep, ZenonT(40) DEF q, src

LEMMA PrefixUseAbstract ==
  ASSUME LogicalInv, LogicalInv', Idle, PrefixUseStep
  PROVE  AbstractStep
<1>. /\ Sound /\ Ownership /\ Reliable \subseteq Sessions /\ FillFitsBlocks
     /\ Usable \subseteq Reliable /\ Owners \cap failed = {} /\ Owners \subseteq opened
  BY ReliableSessions, PoolTypes
  DEF LogicalInv, ForwardInv, PoolInv, StepInv, Clients, Usable, Reliable, Ownership, Owners, PrefixWhole
<1>1. ASSUME NEW x \in prefixes, NEW dst \in Usable, SplicePrefixFrom(x, dst), CoreOnly PROVE AbstractStep
  <2>. PICK from : from = 0
    BY Zenon
  <2>. /\ Share(x.owner, dst, from, x.blocks) /\ UNCHANGED <<deviceVars, work, handles, opened, failed>>
       /\ slots[dst] = <<>>
    BY <1>1, Zenon DEF SplicePrefixFrom, SplicePrefix, CoreOnly
  <2>. x.owner \in Reliable /\ dst \in Reliable /\ x.blocks \in Nat /\ from \in Nat
    BY PoolTypes, Zenon DEF Owners, Reliable
  <2>3. filled[dst] \in Nat /\ filled[dst] <= Len(slots[dst]) * BlockSize /\ dst \in Sessions
    BY PoolTypes, Zenon DEF FillFitsBlocks
  <2>4. Len(slots[dst]) = from /\ filled[dst] = Through(from)
    BY <2>3, BlockSizeAssumption DEF Through
  <2>. QED BY <2>4, SharedForks, Zenon
<1>2. ASSUME NEW x \in prefixes, NEW dst \in Usable, Len(slots[dst]) * BlockSize = filled[dst],
             SplicePrefixShifted(x, dst), UNCHANGED <<work, failed>>
      PROVE  AbstractStep
  BY <1>2, ShiftedForks, Zenon DEF Owners, Reliable
<1>3. ASSUME NEW x \in prefixes, NEW dst \in Usable, SplicePrefixShiftedTorn(x, dst),
             failed' = failed \cup {dst}, UNCHANGED work
      PROVE  AbstractStep
  <2>. USE <1>3
  <2>. /\ UNCHANGED <<opened, handles, deviceVars>> /\ dst \in Sessions /\ dst \in Reliable
       /\ \A r \in Sessions \ {dst} : slots'[r] = slots[r] /\ filled'[r] = filled[r]
    BY ShiftedShape, ZenonT(40) DEF SplicePrefixShiftedTorn, AllocShiftedPrefixSlots
  <2>. Reliable' = Reliable \ {dst} /\ {dst} \in SUBSET Reliable /\ {dst} # {}
    BY ZenonT(40) DEF Reliable
  <2>3. \A r \in Reliable' : History(r)' = History(r)
    BY IdleBystander, ZenonT(40) DEF deviceVars
  <2>. QED BY <2>3, EndStep, Zenon
<1>. QED BY <1>1, <1>2, <1>3, ZenonT(40) DEF PrefixUseStep

-----------------------------------------------------------------------------
(* Moving blocks between the device and the handles. *)

\* A session whose rows read the same between steps.
LEMMA IdleKept ==
  ASSUME LogicalInv, LogicalInv', Idle, UNCHANGED work, NEW s \in Reliable, s \in Reliable',
         filled'[s] = filled[s], \A i \in 1 .. Len(slots[s]) : RowsOf(s, i)' = RowsOf(s, i)
  PROVE  History(s)' = History(s)
<1>1. s \in Sessions
  BY ReliableSessions, Zenon
<1>2. Written(s)' = Written(s)
  BY <1>1, IdleWritten, IdleWrittenNext, Zenon
<1>. QED BY <1>2, HistoryKept, Zenon

\* The rows of an evicted block are read from its handle.
LEMMA EvictStutters ==
  ASSUME LogicalInv, LogicalInv', Idle, UNCHANGED <<work, failed>>, NEW s \in Usable, NEW indices,
         EvictDevice(s, indices)
  PROVE  AbstractStep
<1>0. /\ Sound /\ Ownership /\ HandleInv /\ DeviceTypeOK /\ RowsFact /\ RowsFact' /\ s \in Reliable
      /\ Reliable \subseteq Sessions /\ s \in opened /\ s \notin Owners /\ Externalized \notin Blocks
  BY RowsRead, ReadsNext, ReliableSessions, BlocksAssumption, ZenonT(40)
  DEF LogicalInv, ForwardInv, PoolInv, Usable, Clients, Reliable
<1>1. PICK new \in handles' :
        /\ new.session = s /\ handles' = handles \cup {new}
        /\ new.gone = {i \in indices : Detachable(s, i)}
        /\ \A i \in new.gone : /\ i \in 1 .. Len(slots[s]) /\ slots[s][i] \in Blocks
                               /\ slots'[s][i] = Externalized
        /\ \A i \in 1 .. Len(slots[s]) : i \notin new.gone => slots'[s][i] = slots[s][i]
        /\ Len(slots'[s]) = Len(slots[s])
        /\ \A r \in Sessions \ {s} : slots'[r] = slots[r]
        /\ UNCHANGED <<opened, filled, next_session, prefixes>>
  BY <1>0, EvictShape DEF EvictDevice
<1>2. /\ UNCHANGED cells
      /\ saved' = [h \in handles' |-> IF h \in handles THEN saved[h]
                                      ELSE [i \in ToSave(s, indices) |-> cells[slots[s][i]]]]
  BY Zenon DEF EvictDevice
<1>3. Reliable' = Reliable
  BY <1>1, Zenon DEF Reliable
<1>4. \A h \in handles : h \in handles' /\ saved'[h] = saved[h]
  BY <1>1, <1>2, ZenonT(40)
<1>5. \A r \in Reliable \ {s} : History(r)' = History(r)
  BY <1>0, <1>1, <1>2, <1>3, <1>4, IdleBystander, ZenonT(40)
<1>6. ASSUME NEW i \in 1 .. Len(slots[s]) PROVE RowsOf(s, i)' = RowsOf(s, i)
  <2>1. CASE i \notin new.gone
    BY <1>0, <1>1, <1>2, <1>3, <1>4, <2>1, RowKept, ZenonT(40)
  <2>2. CASE i \in new.gone
    <3>0. /\ slots[s][i] \in Blocks /\ new \in handles' /\ new.session = s
          /\ i \in 1 .. Len(slots'[s]) /\ s \in Reliable'
      BY <1>0, <1>1, <1>3, <2>2, ZenonT(40)
    <3>1. RowsOf(s, i) = cells[slots[s][i]]
      BY <1>0, <3>0, RowAt, Zenon
    <3>2. new \notin handles
      <4>1. s \in opened /\ slots[s][i] # Externalized
        BY <1>0, <3>0, BlocksAssumption, Zenon DEF Reliable
      <4>2. \A h \in handles : h.session \in opened => \A j \in h.gone : slots[h.session][j] = Externalized
        BY <1>0, Zenon DEF HandleInv
      <4>. QED BY <2>2, <3>0, <4>1, <4>2, Zenon
    <3>3. i \in ToSave(s, indices)
      BY <1>1, <2>2, ZenonT(40) DEF ToSave, Detachable
    <3>4. saved'[new][i] = cells[slots[s][i]]
      BY <1>1, <1>2, <3>2, <3>3, ZenonT(40)
    <3>5. RowsOf(s, i)' = saved'[new][i]
      BY <1>0, <2>2, <3>0, RowNext, Zenon
    <3>. QED BY <3>1, <3>4, <3>5, ZenonT(40)
  <2>. QED BY <2>1, <2>2, Zenon
<1>7. History(s)' = History(s)
  BY <1>0, <1>1, <1>3, <1>6, IdleKept, Zenon
<1>. QED BY <1>3, <1>5, <1>7, StutterStep, Zenon

\* Restored blocks read as their handle did.
LEMMA RestoreStutters ==
  ASSUME LogicalInv, LogicalInv', Idle, UNCHANGED <<work, failed>>, NEW h \in handles, h.session \in Usable,
         Current(h), RestoreDevice(h.session, h)
  PROVE  AbstractStep
<1>0. PICK s : s = h.session
  BY Zenon
<1>1. /\ Sound /\ Ownership /\ HandleInv /\ DeviceTypeOK /\ RowsFact /\ RowsFact' /\ s \in Reliable
      /\ Reliable \subseteq Sessions /\ free \subseteq Blocks /\ DOMAIN saved[h] = h.gone /\ DOMAIN saved = handles
  BY <1>0, RowsRead, ReadsNext, ReliableSessions, PoolTypes, ZenonT(40)
  DEF LogicalInv, ForwardInv, PoolInv, Usable, Clients, Reliable, DeviceTypeOK
<1>2. /\ handles' = handles \ {h}
      /\ \A r \in Sessions \ {s} : slots'[r] = slots[r]
      /\ Len(slots'[s]) = Len(slots[s])
      /\ \A i \in h.gone : i \in 1 .. Len(slots[s]) /\ slots[s][i] = Externalized /\ slots'[s][i] \in free
      /\ \A i \in 1 .. Len(slots[s]) : i \notin h.gone => slots'[s][i] = slots[s][i]
      /\ \A i, j \in h.gone : slots'[s][i] = slots'[s][j] => i = j
      /\ UNCHANGED <<opened, filled, next_session, prefixes>>
  BY <1>0, <1>1, RestoreShape, ZenonT(40) DEF RestoreDevice
<1>3. /\ cells' = [p \in Blocks |-> IF \E i \in h.gone : slots'[s][i] = p
                                   THEN saved[h][CHOOSE i \in h.gone : slots'[s][i] = p]
                                   ELSE cells[p]]
      /\ saved' = [g \in handles' |-> saved[g]]
  BY <1>0, <1>1, ZenonT(40) DEF RestoreDevice, WriteBack, ForgetSaved
<1>4. \A p \in Blocks \ free : cells'[p] = cells[p]
  BY <1>2, <1>3, ZenonT(40)
<1>5. Reliable' = Reliable
  BY <1>2, ZenonT(40) DEF Reliable
<1>6. \A g \in handles : g # h => g \in handles' /\ saved'[g] = saved[g]
  BY <1>2, <1>3, ZenonT(40)
<1>7. \A r \in Reliable \ {s} : History(r)' = History(r)
  BY <1>0, <1>1, <1>2, <1>4, <1>5, <1>6, IdleBystander, Zenon
<1>8. ASSUME NEW i \in 1 .. Len(slots[s]) PROVE RowsOf(s, i)' = RowsOf(s, i)
  <2>1. CASE i \notin h.gone
    <3>1. slots[s][i] \in Blocks => cells'[slots[s][i]] = cells[slots[s][i]]
      BY <1>1, <1>4, NamedCounted, ZenonT(40) DEF Resident
    <3>2. \A g \in handles : g.session = s /\ i \in g.gone => g \in handles' /\ saved'[g] = saved[g]
      BY <1>6, <2>1, Zenon
    <3>. QED BY <1>1, <1>2, <1>5, <2>1, <3>1, <3>2, RowKept, ZenonT(40)
  <2>2. CASE i \in h.gone
    <3>1. RowsOf(s, i) = saved[h][i]
      BY <1>0, <1>1, <2>2, RowAt, ZenonT(40)
    <3>2. slots'[s][i] \in Blocks /\ i \in 1 .. Len(slots'[s]) /\ s \in Reliable' /\ RowsFact'
      BY <1>1, <1>2, <1>5, <2>2, ZenonT(40)
    <3>3. (CHOOSE j \in h.gone : slots'[s][j] = slots'[s][i]) = i
      BY <1>2, <2>2, ZenonT(40)
    <3>4. cells'[slots'[s][i]] = saved[h][i]
      BY <1>3, <2>2, <3>2, <3>3, ZenonT(40)
    <3>5. RowsOf(s, i)' = cells'[slots'[s][i]]
      BY <3>2, RowNext, Zenon
    <3>. QED BY <3>1, <3>4, <3>5, ZenonT(40)
  <2>. QED BY <2>1, <2>2, Zenon
<1>9. History(s)' = History(s)
  BY <1>1, <1>2, <1>5, <1>8, IdleKept, ZenonT(40)
<1>. QED BY <1>5, <1>7, <1>9, StutterStep, Zenon

\* A torn restore is reported to its session, and no other session can tell.
LEMMA TornRestoreEnds ==
  ASSUME LogicalInv, LogicalInv', Idle, UNCHANGED work, NEW h \in handles, h.session \in Usable,
         Current(h), RestoreTorn(h.session, h), failed' = failed \cup {h.session}
  PROVE  AbstractStep
<1>. PICK s : s = h.session
  BY Zenon
<1>. /\ Sound /\ Ownership /\ DeviceTypeOK /\ s \in Reliable /\ Reliable \subseteq Sessions
  BY ReliableSessions, Zenon DEF LogicalInv, ForwardInv, PoolInv, Usable, Clients, Reliable
<1>. /\ handles' = handles \ {h}
     /\ \A r \in Sessions \ {s} : slots'[r] = slots[r]
     /\ UNCHANGED <<opened, filled, next_session, prefixes>>
  BY RestoreShape, ZenonT(40) DEF RestoreTorn
<1>3. saved' = [g \in handles' |-> saved[g]]
  BY Zenon DEF RestoreTorn, ForgetSaved
<1>4. \A p \in Blocks \ free : cells'[p] = cells[p]
  BY CopiesIntoFree, ZenonT(40) DEF Copies
<1>. Reliable' = Reliable \ {s} /\ {s} \in SUBSET Reliable /\ {s} # {}
  BY Zenon DEF Reliable
<1>6. \A r \in Reliable' : \A g \in handles : g.session = r => g \in handles' /\ saved'[g] = saved[g]
  BY <1>3, Zenon
<1>7. \A r \in Reliable' : History(r)' = History(r)
  BY <1>4, <1>6, IdleBystander, ZenonT(40)
<1>. QED BY <1>7, EndStep, Zenon

\* A handle is let go only when its session is closed or has failed; a prefix's
\* owner has no missing block that a handle could hold.
LEMMA DropStutters ==
  ASSUME LogicalInv, LogicalInv', Idle, UNCHANGED <<work, failed>>, NEW h \in handles, h.session \notin Usable,
         DropDevice(h)
  PROVE  AbstractStep
<1>. /\ HandleInv /\ Ownership /\ Externalized \notin Blocks
  BY BlocksAssumption, Zenon DEF LogicalInv, ForwardInv, PoolInv
<1>. handles' = handles \ {h} /\ UNCHANGED <<slots, filled, opened, cells>> /\ saved' = [g \in handles' |-> saved[g]]
  BY Zenon DEF DropDevice, DropHandle, tableVars, ForgetSaved
<1>. Reliable' = Reliable
  BY Zenon DEF Reliable
<1>4. ASSUME NEW r \in Reliable, NEW i \in 1 .. Len(slots[r]) PROVE RowsOf(r, i)' = RowsOf(r, i)
  <2>. USE <1>4
  <2>1. ~(h.session = r /\ i \in h.gone)
    <3>1. SUFFICES ASSUME h.session = r, i \in h.gone PROVE FALSE
      BY Zenon
    <3>2. PICK x \in prefixes : x.owner = r
      BY <3>1, Zenon DEF Reliable, Usable, Clients, Owners
    <3>3. Resident(r, i)
      BY <3>2, Zenon DEF Ownership, PrefixWhole
    <3>4. slots[r][i] = Externalized
      BY <3>1, Zenon DEF HandleInv, Reliable
    <3>. QED BY <3>3, <3>4, Zenon DEF Resident
  <2>2. \A g \in handles : g.session = r /\ i \in g.gone => g \in handles' /\ saved'[g] = saved[g]
    BY <2>1, Zenon
  <2>. QED BY <2>2, RowKept, ZenonT(40)
<1>5. \A r \in Reliable : History(r)' = History(r)
  BY <1>4, IdleKept, Zenon
<1>. QED BY <1>5, StutterStep, Zenon

LEMMA TierAbstract ==
  ASSUME LogicalInv, LogicalInv', Idle, TierStep
  PROVE  AbstractStep
BY EvictStutters, RestoreStutters, TornRestoreEnds, DropStutters, Zenon DEF TierStep

-----------------------------------------------------------------------------
(* The stages of a step. *)

\* The error exits: the sessions of the step forfeit their history, no other
\* session's rows were touched.
LEMMA AbortEnds ==
  ASSUME LogicalInv, LogicalInv', Abort, Stepping # {}, UNCHANGED <<opened, handles, saved>>,
         \A r \in Reliable \ Stepping :
           /\ slots'[r] = slots[r] /\ filled'[r] = filled[r]
           /\ \A i \in 1 .. Len(slots[r]) : slots[r][i] \in Blocks => cells'[slots[r][i]] = cells[slots[r][i]]
  PROVE  AbstractStep
<1>. /\ Sound /\ StepInv /\ Reliable \subseteq Sessions
     /\ Usable \subseteq Reliable
  BY ReliableSessions, Zenon DEF LogicalInv, ForwardInv, PoolInv, Usable, Clients, Reliable
<1>1. /\ Stepping \subseteq Reliable /\ Stepping \in SUBSET Reliable
  BY Zenon DEF StepInv
<1>. failed' = failed \cup Stepping /\ work' = NoWork
  BY ZenonT(40) DEF Abort
<1>. Reliable' = Reliable \ Stepping
  BY ZenonT(40) DEF Reliable
<1>4. ASSUME NEW r \in Reliable' PROVE History(r)' = History(r)
  <2>. USE <1>4
  <2>. r \in Reliable /\ r \in Sessions /\ r \notin Stepping /\ slots'[r] = slots[r]
    BY ZenonT(40)
  <2>2. Written(r) = filled[r]
    BY StepFacts, Zenon DEF Written
  <2>3. Written(r)' = filled'[r]
    <3>1. work'.current = None /\ work'.grown = {}
      BY Zenon DEF NoWork
    <3>. QED BY <3>1, StepAssumption, Zenon DEF Written
  <2>4. Written(r)' = Written(r)
    BY <2>2, <2>3, Zenon
  <2>5. \A i \in 1 .. Len(slots[r]) : RowsOf(r, i)' = RowsOf(r, i)
    BY RowKept, Zenon
  <2>. QED BY <2>4, <2>5, HistoryKept, Zenon
<1>. QED BY <1>1, <1>4, EndStep, Zenon

\* A step that fails: which rows it may have written.
LEMMA FailureAbstract ==
  ASSUME LogicalInv, LogicalInv',
         WriteFails \/ \E s \in Sessions : AppendRefused(s) \/ WritableRefused(s) \/ WritableTorn(s)
  PROVE  AbstractStep
<1>. /\ Sound /\ StepInv /\ Reliable \subseteq Sessions /\ DeviceTypeOK
  BY ReliableSessions, Zenon DEF LogicalInv, ForwardInv, PoolInv
<1>1. ASSUME NEW s \in Sessions, AppendRefused(s) \/ WritableRefused(s) PROVE AbstractStep
  <2>1. Abort /\ UNCHANGED <<opened, handles, saved, slots, filled, cells>>
    BY <1>1, ZenonT(40) DEF AppendRefused, WritableRefused, vars, tableVars, deviceVars
  <2>2. s \in Stepping
    BY <1>1, StepFacts, ZenonT(40) DEF AppendRefused, WritableRefused
  <2>. QED BY <2>1, <2>2, AbortEnds, ZenonT(40)
<1>2. ASSUME NEW s \in Sessions, WritableTorn(s) PROVE AbstractStep
  <2>. Abort /\ CowBreak(s, BlockAt(filled[s])) /\ UNCHANGED <<saved, cells>> /\ s \in Stepping
    BY <1>2, StepFacts, ZenonT(40) DEF WritableTorn, EnsureWritableTorn, deviceVars
  <2>. UNCHANGED <<opened, handles, filled>> /\ \A r \in Sessions \ {s} : slots'[r] = slots[r]
    BY CowBreakShape, Zenon
  <2>3. \A r \in Reliable \ Stepping : slots'[r] = slots[r]
    BY ZenonT(40)
  <2>. QED BY <2>3, AbortEnds, Zenon
<1>3. CASE WriteFails
  <2>. Abort /\ UNCHANGED <<opened, handles, saved, slots, filled>> /\ work.grown # {}
    BY <1>3, ZenonT(40) DEF WriteFails, Grown, vars, tableVars
  <2>2. PICK done \in SUBSET work.grown : cells' = Rows(done)
    BY <1>3, Zenon DEF WriteFails
  <2>3. Stepping # {}
    BY StepFacts, Zenon
  <2>4. ASSUME NEW r \in Reliable \ Stepping, NEW i \in 1 .. Len(slots[r]), slots[r][i] \in Blocks
        PROVE  cells'[slots[r][i]] = cells[slots[r][i]]
    <3>1. ASSUME NEW s \in done PROVE slots[s][BlockAt(filled[s])] # slots[r][i]
      <4>1. s \in Sessions /\ s \in Stepping /\ Resident(s, BlockAt(filled[s]))
            /\ refcount[slots[s][BlockAt(filled[s])]] = 1
        BY StepFacts, Zenon DEF StepInv
      <4>. QED BY <4>1, ExclusiveSlot, ZenonT(40)
    <3>. QED BY <2>2, <2>4, <3>1, RowsIntoOwn, ZenonT(40)
  <2>. QED BY <2>3, <2>4, AbortEnds, ZenonT(40)
<1>. QED BY <1>1, <1>2, <1>3, Zenon

\* Where the rows of a step go: to the last position of each session it grew.
LEMMA WrittenRows ==
  ASSUME Sound, StepInv, NEW r \in Sessions, NEW i \in 1 .. Len(slots[r]), slots[r][i] \in Blocks,
         NEW o \in Offsets
  PROVE  Rows(work.grown)[slots[r][i]][o] =
           IF r \in work.grown /\ i = BlockAt(filled[r]) /\ o = OffsetAt(filled[r])
           THEN <<work.feed[r], filled[r]>> ELSE cells[slots[r][i]][o]
<1>. DEFINE p == slots[r][i]
            Last(s) == slots[s][BlockAt(filled[s])] = p /\ OffsetAt(filled[s]) = o
<1>1. ASSUME NEW s \in work.grown, slots[s][BlockAt(filled[s])] = p PROVE s = r /\ BlockAt(filled[s]) = i
  <2>1. s \in Sessions /\ Resident(s, BlockAt(filled[s])) /\ refcount[slots[s][BlockAt(filled[s])]] = 1
    BY StepFacts, Zenon DEF StepInv
  <2>. QED BY <1>1, <2>1, ExclusiveSlot, Zenon
<1>2. Rows(work.grown)[p][o] = IF \E s \in work.grown : Last(s)
                               THEN <<work.feed[CHOOSE s \in work.grown : Last(s)],
                                      filled[CHOOSE s \in work.grown : Last(s)]>>
                               ELSE cells[p][o]
  BY ZenonT(40) DEF Rows
<1>3. CASE r \in work.grown /\ i = BlockAt(filled[r]) /\ o = OffsetAt(filled[r])
  <2>1. Last(r) /\ \A s \in work.grown : Last(s) => s = r
    BY <1>1, <1>3, ZenonT(40)
  <2>. HIDE DEF Last
  <2>2. (CHOOSE s \in work.grown : Last(s)) = r
    BY <1>3, <2>1, Zenon
  <2>. QED BY <1>2, <1>3, <2>1, <2>2, ZenonT(40)
<1>4. CASE ~(r \in work.grown /\ i = BlockAt(filled[r]) /\ o = OffsetAt(filled[r]))
  <2>1. ~\E s \in work.grown : Last(s)
    BY <1>1, <1>4, Zenon
  <2>. QED BY <1>2, <1>4, <2>1, ZenonT(40)
<1>. QED BY <1>3, <1>4, ZenonT(40)

\* What attention reads of a grown session once the rows are written.
LEMMA WrittenValues ==
  ASSUME LogicalInv, LogicalInv', StepWrite, NEW s \in work.grown, s \in Reliable, s \in Reliable',
         NEW t \in 1 .. filled[s]
  PROVE  ValueAt(s, t)' = IF t = filled[s] THEN work.feed[s] ELSE ValueAt(s, t)
<1>. DEFINE b == BlockAt(t)
            o == OffsetAt(t)
            last == filled[s]
<1>. /\ Sound /\ StepInv /\ RowsFact /\ RowsFact' /\ s \in Sessions /\ s \in Stepping
     /\ last \in Nat \ {0} /\ work.feed[s] \in Values /\ FillFitsBlocks
  <2>. /\ Sound /\ StepInv /\ RowsFact /\ RowsFact' /\ FillFitsBlocks /\ s \in Sessions
    BY RowsRead, ReadsNext, ReliableSessions, ZenonT(40) DEF LogicalInv, ForwardInv, PoolInv
  <2>2. s \in Stepping /\ last > 0 /\ last \in Nat
    BY StepFacts, PoolTypes, Zenon
  <2>. QED BY <2>2 DEF StepInv
<1>. /\ cells' = Rows(work.grown) /\ UNCHANGED <<slots, filled, handles>> /\ Resident(s, b)
  <2>1. b \in 1 .. Len(slots[s])
    <3>. t \in Nat \ {0} /\ t <= Len(slots[s]) * BlockSize /\ Len(slots[s]) \in Nat
      <4>. Len(slots[s]) \in Nat /\ last <= Len(slots[s]) * BlockSize
        BY PoolTypes, Zenon DEF FillFitsBlocks
      <4>2. Len(slots[s]) * BlockSize \in Int /\ t \in Nat \ {0} /\ t <= last
        BY BlockSizeAssumption
      <4>. QED BY <4>2
    <3>2. b \in Nat \ {0} /\ b <= Len(slots[s])
      BY BlockRange, PositionSplit, Zenon
    <3>. QED BY <3>2
  <2>2. cells' = Rows(work.grown) /\ UNCHANGED <<slots, filled, handles>>
    BY Zenon DEF StepWrite, vars, tableVars
  <2>. QED BY <2>1, <2>2, Zenon DEF StepWrite, Materialized
<1>2. o \in Offsets
  BY PositionSplit
<1>. slots[s][b] \in Blocks /\ b \in 1 .. Len(slots[s])
  BY Zenon DEF Resident
<1>4. RowsOf(s, b) = cells[slots[s][b]]
  BY RowAt, ZenonT(40)
<1>5. RowsOf(s, b)' = cells'[slots[s][b]]
  <2>1. slots' = slots /\ b \in 1 .. Len(slots'[s]) /\ slots'[s][b] \in Blocks
    BY Zenon
  <2>. QED BY <2>1, RowNext, ZenonT(40)
<1>6. cells'[slots[s][b]][o] = IF b = BlockAt(last) /\ o = OffsetAt(last)
                               THEN <<work.feed[s], last>> ELSE cells[slots[s][b]][o]
  BY <1>2, WrittenRows, ZenonT(40)
<1>7. (b = BlockAt(last) /\ o = OffsetAt(last)) <=> t = last
  <2>1. t \in Nat \ {0}
    OBVIOUS
  <2>2. t = (b - 1) * BlockSize + o /\ last = (BlockAt(last) - 1) * BlockSize + OffsetAt(last)
    BY <2>1, PositionSplit, Zenon
  <2>. HIDE DEF last
  <2>. QED BY <2>2, Zenon
<1>. DEFINE row == RowsOf(s, b)[o]
            row1 == RowsOf(s, b)'[o]
<1>. /\ ValueAt(s, t) = IF row # Blank /\ row[2] = t THEN row[1] ELSE Blank
     /\ ValueAt(s, t)' = IF row1 # Blank /\ row1[2] = t THEN row1[1] ELSE Blank
  BY ZenonT(40) DEF ValueAt
<1>. row1 = IF t = last THEN <<work.feed[s], last>> ELSE row
  BY <1>4, <1>5, <1>6, <1>7, ZenonT(40)
<1>. HIDE DEF row, row1
<1>10. CASE t = last
  <2>. USE <1>10
  <2>1. row1 = <<work.feed[s], last>> /\ row1 \in Values \X Nat
    BY ZenonT(40)
  <2>2. row1 # Blank /\ row1[1] = work.feed[s] /\ row1[2] = t
    BY <2>1, ValuesAssumption
  <2>. QED BY <2>2, ZenonT(40)
<1>11. CASE t # last
  BY <1>11, Zenon
<1>. QED BY <1>10, <1>11, ZenonT(40)

\* The rows of a step append each fed value to its session's history.
LEMMA WriteFeeds ==
  ASSUME LogicalInv, LogicalInv', StepWrite
  PROVE  AbstractStep
<1>. DEFINE fed == work.grown
            feed == [s \in fed |-> work.feed[s]]
<1>0. /\ Sound /\ StepInv /\ Reliable \subseteq Sessions /\ DeviceTypeOK /\ Usable \subseteq Reliable
      /\ HistoryFact /\ HistoryFact' /\ filled \in [Sessions -> Nat]
  BY ReliableSessions, HistoryRead, ReadsNext, PoolTypes, Zenon
  DEF LogicalInv, ForwardInv, PoolInv, Usable, Clients, Reliable
<1>1. /\ UNCHANGED <<slots, filled, opened, handles, saved, failed>> /\ cells' = Rows(fed)
      /\ work' = NoWork /\ fed # {} /\ work.current = None
  BY Zenon DEF StepWrite, Grown, vars, tableVars
<1>2. Reliable' = Reliable
  BY <1>1, Zenon DEF Reliable
<1>3. fed \in SUBSET Reliable /\ feed \in [fed -> Values]
  BY <1>0, StepFacts, Zenon DEF StepInv
<1>4. \A r \in Sessions : Written(r)' = filled[r]
  <2>1. work'.current = None /\ work'.grown = {}
    BY <1>1, Zenon DEF NoWork
  <2>. QED BY <1>1, <2>1, StepAssumption, ZenonT(40) DEF Written
<1>5. ASSUME NEW r \in Reliable \ fed PROVE History(r)' = History(r)
  <2>1. Written(r) = filled[r] /\ r \in Sessions
    BY <1>0, <1>1, <1>5, StepAssumption, Zenon DEF Written
  <2>2. ASSUME NEW i \in 1 .. Len(slots[r]), slots[r][i] \in Blocks PROVE cells'[slots[r][i]] = cells[slots[r][i]]
    <3>1. ASSUME NEW s \in fed PROVE slots[s][BlockAt(filled[s])] # slots[r][i]
      <4>1. s \in Sessions /\ Resident(s, BlockAt(filled[s])) /\ refcount[slots[s][BlockAt(filled[s])]] = 1
        BY <1>0, StepFacts, Zenon DEF StepInv
      <4>. QED BY <1>5, <2>1, <4>1, ExclusiveSlot, <1>0, ZenonT(40)
    <3>. QED BY <1>0, <1>1, <2>2, <3>1, RowsIntoOwn, ZenonT(40)
  <2>3. \A i \in 1 .. Len(slots[r]) : RowsOf(r, i)' = RowsOf(r, i)
    BY <1>1, <1>2, <2>2, RowKept, ZenonT(40)
  <2>4. Written(r)' = Written(r)
    BY <1>4, <2>1, Zenon
  <2>. QED BY <1>2, <2>3, <2>4, HistoryKept, Zenon
<1>6. ASSUME NEW s \in fed PROVE History(s)' = Append(History(s), feed[s])
  <2>. DEFINE q == History(s)
              last == filled[s]
              more == <<feed[s]>>
  <2>1. s \in Sessions /\ s \in Reliable /\ last \in Nat /\ last > 0 /\ feed[s] \in Values
    BY <1>0, <1>3, StepFacts, Zenon
  <2>2. Written(s) = last - 1 /\ Written(s)' = last /\ last - 1 \in Nat
    BY <1>4, <2>1 DEF Written
  <2>3. q \in Seq(Read) /\ Len(q) = last - 1 /\ \A t \in 1 .. last - 1 : q[t] = ValueAt(s, t)
    BY <1>0, <2>1, <2>2, Zenon DEF HistoryFact
  <2>4. q' \in Seq(Read) /\ Len(q') = last /\ \A t \in 1 .. last : q'[t] = ValueAt(s, t)'
    BY <1>0, <1>2, <2>1, <2>2, Zenon DEF HistoryFact
  <2>5. \A t \in 1 .. last : ValueAt(s, t)' = IF t = last THEN work.feed[s] ELSE ValueAt(s, t)
    BY <1>2, <2>1, WrittenValues, Zenon
  <2>6. more \in Seq(Read) /\ Len(more) = 1 /\ more[1] = feed[s] /\ feed[s] = work.feed[s]
    BY <2>1 DEF Read
  <2>. HIDE DEF q, more, last, feed
  <2>7. Continues(q', q, more)
    <3>1. Len(q') = Len(q) + Len(more)
      BY <2>1, <2>3, <2>4, <2>6
    <3>2. ASSUME NEW t \in 1 .. Len(q) PROVE q'[t] = q[t]
      <4>1. t \in 1 .. last - 1 /\ t \in 1 .. last /\ t # last
        BY <2>1, <2>3, <3>2
      <4>. QED BY <2>3, <2>4, <2>5, <4>1, Zenon
    <3>3. ASSUME NEW i \in 1 .. Len(more) PROVE q'[Len(q) + i] = more[i]
      <4>1. i = 1 /\ Len(q) + i = last /\ last \in 1 .. last
        BY <2>1, <2>3, <2>6, <3>3
      <4>. QED BY <2>4, <2>5, <2>6, <4>1, Zenon
    <3>. QED BY <3>1, <3>2, <3>3, Zenon DEF Continues
  <2>8. q' = q \o more
    BY <2>3, <2>4, <2>6, <2>7, Continued, ZenonT(40)
  <2>9. q \o <<feed[s]>> = Append(q, feed[s])
    BY <2>1, <2>3, SeqUnit DEF Read
  <2>. QED BY <2>8, <2>9, Zenon DEF q, more
<1>. HIDE DEF fed, feed
<1>. QED BY <1>1, <1>2, <1>3, <1>5, <1>6, FeedStep, Zenon

\* Growing a table and breaking a share change nothing that attention reads.
LEMMA GrowStutters ==
  ASSUME LogicalInv, LogicalInv', NEW s \in Sessions, StepAppend(s)
  PROVE  AbstractStep
<1>. /\ Sound /\ StepInv /\ Reliable \subseteq Sessions /\ FillFitsBlocks
     /\ filled \in [Sessions -> Nat] /\ slots \in [Sessions -> Seq(Slot)]
  BY ReliableSessions, PoolTypes, Zenon DEF LogicalInv, ForwardInv, PoolInv
<1>. /\ work.current = None /\ s \in work.grow /\ AppendTokens(s, 1) /\ UNCHANGED <<cells, saved, failed>>
     /\ work' = [work EXCEPT !.grow = @ \ {s}, !.current = s]
  BY Zenon DEF StepAppend, deviceVars
<1>2. work'.current = s /\ work'.grown = work.grown /\ s \notin work.grown
  BY Zenon DEF StepInv
<1>. /\ \A r \in Sessions \ {s} : slots'[r] = slots[r] /\ filled'[r] = filled[r]
     /\ filled'[s] = filled[s] + 1
     /\ \A j \in 1 .. Len(slots[s]) : slots'[s][j] = slots[s][j]
     /\ UNCHANGED <<opened, handles>>
  BY AppendOneShape, Zenon
<1>4. Len(slots[s]) \in Nat /\ Len(slots'[s]) \in Nat /\ Len(slots[s]) <= Len(slots'[s])
  <2>1. slots' = slots \/ Len(slots'[s]) = Len(slots[s]) + 1
    BY AppendOneShape, Zenon
  <2>. QED BY <2>1, SeqTyped
<1>. Reliable' = Reliable
  BY Zenon DEF Reliable
<1>6. \A r \in Sessions : Written(r)' = Written(r)
  BY <1>2, StepAssumption DEF Written
<1>7. ASSUME NEW r \in Reliable, NEW i \in 1 .. Len(slots[r]) PROVE RowsOf(r, i)' = RowsOf(r, i)
  <2>1. i \in 1 .. Len(slots'[r]) /\ slots'[r][i] = slots[r][i]
    BY <1>4, <1>7
  <2>. QED BY <2>1, RowKept, Zenon
<1>8. \A r \in Reliable : History(r)' = History(r)
  BY <1>6, <1>7, HistoryKept, Zenon
<1>. QED BY <1>8, StutterStep, Zenon

LEMMA WritableStutters ==
  ASSUME LogicalInv, LogicalInv', NEW s \in Sessions, StepWritable(s)
  PROVE  AbstractStep
<1>. DEFINE b == BlockAt(filled[s])
<1>. /\ Sound /\ StepInv /\ Reliable \subseteq Sessions /\ RowsFact /\ RowsFact' /\ free \subseteq Blocks
     /\ cells \in [Blocks -> [Offsets -> Row]]
  BY ReliableSessions, PoolTypes, RowsRead, ReadsNext, Zenon DEF LogicalInv, ForwardInv, PoolInv, DeviceTypeOK
<1>. /\ work.current = s /\ UNCHANGED failed
     /\ work' = [work EXCEPT !.current = None, !.grown = work.grown \cup {s}]
     /\ EnsureWritableExclusive(s, b) \/ EnsureWritableShared(s, b)
  BY Zenon DEF StepWritable
<1>2. work'.current = None /\ work'.grown = work.grown \cup {s}
  BY Zenon DEF StepInv
<1>3. ASSUME UNCHANGED <<opened, filled, handles>>,
             \A r \in Reliable : \A i \in 1 .. Len(slots[r]) : RowsOf(r, i)' = RowsOf(r, i)
      PROVE  AbstractStep
  <2>. USE <1>3
  <2>. Reliable' = Reliable
    BY Zenon DEF Reliable
  <2>2. \A r \in Sessions : Written(r)' = Written(r)
    BY <1>2, StepAssumption, Zenon DEF Written
  <2>3. \A r \in Reliable : History(r)' = History(r)
    BY <2>2, HistoryKept, Zenon
  <2>. QED BY <2>3, StutterStep, Zenon
<1>4. CASE EnsureWritableExclusive(s, b)
  <2>. UNCHANGED <<opened, filled, handles, slots, cells, saved>>
    BY <1>4, Zenon DEF EnsureWritableExclusive, vars, tableVars, deviceVars
  <2>2. Reliable' = Reliable
    BY Zenon DEF Reliable
  <2>3. \A r \in Reliable : \A i \in 1 .. Len(slots[r]) : RowsOf(r, i)' = RowsOf(r, i)
    BY <2>2, RowKept, Zenon
  <2>. QED BY <1>3, <2>3, Zenon
<1>5. CASE EnsureWritableShared(s, b)
  <2>. /\ CowBreak(s, b) /\ UNCHANGED saved
       /\ cells' = [cells EXCEPT ![slots'[s][b]] = cells[slots[s][b]]]
    BY <1>5, Zenon DEF EnsureWritableShared
  <2>. /\ b \in 1 .. Len(slots[s]) /\ slots[s][b] \in Blocks /\ slots'[s][b] \in free
       /\ Len(slots'[s]) = Len(slots[s])
       /\ \A j \in 1 .. Len(slots[s]) : j # b => slots'[s][j] = slots[s][j]
       /\ \A r \in Sessions \ {s} : slots'[r] = slots[r]
       /\ UNCHANGED <<opened, filled, handles>>
    BY CowBreakShape, ZenonT(40)
  <2>. HIDE DEF b
  <2>3. \A p \in Blocks \ free : cells'[p] = cells[p]
    BY Zenon
  <2>. Reliable' = Reliable
    BY Zenon DEF Reliable
  <2>5. ASSUME NEW r \in Reliable, NEW i \in 1 .. Len(slots[r]) PROVE RowsOf(r, i)' = RowsOf(r, i)
    <3>. USE <2>5
    <3>. r \in Sessions
      BY Zenon
    <3>2. CASE r = s /\ i = b
      <4>. USE <3>2
      <4>1. RowsOf(r, i) = cells[slots[r][i]]
        <5>1. slots[r][i] \in Blocks
          BY Zenon
        <5>. QED BY <5>1, RowAt, Zenon
      <4>. slots'[r][i] \in Blocks /\ i \in 1 .. Len(slots'[r]) /\ r \in Reliable'
        BY Zenon
      <4>3. RowsOf(r, i)' = cells'[slots'[r][i]]
        BY RowNext, Zenon
      <4>4. cells'[slots'[r][i]] = cells[slots[r][i]]
        BY Zenon
      <4>. QED BY <4>1, <4>3, <4>4, Zenon
    <3>3. CASE ~(r = s /\ i = b)
      <4>1. i \in 1 .. Len(slots'[r]) /\ slots'[r][i] = slots[r][i]
        BY <3>3, Zenon
      <4>2. slots[r][i] \in Blocks => cells'[slots[r][i]] = cells[slots[r][i]]
        BY <2>3, NamedCounted, Zenon DEF Resident
      <4>. QED BY <4>1, <4>2, RowKept, Zenon
    <3>. QED BY <3>2, <3>3, Zenon
  <2>. QED BY <1>3, <2>5, Zenon
<1>. QED BY <1>4, <1>5, Zenon

\* Beginning a step changes no table and writes nothing.
LEMMA BeginStutters ==
  ASSUME LogicalInv, LogicalInv', NEW feed, BeginStep(feed)
  PROVE  AbstractStep
<1>. /\ Idle /\ work' = [NoWork EXCEPT !.grow = DOMAIN feed, !.feed = feed]
     /\ UNCHANGED <<slots, filled, opened, handles, cells, saved, failed>>
  BY Zenon DEF BeginStep, vars, tableVars, deviceVars
<1>2. work.current = None /\ work.grown = {} /\ work'.current = None /\ work'.grown = {}
  BY Zenon DEF Idle, NoWork
<1>. Reliable' = Reliable /\ Reliable \subseteq Sessions
  BY ReliableSessions, Zenon DEF Reliable
<1>4. \A r \in Sessions : Written(r)' = Written(r)
  BY <1>2, Zenon DEF Written
<1>5. \A r \in Reliable : History(r)' = History(r)
  BY <1>4, Bystander, Zenon
<1>. QED BY <1>5, StutterStep, Zenon

-----------------------------------------------------------------------------
(* The refinement. *)

LEMMA AbstractInit ==
  ASSUME LogicalInv, ForwardInit
  PROVE  Logical!Init
<1>1. opened = {}
  BY Zenon DEF ForwardInit, DeviceInit, Init
<1>. Reliable = {}
  BY <1>1, Zenon DEF Reliable
<1>3. \A s \in Sessions : History(s) = <<>>
  BY HistoryRead, Zenon DEF HistoryFact
<1>4. Histories = [s \in Sessions |-> <<>>]
  BY <1>3, Zenon DEF Histories
<1>. QED BY <1>4, Zenon DEF Logical!Init

LEMMA AbstractNext ==
  ASSUME RegistersWhole, LogicalInv, LogicalInv', [ForwardNext]_forwardVars
  PROVE  AbstractStep
<1>1. CASE Idle /\ (LifecycleStep \/ PrefixUseStep \/ TierStep)
  BY <1>1, LifecycleAbstract, PrefixUseAbstract, TierAbstract, Zenon
<1>2. ASSUME NEW feed, BeginStep(feed) PROVE AbstractStep
  BY <1>2, BeginStutters, Zenon
<1>3. CASE ForwardStep
  BY <1>3, GrowStutters, WritableStutters, WriteFeeds, FailureAbstract, Zenon DEF ForwardStep
<1>4. CASE UNCHANGED forwardVars
  <2>. UNCHANGED <<slots, filled, opened, handles, cells, saved, failed, work>>
    BY <1>4, Zenon DEF forwardVars, vars, tableVars, deviceVars
  <2>. Reliable' = Reliable /\ \A s \in Sessions : Written(s)' = Written(s)
    BY Zenon DEF Reliable, Written
  <2>3. \A s \in Reliable : History(s)' = History(s)
    BY ReliableSessions, Bystander, Zenon
  <2>. QED BY <2>3, StutterStep, Zenon
<1>. QED BY <1>1, <1>2, <1>3, <1>4, Zenon DEF ForwardNext

-----------------------------------------------------------------------------
(* What a driver may rely on. *)

\* A history that an abstract step neither starts nor ends, and that does not grow,
\* keeps every entry.
LEMMA EntriesKept ==
  ASSUME HistoryFact, Reliable \subseteq Sessions, AbstractStep, NEW s \in Reliable, s \in Reliable',
         NEW t \in 1 .. Len(History(s)), Len(History(s)') = Len(History(s))
  PROVE  History(s)'[t] = History(s)[t]
<1>. /\ s \in Sessions /\ \A r \in Sessions : Histories[r] = History(r) /\ Histories'[r] = History(r)'
  BY Zenon DEF Histories
<1>. \A r \in Sessions : History(r) \in Seq(Read)
  <2>1. <<>> \in Seq(Read)
    OBVIOUS
  <2>. QED BY <2>1, Zenon DEF HistoryFact
<1>1. CASE Histories' = Histories
  BY <1>1, Zenon
<1>2. ASSUME NEW fed \in SUBSET Reliable, NEW feed \in [fed -> Values], Logical!Feed(fed, feed)
      PROVE  History(s)' = History(s)
  <2>1. History(s)' = IF s \in fed THEN Append(History(s), feed[s]) ELSE History(s)
    BY <1>2, Zenon DEF Logical!Feed
  <2>2. s \notin fed
    <3>1. SUFFICES ASSUME s \in fed PROVE FALSE
      BY Zenon
    <3>2. Len(Append(History(s), feed[s])) = Len(History(s)) + 1 /\ Len(History(s)) \in Nat
      OBVIOUS
    <3>. QED BY <2>1, <3>1, <3>2
  <2>. QED BY <2>1, <2>2, Zenon
<1>3. ASSUME NEW src \in Sessions, NEW dst \in Sessions, NEW to \in 0 .. Len(History(src)), NEW from \in 0 .. to,
             Logical!Fork(src, dst, from, to)
      PROVE  History(s)'[t] = History(s)[t]
  <2>1. PICK more : more = SubSeq(History(src), from + 1, to)
    BY Zenon
  <2>2. History(s)' = IF s = dst THEN History(s) \o more ELSE History(s)
    BY <1>3, <2>1, Zenon DEF Logical!Fork, Histories
  <2>3. more \in Seq(Read)
    BY <2>1
  <2>4. (History(s) \o more)[t] = History(s)[t]
    BY <2>3
  <2>. QED BY <2>2, <2>4, Zenon
<1>4. ASSUME NEW src \in Sessions, NEW r \in Sessions, NEW to, Logical!StartFrom(src, r, to)
      PROVE  History(s)' = History(s)
  BY <1>4, Zenon DEF Logical!StartFrom, Histories
<1>5. ASSUME NEW gone \in SUBSET Reliable, Logical!End(gone) PROVE History(s)' = History(s)
  BY <1>5, Zenon DEF Logical!End, Histories
<1>6. ASSUME NEW r \in Sessions, Logical!Start(r) PROVE History(s)' = History(s)
  BY <1>6, Zenon DEF Logical!Start
<1>. QED BY <1>1, <1>2, <1>3, <1>4, <1>5, <1>6, ZenonT(40) DEF AbstractStep, Logical!Next, Logical!vars

LEMMA StoredNext ==
  ASSUME LogicalInv, LogicalInv', AbstractStep
  PROVE  Stored
<1>. /\ Sound /\ Ownership /\ StepInv /\ Reliable \subseteq Sessions /\ RowsFact /\ RowsFact' /\ HistoryFact /\ HistoryFact'
  BY ReliableSessions, RowsRead, HistoryRead, ReadsNext, Zenon DEF LogicalInv, ForwardInv, PoolInv
<1>1. StoredKept
  <2>1. SUFFICES ASSUME NEW s \in Reliable, s \in Reliable', Written(s)' = Written(s), NEW t \in 1 .. Written(s)
                 PROVE  ValueAt(s, t)' = ValueAt(s, t)
    BY Zenon DEF StoredKept
  <2>2. Len(History(s)) = Written(s) /\ Len(History(s)') = Written(s)' /\ History(s)[t] = ValueAt(s, t)
    BY <2>1, Zenon DEF HistoryFact
  <2>3. History(s)'[t] = ValueAt(s, t)'
    BY <2>1, Zenon DEF HistoryFact
  <2>. QED BY <2>1, <2>2, <2>3, EntriesKept, Zenon
<1>2. RowsLand
  <2>1. SUFFICES ASSUME StepWrite, NEW s \in Stepping, NEW t \in 1 .. filled[s]
                 PROVE  ValueAt(s, t)' = IF t = filled[s] THEN work.feed[s] ELSE ValueAt(s, t)
    BY Zenon DEF RowsLand
  <2>2. s \in work.grown /\ s \in Reliable /\ s \in Reliable'
    BY <2>1, Zenon DEF StepWrite, Grown, StepInv, Usable, Clients, Reliable, vars, tableVars
  <2>. QED BY <2>1, <2>2, WrittenValues, Zenon
<1>3. PrefixReads
  <2>1. SUFFICES ASSUME NEW x \in prefixes, NEW s \in Sessions, SplicePrefixFrom(x, s), CoreOnly, Idle, s \in Reliable,
                        filled[s] = 0, NEW t \in 1 .. filled[x.owner]
                 PROVE  ValueAt(s, t)' = ValueAt(x.owner, t)
    BY Zenon DEF PrefixReads
  <2>2. PICK o, i, from : o = x.owner /\ i = BlockAt(t) /\ from = 0
    BY Zenon
  <2>3. /\ Share(o, s, from, x.blocks) /\ UNCHANGED <<cells, work, handles, opened, failed>>
        /\ slots[s] = <<>> /\ Len(slots[s]) = 0
    BY <2>1, <2>2, ZenonT(40) DEF SplicePrefixFrom, SplicePrefix, CoreOnly, deviceVars
  <2>4. /\ o \in Sessions /\ o \in Reliable /\ s \in Reliable' /\ x.blocks \in Nat /\ from \in Nat
        /\ Len(slots[o]) = x.blocks
    BY <2>1, <2>2, <2>3, PoolTypes DEF LogicalInv, ForwardInv, StepInv, Clients, Owners, Reliable, Ownership, PrefixWhole
  <2>5. i \in 1 .. x.blocks
    <3>1. Written(o) = filled[o]
      BY <2>1, <2>4, IdleWritten, ZenonT(40)
    <3>. QED BY <2>1, <2>2, <2>4, <3>1, Zenon DEF HistoryFact
  <2>6. Len(slots'[s]) = x.blocks /\ slots'[s][i] = slots[o][i] /\ slots[o][i] \in Blocks
    <3>1. /\ Len(slots'[s]) = Len(slots[s]) + (x.blocks - from) /\ \A j \in from + 1 .. x.blocks : slots[o][j] \in Blocks
          /\ \A k \in 1 .. x.blocks - from : slots'[s][Len(slots[s]) + k] = slots[o][from + k]
      BY <2>1, <2>3, <2>4, ShareShape, ZenonT(40)
    <3>2. Len(slots[s]) + i = i /\ from + i = i /\ i \in 1 .. x.blocks - from /\ i \in from + 1 .. x.blocks
      BY <2>2, <2>3, <2>4, <2>5
    <3>3. Len(slots[s]) + (x.blocks - from) = x.blocks
      BY <2>2, <2>3, <2>4
    <3>. QED BY <3>1, <3>2, <3>3, Zenon
  <2>7. RowsOf(o, i) = cells[slots[o][i]]
    BY <2>4, <2>5, <2>6, RowAt, Zenon
  <2>8. RowsOf(s, i)' = cells'[slots'[s][i]]
    BY <2>4, <2>5, <2>6, RowNext, Zenon
  <2>9. RowsOf(s, BlockAt(t))' = RowsOf(o, BlockAt(t))
    BY <2>2, <2>3, <2>6, <2>7, <2>8, Zenon
  <2>. QED BY <2>2, <2>9, ZenonT(40) DEF ValueAt
<1>. QED BY <1>1, <1>2, <1>3, Zenon DEF Stored
=============================================================================
