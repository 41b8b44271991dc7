------------------------------ MODULE EncoderProofs ------------------------------
(***************************************************************************)
(* For any file, anchors, threads, wiring and sizes: what the encoders of  *)
(* src/dedup write is at any time a prefix of the file, decoded, and all   *)
(* of it when the threads have returned, each content once and otherwise   *)
(* fingerprints; a chunk Reorder waits for is on its way, and the stages'  *)
(* arrays suffice.                                                         *)
(***************************************************************************)
EXTENDS Encoder, TLAPS, SequenceTheorems, FiniteSetTheorems, WellFoundedInduction

---------------------------------------------------------------------------------
(* The cut of the file *)

LEMMA Minimum ==
    ASSUME NEW T \in SUBSET Nat, T # {}
    PROVE  \E m \in T : \A n \in T : m <= n
<1>1. PICK m \in T : \A n \in T : <<n, m>> \notin OpToRel(<, Nat)
  BY NatLessThanWellFounded, WFMin
<1>2. \A n \in T : ~(n < m)
  BY <1>1 DEF OpToRel
<1>. QED BY <1>2

Step0 == [read |-> 0, from |-> 1, cuts |-> <<>>]

\* g is the scan up to iteration n.
Scans(g, n) == g = [k \in 0..n |-> IF k = 0 THEN Step0 ELSE Iterate(g[k - 1])]

\* Every number of iterations has a scan: otherwise take the least that has none.
LEMMA ScanExists == \A n \in Nat : \E g : Scans(g, n)
<1> DEFINE none == {n \in Nat : ~ \E g : Scans(g, n)}
<1>1. SUFFICES ASSUME none # {} PROVE FALSE
  OBVIOUS
<1>2. PICK n \in none : \A m \in none : n <= m
  <2>1. none \in SUBSET Nat
    OBVIOUS
  <2>. QED BY <1>1, <2>1, Minimum
<1>3. n \in Nat /\ ~ \E g : Scans(g, n)
  OBVIOUS
<1>4. CASE n = 0
  <2>1. Scans([k \in 0..0 |-> Step0], 0)
    BY DEF Scans
  <2>. QED BY <1>3, <1>4, <2>1
<1>5. CASE n # 0
  <2>1. n - 1 \in Nat /\ n - 1 \notin none
    BY <1>2, <1>3, <1>5
  <2>2. PICK g : Scans(g, n - 1)
    BY <2>1
  <2> DEFINE h == [k \in 0..n |-> IF k = n THEN Iterate(g[n - 1]) ELSE g[k]]
  <2>3. Scans(h, n)
    <3>1. DOMAIN g = 0..n-1 /\ \A k \in 0..n-1 : g[k] = IF k = 0 THEN Step0 ELSE Iterate(g[k - 1])
      BY <2>2 DEF Scans
    <3>2. ASSUME NEW k \in 0..n PROVE h[k] = IF k = 0 THEN Step0 ELSE Iterate(h[k - 1])
      <4>1. CASE k = n
        BY <1>3, <1>5, <4>1
      <4>2. CASE k # n
        <5>1. k \in 0..n-1
          BY <1>3, <4>2
        <5>2. CASE k = 0
          BY <3>1, <4>2, <5>1, <5>2
        <5>3. CASE k # 0
          <6>1. k - 1 \in 0..n /\ k - 1 # n
            BY <1>3, <5>1, <5>3
          <6>. QED BY <3>1, <4>2, <5>1, <5>3, <6>1
        <5>. QED BY <5>2, <5>3
      <4>. QED BY <4>1, <4>2
    <3>3. h = [k \in 0..n |-> h[k]]
      OBVIOUS
    <3> HIDE DEF h
    <3>. QED BY <3>2, <3>3 DEF Scans
  <2>. QED BY <1>3, <2>3
<1>. QED BY <1>4, <1>5

LEMMA ScanDefined ==
    /\ Iterations \in Nat /\ Len(File) \in Nat /\ DOMAIN Scan = 0..Iterations
    /\ Scan[0] = Step0
    /\ \A k \in 1..Iterations : Scan[k] = Iterate(Scan[k - 1])
<1>1. Len(File) \in Nat /\ Iterations \in Nat
  BY ChunkingAssumption, LenProperties DEF Iterations
<1>2. \E g : Scans(g, Iterations)
  BY <1>1, ScanExists
<1>3. Scans(Scan, Iterations)
  <2>1. Scan = CHOOSE g : Scans(g, Iterations)
    BY DEF Scan, Scans, Step0
  <2>. QED BY <1>2, <2>1
<1>. QED BY <1>1, <1>3 DEF Scans

(***************************************************************************)
(* cuts are the chunks of the first n contents of the file, and chunk i    *)
(* begins behind the first start[i] of them.                               *)
(***************************************************************************)
Covers(cuts, n, start) ==
    /\ start \in [1..Len(cuts) + 1 -> 0..Len(File)]
    /\ start[1] = 0 /\ start[Len(cuts) + 1] = n
    /\ \A i \in 1..Len(cuts) :
          /\ cuts[i].l1 = i - 1
          /\ start[i + 1] = start[i] + Len(cuts[i].data)
          /\ \A j \in 1..Len(cuts[i].data) : cuts[i].data[j] = File[start[i] + j]

Reached == [read : Nat, from : Nat, cuts : Seq(Coarse)]

\* What holds after k iterations: there is progress until all is cut.
Scanned(s, k) ==
    /\ s \in Reached
    /\ s.read <= Len(File) /\ s.from \in 1..s.read + 1
    /\ \E start : Covers(s.cuts, s.from - 1, start)
    /\ s.from = Len(File) + 1 \/ s.read + s.from - 1 >= k

LEMMA FileFacts ==
    /\ Len(File) \in Nat \ {0} /\ DOMAIN File = 1..Len(File)
    /\ \A i \in 1..Len(File) : File[i] \in Contents
<1>1. File \in Seq(STRING) /\ File # <<>>
  BY ChunkingAssumption
<1>. QED BY <1>1, LenProperties, EmptySeq DEF Contents

LEMMA CopyFacts ==
    ASSUME NEW f \in Nat \ {0}, NEW to \in Nat, f <= to, to <= Len(File)
    PROVE  /\ SubSeq(File, f, to) \in Seq(Contents) /\ Len(SubSeq(File, f, to)) = to - f + 1
           /\ \A j \in 1..Len(SubSeq(File, f, to)) : SubSeq(File, f, to)[j] = File[f - 1 + j]
<1>1. \A i \in f..to : File[i] \in Contents
  BY FileFacts
<1>2. f \in Int /\ to \in Int
  OBVIOUS
<1>3. /\ SubSeq(File, f, to) \in Seq(Contents)
      /\ Len(SubSeq(File, f, to)) = IF f <= to THEN to - f + 1 ELSE 0
      /\ \A i \in 1..to - f + 1 : SubSeq(File, f, to)[i] = File[f + i - 1]
  BY <1>1, <1>2, SubSeqProperties
<1>4. \A j \in 1..to - f + 1 : f + j - 1 = f - 1 + j
  OBVIOUS
<1>. QED BY <1>3, <1>4

LEMMA CutKeeps ==
    ASSUME NEW s \in Reached, s.read <= Len(File), s.from \in 1..s.read + 1,
           NEW to \in s.from..s.read, NEW start, Covers(s.cuts, s.from - 1, start)
    PROVE  /\ CutAt(s, to) \in Reached
           /\ CutAt(s, to).read = s.read /\ CutAt(s, to).from = to + 1
           /\ \E new : Covers(CutAt(s, to).cuts, to, new)
<1> DEFINE m == Len(s.cuts)
           data == SubSeq(File, s.from, to)
           chunk == [l1 |-> m, data |-> data]
           cuts == Append(s.cuts, chunk)
           new == [i \in 1..m + 2 |-> IF i = m + 2 THEN to ELSE start[i]]
<1>1. /\ s.read \in Nat /\ s.from \in Nat \ {0} /\ s.cuts \in Seq(Coarse) /\ m \in Nat
      /\ to \in Nat /\ to <= Len(File) /\ s.from <= to
  BY FileFacts, LenProperties DEF Reached
<1>2. /\ data \in Seq(Contents) /\ Len(data) = to - s.from + 1
      /\ \A j \in 1..Len(data) : data[j] = File[s.from - 1 + j]
  BY <1>1, CopyFacts
<1> HIDE DEF data
<1>3. chunk \in Coarse
  <2>1. data # <<>>
    BY <1>1, <1>2, EmptySeq
  <2>. QED BY <1>1, <1>2, <2>1 DEF Coarse
<1>4. /\ cuts \in Seq(Coarse) /\ Len(cuts) = m + 1 /\ cuts[m + 1] = chunk
      /\ \A i \in 1..m : cuts[i] = s.cuts[i]
  BY <1>1, <1>3, AppendProperties
<1>6. /\ CutAt(s, to) \in Reached
      /\ CutAt(s, to).read = s.read /\ CutAt(s, to).from = to + 1 /\ CutAt(s, to).cuts = cuts
  <2>1. Chunk(s, to) = chunk
    BY DEF Chunk, data
  <2>2. CutAt(s, to) = [read |-> s.read, from |-> to + 1, cuts |-> cuts]
    BY <2>1 DEF CutAt
  <2> HIDE DEF cuts
  <2>. QED BY <1>1, <1>4, <2>2 DEF Reached
<1>7. /\ start \in [1..m + 1 -> 0..Len(File)] /\ start[1] = 0 /\ start[m + 1] = s.from - 1
      /\ \A i \in 1..m : /\ s.cuts[i].l1 = i - 1
                         /\ start[i + 1] = start[i] + Len(s.cuts[i].data)
                         /\ \A j \in 1..Len(s.cuts[i].data) : s.cuts[i].data[j] = File[start[i] + j]
  BY DEF Covers
<1>8. chunk.l1 = m /\ chunk.data = data
  OBVIOUS
<1> HIDE DEF m, cuts, chunk
<1>9. /\ new \in [1..m + 2 -> 0..Len(File)] /\ new[m + 2] = to
      /\ \A i \in 1..m + 1 : new[i] = start[i]
  <2>1. \A i \in 1..m + 2 : i # m + 2 => i \in 1..m + 1
    BY <1>1
  <2>2. to \in 0..Len(File) /\ m + 2 \in 1..m + 2
    BY <1>1, FileFacts
  <2>. QED BY <1>1, <1>7, <2>1, <2>2
<1> HIDE DEF new
<1>10. ASSUME NEW i \in 1..m + 1
       PROVE  /\ cuts[i].l1 = i - 1
              /\ new[i + 1] = new[i] + Len(cuts[i].data)
              /\ \A j \in 1..Len(cuts[i].data) : cuts[i].data[j] = File[new[i] + j]
  <2>1. CASE i = m + 1
    <3>1. cuts[i].l1 = i - 1 /\ cuts[i].data = data
      BY <1>1, <1>4, <1>8, <2>1
    <3>2. new[i] = s.from - 1 /\ new[i + 1] = to
      BY <1>1, <1>7, <1>9, <2>1
    <3>3. Len(cuts[i].data) = to - s.from + 1 /\ \A j \in 1..Len(data) : cuts[i].data[j] = File[s.from - 1 + j]
      BY <1>2, <3>1
    <3>4. new[i + 1] = new[i] + Len(cuts[i].data)
      BY <1>1, <3>2, <3>3
    <3>5. \A j \in 1..Len(cuts[i].data) : cuts[i].data[j] = File[new[i] + j]
      BY <1>2, <3>1, <3>2
    <3>. QED BY <3>1, <3>4, <3>5
  <2>2. CASE i # m + 1
    <3>1. i \in 1..m /\ i + 1 \in 1..m + 1
      BY <1>1, <2>2
    <3>2. cuts[i] = s.cuts[i] /\ new[i] = start[i] /\ new[i + 1] = start[i + 1]
      BY <1>4, <1>9, <3>1
    <3>. QED BY <1>7, <3>1, <3>2
  <2>. QED BY <2>1, <2>2
<1>11. Covers(cuts, to, new)
  <2>1. Len(cuts) = m + 1 /\ Len(cuts) + 1 = m + 2
    BY <1>1, <1>4
  <2>2. new[1] = 0
    BY <1>1, <1>7, <1>9
  <2>. QED BY <1>9, <1>10, <2>1, <2>2 DEF Covers
<1>. QED BY <1>6, <1>11

LEMMA IterateKeeps ==
    ASSUME NEW s, NEW k \in Nat, Scanned(s, k)
    PROVE  Scanned(Iterate(s), k + 1)
<1>1. /\ s \in Reached /\ s.read \in Nat /\ s.from \in Nat /\ s.from \in 1..s.read + 1
      /\ s.from >= 1 /\ s.from <= s.read + 1 /\ s.cuts \in Seq(Coarse)
      /\ s.read <= Len(File) /\ Len(File) \in Nat /\ MaxBuf \in Nat \ {0} /\ AnchorJump \in Nat
      /\ s.from = Len(File) + 1 \/ s.read + s.from - 1 >= k
  BY FileFacts, ChunkingAssumption DEF Scanned, Reached
<1>2. PICK start : Covers(s.cuts, s.from - 1, start)
  BY DEF Scanned
<1>3. ASSUME NEW to \in s.from..s.read, Iterate(s) = CutAt(s, to)
      PROVE  Scanned(Iterate(s), k + 1)
  <2>1. /\ CutAt(s, to) \in Reached
        /\ CutAt(s, to).read = s.read /\ CutAt(s, to).from = to + 1
        /\ \E new : Covers(CutAt(s, to).cuts, to, new)
    BY <1>1, <1>2, CutKeeps
  <2>2. \A r, f \in Nat : /\ to \in f..r /\ f >= 1 /\ (f = Len(File) + 1 \/ r + f - 1 >= k)
                          /\ r <= Len(File)
                          => /\ to + 1 - 1 = to /\ to + 1 \in 1..r + 1 /\ r + (to + 1) - 1 >= k + 1
    BY <1>1
  <2>3. to + 1 - 1 = to /\ to + 1 \in 1..s.read + 1 /\ s.read + (to + 1) - 1 >= k + 1
    BY <1>1, <2>2
  <2>. QED BY <1>1, <1>3, <2>1, <2>3 DEF Scanned
<1>4. CASE Found(s) # {}
  <2>1. Found(s) \in SUBSET Nat /\ \A a \in Found(s) : s.from <= a /\ a <= s.read
    <3>1. Anchors \subseteq Nat
      BY ChunkingAssumption
    <3>2. ASSUME NEW a \in Found(s) PROVE a \in Nat /\ s.from <= a /\ a <= s.read
      <4>1. a \in Nat /\ s.from + AnchorJump <= a /\ a < s.read
        BY <3>1 DEF Found
      <4>2. \A r, f, b, j \in Nat : f + j <= b /\ b < r => f <= b /\ b <= r
        OBVIOUS
      <4>. QED BY <1>1, <4>1, <4>2
    <3>. QED BY <3>2
  <2>2. Earliest(Found(s)) \in Found(s)
    BY <1>4, <2>1, Minimum DEF Earliest
  <2>3. Earliest(Found(s)) \in s.from..s.read
    BY <1>1, <2>1, <2>2
  <2>4. Iterate(s) = CutAt(s, Earliest(Found(s)))
    BY <1>4 DEF Iterate
  <2>. QED BY <1>3, <2>3, <2>4
<1>5. CASE Found(s) = {} /\ s.read < Len(File)
  <2>1. PICK n : n = IF s.read + MaxBuf < Len(File) THEN s.read + MaxBuf ELSE Len(File)
    OBVIOUS
  <2>2. n \in Nat /\ n <= Len(File) /\ n >= s.read + 1
    <3>1. \A r, m, len \in Nat :
             m # 0 /\ r < len /\ n = (IF r + m < len THEN r + m ELSE len)
             => n \in Nat /\ n <= len /\ n >= r + 1
      OBVIOUS
    <3>. QED BY <1>1, <1>5, <2>1, <3>1
  <2>3. Iterate(s) = [s EXCEPT !.read = n]
    BY <1>5, <2>1 DEF Iterate
  <2>4. /\ Iterate(s) \in Reached /\ Iterate(s).read = n
        /\ Iterate(s).from = s.from /\ Iterate(s).cuts = s.cuts
    BY <1>1, <2>2, <2>3 DEF Reached
  <2>5. s.from \in 1..n + 1 /\ (s.from = Len(File) + 1 \/ n + s.from - 1 >= k + 1)
    <3>1. \A r, f, m, len \in Nat :
             /\ m >= r + 1 /\ f >= 1 /\ f <= r + 1 /\ (f = len + 1 \/ r + f - 1 >= k)
             => f \in 1..m + 1 /\ (f = len + 1 \/ m + f - 1 >= k + 1)
      OBVIOUS
    <3>. QED BY <1>1, <2>2, <3>1
  <2>. QED BY <1>2, <2>2, <2>4, <2>5 DEF Scanned
<1>6. CASE Found(s) = {} /\ s.read = Len(File) /\ s.from <= s.read
  <2>1. Iterate(s) = CutAt(s, s.read)
    BY <1>1, <1>6 DEF Iterate
  <2>2. s.read \in s.from..s.read
    BY <1>1, <1>6
  <2>. QED BY <1>3, <2>1, <2>2
<1>7. CASE Found(s) = {} /\ s.read = Len(File) /\ ~(s.from <= s.read)
  <2>1. Iterate(s) = s
    BY <1>1, <1>7 DEF Iterate
  <2>2. s.from = Len(File) + 1
    BY <1>1, <1>7
  <2>. QED BY <1>1, <1>2, <2>1, <2>2 DEF Scanned
<1>. QED BY <1>1, <1>4, <1>5, <1>6, <1>7

LEMMA ScanKeeps == \A k \in 0..Iterations : Scanned(Scan[k], k)
<1> DEFINE bad == {k \in 0..Iterations : ~Scanned(Scan[k], k)}
<1>1. SUFFICES ASSUME bad # {} PROVE FALSE
  OBVIOUS
<1>2. PICK k \in bad : \A m \in bad : k <= m
  <2>1. bad \in SUBSET Nat
    BY ScanDefined
  <2>. QED BY <1>1, <2>1, Minimum
<1>3. k \in 0..Iterations /\ ~Scanned(Scan[k], k) /\ Iterations \in Nat
  BY ScanDefined
<1>4. CASE k = 0
  <2>1. Scan[k] = Step0
    BY <1>4, ScanDefined
  <2>2. /\ Step0 \in Reached /\ Step0.read = 0 /\ Step0.from = 1 /\ Step0.cuts = <<>>
        /\ Len(<<>>) = 0
    BY EmptySeq DEF Step0, Reached
  <2>3. Covers(<<>>, 0, [i \in 1..1 |-> 0])
    BY FileFacts, <2>2 DEF Covers
  <2>4. Len(File) \in Nat /\ 1 \in 1..0+1 /\ 1 - 1 = 0 /\ 0 + 1 - 1 >= 0
    BY FileFacts
  <2>. QED BY <1>3, <1>4, <2>1, <2>2, <2>3, <2>4 DEF Scanned
<1>5. CASE k # 0
  <2>1. k - 1 \in 0..Iterations /\ k - 1 \in Nat /\ k - 1 \notin bad /\ k \in 1..Iterations
    BY <1>2, <1>3, <1>5
  <2>2. Scanned(Scan[k - 1], k - 1)
    BY <2>1
  <2>3. Scanned(Iterate(Scan[k - 1]), k - 1 + 1)
    BY <2>1, <2>2, IterateKeeps
  <2>4. k - 1 + 1 = k /\ Scan[k] = Iterate(Scan[k - 1])
    BY <1>3, <2>1, ScanDefined
  <2>. QED BY <1>3, <2>3, <2>4
<1>. QED BY <1>4, <1>5

Cuts == FragmentNumbers

\* The coarse chunks are numbered in order, and one after the other they make up the file
\* (encode_naive_queue.cpp: the loop of FragmentNumbers, whatever the anchors and the buffers).
THEOREM CutsMakeTheFile ==
    /\ Cuts \in Seq(Coarse)
    /\ \E start : Covers(Cuts, Len(File), start)
<1>1. Iterations = 2 * Len(File) /\ Iterations \in 0..Iterations /\ Len(File) \in Nat
  BY ScanDefined DEF Iterations
<1>2. Scanned(Scan[Iterations], Iterations)
  BY <1>1, ScanKeeps
<1> DEFINE s == Scan[Iterations]
<1> HIDE DEF s
<1>3. /\ s.cuts \in Seq(Coarse) /\ s.read \in Nat /\ s.read <= Len(File) /\ s.from \in 1..s.read + 1
      /\ \E start : Covers(s.cuts, s.from - 1, start)
      /\ s.from = Len(File) + 1 \/ s.read + s.from - 1 >= Iterations
  BY <1>2 DEF s, Scanned, Reached
<1>4. s.from - 1 = Len(File)
  BY <1>1, <1>3
<1>. QED BY <1>3, <1>4 DEF s, Cuts, FragmentNumbers
---------------------------------------------------------------------------------
(***************************************************************************)
(* The inductive invariant.  A chunk is genuine when it has the place, the *)
(* content and the last-of-its-coarse-chunk mark the serial cut gives it;  *)
(* isDuplicate is up to the interleaving.                                  *)
(***************************************************************************)
Start == CHOOSE start : Covers(Cuts, Len(File), start)
FineIn(l1) == Len(Cuts[l1 + 1].data)

CoarseChunks == {Cuts[i] : i \in 1..Len(Cuts)}
FineChunks == {c \in Fine : /\ c.l1 + 1 \in 1..Len(Cuts) /\ c.l2 + 1 \in 1..FineIn(c.l1)
                            /\ c.data = Cuts[c.l1 + 1].data[c.l2 + 1]
                            /\ c.last <=> c.l2 + 1 = FineIn(c.l1)}
Genuine(q) == IF q \in CoarseQueues THEN CoarseChunks ELSE FineChunks
InNode(l1) == {c \in FineChunks : c.l1 = l1}

Buffer == Seq(Coarse) \cup Seq(Fine)
Buffers == [Threads -> [Queues -> Buffer]]

QueueOK == /\ queue \in [Queues -> Buffer] /\ capacity \in Nat \ {0}
           /\ \A q \in Queues : queue[q] \in Seq(Genuine(q)) /\ Len(queue[q]) <= capacity
Filled(f) == f \in Buffers /\ \A t \in Threads, q \in Queues : f[t][q] \in Seq(Genuine(q))
SendOK == Filled(send)
RecvOK == /\ Filled(recv)
          /\ \A t \in Threads \ Refiners, q \in CoarseQueues : recv[t][q] = <<>>
HandOK == /\ inHand \in [Threads -> Buffer]
          /\ \A t \in Threads :
                inHand[t] \in IF t = Fragmenter THEN Seq(CoarseChunks) ELSE Seq(FineChunks)
TurnOK == /\ turn \in [{Fragmenter, Reorderer} -> Nat]
          /\ turn[Fragmenter] \in DOMAIN Outputs[Fragmenter]
          /\ turn[Reorderer] \in DOMAIN Inputs[Reorderer]
Label == {"barrier", "run", "leave", "flush", "mismatch", "done"}
PcOK == pc \in [Threads -> Label] /\ todo \in [Threads -> Seq(Operations)] /\ encoder \in Encoders

Stages == QueueOK /\ SendOK /\ RecvOK /\ HandOK /\ TurnOK /\ PcOK

\* What Reorder caches, counts and holds
TreeOK(tr) == \A l1 \in DOMAIN tr : l1 \in Nat /\ tr[l1] \in Seq(InNode(l1)) /\ tr[l1] # <<>>
AnchorsOK(counts) == \A l1 \in DOMAIN counts : l1 + 1 \in 1..Len(Cuts) /\ counts[l1] = FineIn(l1)
HoldOK == hold = <<>> \/ \E c \in FineChunks : hold = <<c>> /\ InSequence(c)
Cache == TreeOK(tree) /\ AnchorsOK(perAnchor) /\ HoldOK

\* What is written is the file up to the place of the next chunk.
Written == /\ next \in [l1 : Nat, l2 : Nat] /\ next.l1 + 1 \in 1..Len(Cuts) + 1
           /\ archive \in Seq([fingerprint : BOOLEAN, data : Contents])
           /\ Len(archive) = Start[next.l1 + 1] + next.l2
           /\ Len(archive) <= Len(File)
           /\ \A i \in 1..Len(archive) : archive[i].data = File[i]

\* Flushed contents are in the archive with their data, and so are those fingerprints stand for.
Traced == /\ state \in [Contents -> {"absent", "uncompressed", "compressed", "flushed"}]
          /\ \A c \in Contents : state[c] = "flushed" =>
                \E j \in 1..Len(archive) : ~archive[j].fingerprint /\ archive[j].data = c
          /\ FingerprintsFollowData

Inv == Stages /\ Cache /\ Written /\ Traced

LEMMA CutFacts ==
    /\ Cuts \in Seq(Coarse) /\ Len(Cuts) \in Nat /\ Len(File) \in Nat
    /\ \A i \in 1..Len(Cuts) :
          /\ Cuts[i] \in Coarse /\ Cuts[i].l1 = i - 1
          /\ Cuts[i].data \in Seq(Contents) /\ Len(Cuts[i].data) \in Nat \ {0}
    /\ Start \in [1..Len(Cuts) + 1 -> 0..Len(File)] /\ Start[1] = 0
    /\ Start[Len(Cuts) + 1] = Len(File)
    /\ \A i \in 1..Len(Cuts) :
          /\ Start[i + 1] = Start[i] + Len(Cuts[i].data)
          /\ \A j \in 1..Len(Cuts[i].data) : Cuts[i].data[j] = File[Start[i] + j]
<1>1. Cuts \in Seq(Coarse) /\ Len(Cuts) \in Nat /\ Len(File) \in Nat
  BY CutsMakeTheFile, FileFacts, LenProperties
<1>2. Covers(Cuts, Len(File), Start)
  BY CutsMakeTheFile DEF Start
<1>3. ASSUME NEW i \in 1..Len(Cuts)
      PROVE  /\ Cuts[i] \in Coarse /\ Cuts[i].data \in Seq(Contents)
             /\ Len(Cuts[i].data) \in Nat \ {0}
  <2>1. Cuts[i] \in Coarse
    BY <1>1, ElementOfSeq
  <2>2. Cuts[i].data \in Seq(Contents) /\ Cuts[i].data # <<>>
    BY <2>1 DEF Coarse
  <2>. QED BY <2>1, <2>2, EmptySeq
<1>. QED BY <1>1, <1>2, <1>3 DEF Covers

LEMMA Kinds ==
    /\ CoarseChunks \subseteq Coarse /\ FineChunks \subseteq Fine
    /\ \A q : Genuine(q) \subseteq IF q \in CoarseQueues THEN Coarse ELSE Fine
    /\ Seq(CoarseChunks) \subseteq Buffer /\ Seq(FineChunks) \subseteq Buffer
    /\ \A q : Seq(Genuine(q)) \subseteq Buffer /\ Seq(Genuine(q)) \subseteq Packets(q)
    /\ \A q : <<>> \in Seq(Genuine(q))
    /\ \A l1 : InNode(l1) \subseteq FineChunks
<1>1. CoarseChunks \subseteq Coarse /\ FineChunks \subseteq Fine
  BY CutFacts DEF CoarseChunks, FineChunks
<1>2. \A q : Genuine(q) \subseteq IF q \in CoarseQueues THEN Coarse ELSE Fine
  BY <1>1 DEF Genuine
<1>3. Seq(CoarseChunks) \subseteq Seq(Coarse) /\ Seq(FineChunks) \subseteq Seq(Fine)
  BY <1>1, SeqMonotonic
<1>4. \A q : Seq(Genuine(q)) \subseteq IF q \in CoarseQueues THEN Seq(Coarse) ELSE Seq(Fine)
  BY <1>3 DEF Genuine
<1>5. \A q : <<>> \in Seq(Genuine(q))
  BY EmptySeq
<1>. QED BY <1>1, <1>2, <1>3, <1>4, <1>5 DEF Buffer, Packets, InNode
---------------------------------------------------------------------------------
(* Sequences, buffers, wiring *)

LEMMA Pieces ==
    ASSUME NEW S, NEW s \in Seq(S), NEW n \in Nat, n <= Len(s)
    PROVE  /\ First(n, s) \in Seq(S) /\ Len(First(n, s)) = n
           /\ \A i \in 1..n : First(n, s)[i] = s[i]
           /\ Rest(n, s) \in Seq(S) /\ Len(Rest(n, s)) = Len(s) - n
           /\ \A i \in 1..Len(s) - n : Rest(n, s)[i] = s[n + i]
<1>1. Len(s) \in Nat /\ \A i \in 1..Len(s) : s[i] \in S
  BY LenProperties, ElementOfSeq
<1>2. First(n, s) \in Seq(S) /\ Len(First(n, s)) = n /\ \A i \in 1..n : First(n, s)[i] = s[i]
  <2>1. \A i \in 1..n : s[i] \in S
    BY <1>1
  <2>2. /\ SubSeq(s, 1, n) \in Seq(S)
        /\ Len(SubSeq(s, 1, n)) = IF 1 <= n THEN n - 1 + 1 ELSE 0
        /\ \A i \in 1..n - 1 + 1 : SubSeq(s, 1, n)[i] = s[1 + i - 1]
    BY <2>1, SubSeqProperties
  <2>. QED BY <2>2 DEF First
<1>3. /\ Rest(n, s) \in Seq(S) /\ Len(Rest(n, s)) = Len(s) - n
      /\ \A i \in 1..Len(s) - n : Rest(n, s)[i] = s[n + i]
  <2>1. \A i \in n + 1..Len(s) : s[i] \in S
    BY <1>1
  <2>2. /\ SubSeq(s, n + 1, Len(s)) \in Seq(S)
        /\ Len(SubSeq(s, n + 1, Len(s))) = IF n + 1 <= Len(s) THEN Len(s) - (n + 1) + 1 ELSE 0
        /\ \A i \in 1..Len(s) - (n + 1) + 1 : SubSeq(s, n + 1, Len(s))[i] = s[n + 1 + i - 1]
    BY <1>1, <2>1, SubSeqProperties
  <2>3. Len(s) - (n + 1) + 1 = Len(s) - n /\ \A i \in 1..Len(s) - n : n + 1 + i - 1 = n + i
    BY <1>1
  <2>4. ~(n + 1 <= Len(s)) => Len(s) - n = 0
    BY <1>1
  <2> DEFINE r == SubSeq(s, n + 1, Len(s))
  <2>5. /\ r \in Seq(S) /\ Len(r) = IF n + 1 <= Len(s) THEN Len(s) - (n + 1) + 1 ELSE 0
        /\ \A i \in 1..Len(s) - (n + 1) + 1 : r[i] = s[n + 1 + i - 1]
    BY <2>2
  <2>8. r = Rest(n, s)
    BY DEF Rest
  <2> HIDE DEF r
  <2>6. r \in Seq(S) /\ Len(r) = Len(s) - n
    <3>1. CASE n + 1 <= Len(s)
      BY <2>3, <2>5, <3>1
    <3>2. CASE ~(n + 1 <= Len(s))
      BY <2>4, <2>5, <3>2
    <3>. QED BY <3>1, <3>2

  <2>7. ASSUME NEW i \in 1..Len(s) - n PROVE r[i] = s[n + i]
    <3>1. i \in 1..Len(s) - (n + 1) + 1 /\ n + 1 + i - 1 = n + i
      BY <1>1
    <3>. QED BY <2>5, <3>1

  <2>. QED BY <2>6, <2>7, <2>8
<1>. QED BY <1>2, <1>3

\* One buffer of one thread is replaced.
Replaced(f, g, t, q, e) ==
    \A u \in Threads, r \in Queues : g[u][r] = IF u = t /\ r = q THEN e ELSE f[u][r]

LEMMA BufferUpdate ==
    ASSUME NEW f, Filled(f), NEW t \in Threads, NEW q \in Queues, NEW e \in Seq(Genuine(q)),
           NEW g, g = [f EXCEPT ![t][q] = e]
    PROVE  Filled(g) /\ Replaced(f, g, t, q, e)
<1>0. f \in Buffers /\ \A u \in Threads, r \in Queues : f[u][r] \in Seq(Genuine(r))
  BY DEF Filled
<1>1. e \in Buffer
  BY Kinds
<1>2. \A u \in Threads : f[u] \in [Queues -> Buffer]
  BY <1>0 DEF Buffers
<1>3. g = [f EXCEPT ![t] = [f[t] EXCEPT ![q] = e]]
  OBVIOUS
<1>4. [f[t] EXCEPT ![q] = e] \in [Queues -> Buffer]
  BY <1>1, <1>2
<1>5. g \in Buffers
  BY <1>0, <1>3, <1>4 DEF Buffers
<1>6. \A u \in Threads, r \in Queues : g[u][r] = IF u = t /\ r = q THEN e ELSE f[u][r]
  BY <1>0, <1>2, <1>3 DEF Buffers
<1>7. \A u \in Threads, r \in Queues : g[u][r] \in Seq(Genuine(r))
  BY <1>0, <1>6
<1>. QED BY <1>5, <1>6, <1>7 DEF Filled, Replaced

LEMMA Wired ==
    /\ \A t \in Threads : /\ \A i \in DOMAIN Inputs[t] : Inputs[t][i] \in Queues
                          /\ \A i \in DOMAIN Outputs[t] : Outputs[t][i] \in Queues
                          /\ \A i \in DOMAIN Extras[t] : Extras[t][i] \in Queues
    /\ Fragmenter \in Threads /\ Reorderer \in Threads /\ Fragmenter # Reorderer
    /\ Refiners \subseteq Threads \ {Fragmenter, Reorderer}
    /\ Dedupers \subseteq Threads \ ({Fragmenter, Reorderer} \cup Refiners)
    /\ Compressors \subseteq Threads \ ({Fragmenter, Reorderer} \cup Refiners \cup Dedupers)
    /\ \A t \in Threads : /\ DOMAIN Inputs[t] = 1..Len(Inputs[t]) /\ Len(Inputs[t]) \in Nat
                          /\ DOMAIN Outputs[t] = 1..Len(Outputs[t]) /\ Len(Outputs[t]) \in Nat
                          /\ DOMAIN Extras[t] = 1..Len(Extras[t]) /\ Len(Extras[t]) \in Nat
    /\ Len(Outputs[Fragmenter]) > 0 /\ Len(Inputs[Reorderer]) > 0
    /\ \A t \in Refiners \cup Dedupers \cup Compressors :
          1 \in DOMAIN Inputs[t] /\ 1 \in DOMAIN Outputs[t]
    /\ \A t \in Dedupers : 1 \in DOMAIN Extras[t]
<1> USE WiringAssumption
<1>1. ASSUME NEW t \in Threads, NEW f \in [Threads -> Seq(Queues)]
      PROVE  /\ DOMAIN f[t] = 1..Len(f[t]) /\ Len(f[t]) \in Nat
             /\ \A i \in DOMAIN f[t] : f[t][i] \in Queues
             /\ f[t] # <<>> => Len(f[t]) > 0
  <2>1. f[t] \in Seq(Queues)
    OBVIOUS
  <2>. QED BY <2>1, LenProperties, ElementOfSeq, EmptySeq
<1>2. /\ Inputs \in [Threads -> Seq(Queues)] /\ Outputs \in [Threads -> Seq(Queues)]
      /\ Extras \in [Threads -> Seq(Queues)]
  OBVIOUS
<1>3. /\ Fragmenter \in Threads /\ Reorderer \in Threads /\ Fragmenter # Reorderer
      /\ Refiners \subseteq Threads \ {Fragmenter, Reorderer}
      /\ Dedupers \subseteq Threads \ ({Fragmenter, Reorderer} \cup Refiners)
      /\ Compressors \subseteq Threads \ ({Fragmenter, Reorderer} \cup Refiners \cup Dedupers)
  BY DEF Threads
<1>4. \A n \in Nat : n > 0 => 1 \in 1..n
  OBVIOUS
<1>5. /\ \A t \in Threads : /\ \A i \in DOMAIN Inputs[t] : Inputs[t][i] \in Queues
                            /\ \A i \in DOMAIN Outputs[t] : Outputs[t][i] \in Queues
                            /\ \A i \in DOMAIN Extras[t] : Extras[t][i] \in Queues
      /\ \A t \in Threads : /\ DOMAIN Inputs[t] = 1..Len(Inputs[t]) /\ Len(Inputs[t]) \in Nat
                            /\ DOMAIN Outputs[t] = 1..Len(Outputs[t]) /\ Len(Outputs[t]) \in Nat
                            /\ DOMAIN Extras[t] = 1..Len(Extras[t]) /\ Len(Extras[t]) \in Nat
  BY <1>1, <1>2
<1>6. Len(Outputs[Fragmenter]) > 0 /\ Len(Inputs[Reorderer]) > 0
  <2>1. Outputs[Fragmenter] # <<>> /\ Inputs[Reorderer] # <<>>
    OBVIOUS
  <2>. QED BY <1>1, <1>2, <1>3, <2>1
<1>7. \A t \in Refiners \cup Dedupers \cup Compressors :
          1 \in DOMAIN Inputs[t] /\ 1 \in DOMAIN Outputs[t]
  <2>1. \A t \in Refiners \cup Dedupers \cup Compressors :
            t \in Threads /\ Inputs[t] # <<>> /\ Outputs[t] # <<>>
    BY <1>3
  <2>. QED BY <1>1, <1>2, <1>4, <2>1
<1>8. \A t \in Dedupers : 1 \in DOMAIN Extras[t]
  <2>1. \A t \in Dedupers : t \in Threads /\ Extras[t] # <<>>
    BY <1>3
  <2>. QED BY <1>1, <1>2, <1>4, <2>1
<1>. QED BY <1>3, <1>5, <1>6, <1>7, <1>8

\* Where a queue stands: what the groups of queues between the stages say of each of them
LEMMA Routes ==
    /\ \A t \in Refiners : Inputs[t][1] \in CoarseQueues
    /\ \A t \in Threads \ Refiners : \A i \in DOMAIN Inputs[t] : Inputs[t][i] \notin CoarseQueues
    /\ \A t \in Threads \ {Fragmenter} :
          /\ \A i \in DOMAIN Outputs[t] : Outputs[t][i] \notin CoarseQueues
          /\ \A i \in DOMAIN Extras[t] : Extras[t][i] \notin CoarseQueues
    /\ \A t \in Dedupers : \E u \in Compressors : Inputs[u][1] = Outputs[t][1]
    /\ \A u \in Compressors, t \in Threads \ Compressors :
          \A i \in DOMAIN Inputs[t] : Inputs[t][i] # Inputs[u][1]
    /\ \A t \in Dedupers : Outputs[t][1] \in ToCompress /\ Outputs[t][1] \notin ToReorder
    /\ \A t \in Dedupers : Extras[t][1] \in ToReorder /\ Extras[t][1] \notin ToCompress
    /\ \A t \in Threads \ Dedupers : \A i \in DOMAIN Outputs[t] : Outputs[t][i] \notin ToCompress
    /\ \A u \in Threads \ Compressors : \A i \in DOMAIN Inputs[u] : Inputs[u][i] \notin ToCompress
<1>1. \A qs, S : \A t \in S : \A i \in DOMAIN qs[t] : qs[t][i] \in QueuesOf(qs, S)
  BY DEF QueuesOf
<1>2. /\ QueuesOf(Inputs, Refiners) \subseteq CoarseQueues
      /\ QueuesOf(Inputs, Dedupers) \subseteq ToDeduplicate
      /\ QueuesOf(Inputs, Compressors) \subseteq ToCompress
      /\ QueuesOf(Inputs, {Reorderer}) \subseteq ToReorder
      /\ {Outputs[t][1] : t \in Dedupers} \subseteq {Inputs[t][1] : t \in Compressors}
      /\ Inputs[Fragmenter] = <<>> /\ Outputs[Reorderer] = <<>>
      /\ \A t \in Threads \ Dedupers : Extras[t] = <<>>
  BY WiringAssumption
<1>3. /\ CoarseQueues \cap ToDeduplicate = {} /\ CoarseQueues \cap ToCompress = {}
      /\ CoarseQueues \cap ToReorder = {} /\ ToDeduplicate \cap ToCompress = {}
      /\ ToDeduplicate \cap ToReorder = {} /\ ToCompress \cap ToReorder = {}
  <2>1. \A g, h \in 1..4 : g # h => Between[g] \cap Between[h] = {}
    BY WiringAssumption
  <2>2. /\ Between[1] = CoarseQueues /\ Between[2] = ToDeduplicate
        /\ Between[3] = ToCompress /\ Between[4] = ToReorder
    BY DEF Between
  <2>3. 1 \in 1..4 /\ 2 \in 1..4 /\ 3 \in 1..4 /\ 4 \in 1..4
    OBVIOUS
  <2>4. /\ Between[1] \cap Between[2] = {} /\ Between[1] \cap Between[3] = {}
        /\ Between[1] \cap Between[4] = {} /\ Between[2] \cap Between[3] = {}
        /\ Between[2] \cap Between[4] = {} /\ Between[3] \cap Between[4] = {}
    BY <2>1, <2>3
  <2>. QED BY <2>2, <2>4
<1>4. \A t \in Threads \ {Fragmenter, Reorderer} : t \in Refiners \cup Dedupers \cup Compressors
  BY DEF Threads
<1>5. /\ \A t \in Refiners : \A i \in DOMAIN Outputs[t] : Outputs[t][i] \in ToDeduplicate
      /\ \A t \in Dedupers : \A i \in DOMAIN Outputs[t] : Outputs[t][i] \in ToCompress
      /\ \A t \in Dedupers : \A i \in DOMAIN Extras[t] : Extras[t][i] \in ToReorder
      /\ \A t \in Compressors : \A i \in DOMAIN Outputs[t] : Outputs[t][i] \in ToReorder
      /\ \A i \in DOMAIN Outputs[Fragmenter] : Outputs[Fragmenter][i] \in CoarseQueues
      /\ \A i \in DOMAIN Outputs[Reorderer] : FALSE
      /\ \A t \in Threads \ Dedupers : \A i \in DOMAIN Extras[t] : FALSE
  <2>1. \A t \in Refiners : \A i \in DOMAIN Outputs[t] : Outputs[t][i] \in ToDeduplicate
    BY <1>1, Zenon DEF ToDeduplicate
  <2>2. \A t \in Dedupers : \A i \in DOMAIN Outputs[t] : Outputs[t][i] \in ToCompress
    BY <1>1, Zenon DEF ToCompress
  <2>3. \A t \in Dedupers : \A i \in DOMAIN Extras[t] : Extras[t][i] \in ToReorder
    BY <1>1, Zenon DEF ToReorder
  <2>4. \A t \in Compressors : \A i \in DOMAIN Outputs[t] : Outputs[t][i] \in ToReorder
    BY <1>1, Zenon DEF ToReorder
  <2>5. \A i \in DOMAIN Outputs[Fragmenter] : Outputs[Fragmenter][i] \in CoarseQueues
    BY DEF CoarseQueues
  <2>6. DOMAIN <<>> = {}
    OBVIOUS
  <2>7. \A i \in DOMAIN Outputs[Reorderer] : FALSE
    BY <1>2, <2>6, Zenon
  <2>8. \A t \in Threads \ Dedupers : \A i \in DOMAIN Extras[t] : FALSE
    BY <1>2, <2>6, Zenon
  <2>. QED BY <2>1, <2>2, <2>3, <2>4, <2>5, <2>7, <2>8
<1>6. /\ \A t \in Refiners : \A i \in DOMAIN Inputs[t] : Inputs[t][i] \in CoarseQueues
      /\ \A t \in Dedupers : \A i \in DOMAIN Inputs[t] : Inputs[t][i] \in ToDeduplicate
      /\ \A t \in Compressors : \A i \in DOMAIN Inputs[t] : Inputs[t][i] \in ToCompress
      /\ \A i \in DOMAIN Inputs[Reorderer] : Inputs[Reorderer][i] \in ToReorder
      /\ \A i \in DOMAIN Inputs[Fragmenter] : FALSE
  <2>1. \A t \in Refiners : \A i \in DOMAIN Inputs[t] : Inputs[t][i] \in QueuesOf(Inputs, Refiners)
    BY <1>1, Zenon
  <2>2. \A t \in Dedupers : \A i \in DOMAIN Inputs[t] : Inputs[t][i] \in QueuesOf(Inputs, Dedupers)
    BY <1>1, Zenon
  <2>3. \A t \in Compressors : \A i \in DOMAIN Inputs[t] : Inputs[t][i] \in QueuesOf(Inputs, Compressors)
    BY <1>1, Zenon
  <2>4. \A t \in {Reorderer} : \A i \in DOMAIN Inputs[t] : Inputs[t][i] \in QueuesOf(Inputs, {Reorderer})
    BY <1>1, Zenon
  <2>5. DOMAIN <<>> = {}
    OBVIOUS
  <2>6. \A i \in DOMAIN Inputs[Fragmenter] : FALSE
    BY <1>2, <2>5, Zenon
  <2>. QED BY <1>2, <2>1, <2>2, <2>3, <2>4, <2>6
<1>7. /\ \A t \in Refiners \cup Dedupers \cup Compressors : 1 \in DOMAIN Inputs[t] /\ 1 \in DOMAIN Outputs[t]
      /\ \A t \in Dedupers : 1 \in DOMAIN Extras[t]
      /\ Reorderer \notin Refiners \cup Compressors /\ Fragmenter \notin Refiners \cup Dedupers \cup Compressors
      /\ Fragmenter # Reorderer /\ Dedupers \cap Refiners = {} /\ Dedupers \cap Compressors = {}
  BY Wired
<1>. HIDE DEF ToDeduplicate, ToCompress, ToReorder, CoarseQueues, QueuesOf, Between, Threads
<1>8. \A t \in Threads \ Refiners : \A i \in DOMAIN Inputs[t] : Inputs[t][i] \notin CoarseQueues
  BY <1>3, <1>4, <1>6
<1>9. \A t \in Threads \ {Fragmenter} :
          /\ \A i \in DOMAIN Outputs[t] : Outputs[t][i] \notin CoarseQueues
          /\ \A i \in DOMAIN Extras[t] : Extras[t][i] \notin CoarseQueues
  BY <1>3, <1>4, <1>5
<1>10. \A u \in Threads \ Compressors : \A i \in DOMAIN Inputs[u] : Inputs[u][i] \notin ToCompress
  BY <1>3, <1>4, <1>6
<1>11. \A t \in Threads \ Dedupers : \A i \in DOMAIN Outputs[t] : Outputs[t][i] \notin ToCompress
  BY <1>3, <1>4, <1>5
<1>12. \A u \in Compressors : Inputs[u][1] \in ToCompress
  BY <1>6, <1>7
<1>13. \A t \in Dedupers : \E u \in Compressors : Inputs[u][1] = Outputs[t][1]
  BY <1>2
<1>. QED BY <1>3, <1>5, <1>6, <1>7, <1>8, <1>9, <1>10, <1>11, <1>12, <1>13

\* What goes through the queues of each stage
LEMMA Lanes ==
    /\ \A i \in DOMAIN Outputs[Fragmenter] : Genuine(Outputs[Fragmenter][i]) = CoarseChunks
    /\ \A t \in Refiners : Genuine(Inputs[t][1]) = CoarseChunks
    /\ \A t \in Threads \ Refiners :
          \A i \in DOMAIN Inputs[t] : /\ Inputs[t][i] \notin CoarseQueues
                                      /\ Genuine(Inputs[t][i]) = FineChunks
    /\ \A t \in Threads \ {Fragmenter} :
          /\ \A i \in DOMAIN Outputs[t] : /\ Outputs[t][i] \notin CoarseQueues
                                          /\ Genuine(Outputs[t][i]) = FineChunks
          /\ \A i \in DOMAIN Extras[t] : /\ Extras[t][i] \notin CoarseQueues
                                         /\ Genuine(Extras[t][i]) = FineChunks
<1>1. \A i \in DOMAIN Outputs[Fragmenter] : Outputs[Fragmenter][i] \in CoarseQueues
  BY DEF CoarseQueues
<1>2. \A t \in Refiners : Inputs[t][1] \in CoarseQueues
  BY Routes
<1>3. \A t \in Threads \ Refiners : \A i \in DOMAIN Inputs[t] : Inputs[t][i] \notin CoarseQueues
  BY Routes
<1>4. \A t \in Threads \ {Fragmenter} :
          /\ \A i \in DOMAIN Outputs[t] : Outputs[t][i] \notin CoarseQueues
          /\ \A i \in DOMAIN Extras[t] : Extras[t][i] \notin CoarseQueues
  BY Routes
<1>. QED BY <1>1, <1>2, <1>3, <1>4 DEF Genuine

\* Operations from a buffer to its own queue: all but those of FragmentDefault
Own == {o \in Operations : o.to = o.from}

LEMMA OperationFacts ==
    /\ \A from, to \in Queues : (from \in CoarseQueues <=> to \in CoarseQueues) =>
          \A op \in {"enqueue", "drain", "close", "end"} : Operation(op, from, to) \in Operations
    /\ \A q \in Queues : /\ Enqueue(q) \in Own /\ End(q) \in Own /\ Close(q) \in Own
                         /\ Operation("drain", q, q) \in Own
    /\ \A o \in Operations : /\ o.op \in {"enqueue", "drain", "close", "end"}
                             /\ o.from \in Queues /\ o.to \in Queues
                             /\ Genuine(o.from) = Genuine(o.to)
<1>1. ASSUME NEW from \in Queues, NEW to \in Queues, from \in CoarseQueues <=> to \in CoarseQueues,
             NEW op \in {"enqueue", "drain", "close", "end"}
      PROVE  Operation(op, from, to) \in Operations
  BY <1>1 DEF Operations, Operation
<1>2. \A q \in Queues : /\ Enqueue(q) \in Own /\ End(q) \in Own /\ Close(q) \in Own
                        /\ Operation("drain", q, q) \in Own
  BY <1>1 DEF Own, Operation, Enqueue, End, Close
<1>3. ASSUME NEW o \in Operations
      PROVE  /\ o.op \in {"enqueue", "drain", "close", "end"}
             /\ o.from \in Queues /\ o.to \in Queues
             /\ Genuine(o.from) = Genuine(o.to)
  BY DEF Operations, Genuine
<1>. QED BY <1>1, <1>2, <1>3

LEMMA OperationSequences ==
    /\ \A t \in Threads, q \in Queues : Drain(t, q) \in Seq(Own) /\ ForcePush(t, q) \in Seq(Own)
    /\ \A t \in Threads : /\ EndAll(Outputs[t]) \in Seq(Own) /\ EndAll(Extras[t]) \in Seq(Own)
                          /\ [i \in DOMAIN Outputs[t] |-> Close(Outputs[t][i])] \in Seq(Own)
    /\ \A o \in Own : <<o>> \in Seq(Own)
    /\ \A o, p \in Own : <<o, p>> \in Seq(Own)
    /\ \A s, r \in Seq(Own) : s \o r \in Seq(Own)
    /\ Seq(Own) \subseteq Seq(Operations)
    /\ \A o \in Operations : <<o>> \in Seq(Operations)
    /\ \A s, r \in Seq(Operations) : s \o r \in Seq(Operations)
    /\ \A s \in Seq(Operations) : s # <<>> => Head(s) \in Operations /\ Tail(s) \in Seq(Operations)
<1>1. <<>> \in Seq(Own)
  BY EmptySeq
<1>2. /\ \A o \in Own : <<o>> \in Seq(Own)
      /\ \A o, p \in Own : <<o, p>> \in Seq(Own)
      /\ \A o \in Operations : <<o>> \in Seq(Operations)
  OBVIOUS
<1>3. \A q \in Queues : Operation("drain", q, q) \in Own
  BY OperationFacts
<1>4. ASSUME NEW t \in Threads, NEW q \in Queues
      PROVE  Drain(t, q) \in Seq(Own) /\ ForcePush(t, q) \in Seq(Own)
  BY <1>1, <1>2, <1>3, OperationFacts DEF Drain, ForcePush
<1>5. ASSUME NEW n \in Nat, NEW f \in [1..n -> Own] PROVE f \in Seq(Own)
  BY SeqDef
<1>6. ASSUME NEW t \in Threads
      PROVE  /\ EndAll(Outputs[t]) \in Seq(Own) /\ EndAll(Extras[t]) \in Seq(Own)
             /\ [i \in DOMAIN Outputs[t] |-> Close(Outputs[t][i])] \in Seq(Own)
  <2>1. EndAll(Outputs[t]) \in [1..Len(Outputs[t]) -> Own]
    BY Wired, OperationFacts DEF EndAll
  <2>2. EndAll(Extras[t]) \in [1..Len(Extras[t]) -> Own]
    BY Wired, OperationFacts DEF EndAll
  <2>3. [i \in DOMAIN Outputs[t] |-> Close(Outputs[t][i])] \in [1..Len(Outputs[t]) -> Own]
    BY Wired, OperationFacts
  <2>4. Len(Outputs[t]) \in Nat /\ Len(Extras[t]) \in Nat
    BY Wired
  <2>. QED BY <1>5, <2>1, <2>2, <2>3, <2>4
<1>7. /\ \A s, r \in Seq(Operations) : s \o r \in Seq(Operations)
      /\ \A s, r \in Seq(Own) : s \o r \in Seq(Own)
  BY ConcatProperties
<1>8. \A s \in Seq(Operations) : s # <<>> => Head(s) \in Operations /\ Tail(s) \in Seq(Operations)
  BY HeadTailProperties
<1>9. Own \subseteq Operations
  BY DEF Own
<1>10. Seq(Own) \subseteq Seq(Operations)
  BY <1>9, SeqMonotonic
<1>. QED BY <1>2, <1>4, <1>6, <1>7, <1>8, <1>10

LEMMA CoarseFacts == CoarseQueues \subseteq Queues
BY Wired DEF CoarseQueues
---------------------------------------------------------------------------------
(* What the parts of the stages' actions do to the queues and buffers *)

LEMMA LeastFacts ==
    \A m, n \in Nat : Least(m, n) \in Nat /\ Least(m, n) <= m /\ Least(m, n) <= n
                      /\ (Least(m, n) = m \/ Least(m, n) = n)
BY DEF Least

LEMMA Dequeued ==
    ASSUME QueueOK, RecvOK, NEW t \in Threads, NEW q \in Queues, q \in CoarseQueues => t \in Refiners,
           Dequeue(t, q), UNCHANGED capacity
    PROVE  /\ QueueOK' /\ RecvOK'
           /\ \E n \in 1..Len(queue[q]) :
                 /\ n <= Step[t]
                 /\ Replaced(recv, recv', t, q, First(n, queue[q]))
                 /\ \A r \in Queues : queue'[r] = IF r = q THEN Rest(n, queue[q]) ELSE queue[r]
<1>1. queue[q] \in Seq(Genuine(q)) /\ Len(queue[q]) \in Nat \ {0}
  BY EmptySeq DEF QueueOK, Dequeue
<1>2. Step[t] \in Nat \ {0}
  BY SizesAssumption
<1>3. PICK n : n = Least(Step[t], Len(queue[q])) /\ n \in 1..Len(queue[q]) /\ n <= Step[t]
  <2>1. \A a, b \in Nat \ {0} : Least(a, b) \in 1..b /\ Least(a, b) <= a
    BY DEF Least
  <2>. QED BY <1>1, <1>2, <2>1
<1>4. recv' = [recv EXCEPT ![t][q] = First(n, queue[q])] /\ queue' = [queue EXCEPT ![q] = Rest(n, queue[q])]
  BY <1>3 DEF Dequeue
<1>5.
 /\ First(n, queue[q]) \in Seq(Genuine(q)) /\ Len(First(n, queue[q])) = n
      /\ Rest(n, queue[q]) \in Seq(Genuine(q)) /\ Len(Rest(n, queue[q])) = Len(queue[q]) - n
  <2>1. n \in Nat /\ n <= Len(queue[q])
    BY <1>1, <1>3
  <2>2. queue[q] \in Seq(Genuine(q))
    BY <1>1
  <2>3. First(n, queue[q]) \in Seq(Genuine(q))
    BY <2>1, <2>2, Pieces
  <2>4. Len(First(n, queue[q])) = n
    BY <2>1, <2>2, Pieces
  <2>5. Rest(n, queue[q]) \in Seq(Genuine(q))
    BY <2>1, <2>2, Pieces
  <2>6. Len(Rest(n, queue[q])) = Len(queue[q]) - n
    <3>1. \A s \in Seq(Genuine(q)) : n <= Len(s) => Len(Rest(n, s)) = Len(s) - n
      BY <2>1, Pieces
    <3>. QED BY <2>1, <2>2, <3>1

  <2>. QED BY <2>3, <2>4, <2>5, <2>6

<1>6. Filled(recv') /\ Replaced(recv, recv', t, q, First(n, queue[q]))
  <2>1. PICK e : e = First(n, queue[q])
    OBVIOUS
  <2>2. e \in Seq(Genuine(q)) /\ recv' = [recv EXCEPT ![t][q] = e]
    BY <1>4, <1>5, <2>1
  <2>3. Filled(recv') /\ Replaced(recv, recv', t, q, e)
    BY <2>2, BufferUpdate DEF RecvOK
  <2>. QED BY <2>1, <2>3
<1>7. RecvOK'
  <2>1. ASSUME NEW u \in Threads \ Refiners, NEW r \in CoarseQueues PROVE recv'[u][r] = <<>>
    <3>1. r \in Queues /\ u \in Threads /\ ~(u = t /\ r = q)
      BY CoarseFacts
    <3>. QED BY <1>6, <3>1 DEF RecvOK, Replaced
  <2>. QED BY <1>6, <2>1 DEF RecvOK
<1>8. \A r \in Queues : queue'[r] = IF r = q THEN Rest(n, queue[q]) ELSE queue[r]
  BY <1>4 DEF QueueOK
<1>9. QueueOK'
  <2>1. queue' \in [Queues -> Buffer]
    BY <1>4, <1>5, Kinds DEF QueueOK
  <2>2. ASSUME NEW r \in Queues PROVE queue'[r] \in Seq(Genuine(r)) /\ Len(queue'[r]) <= capacity
    <3>1. CASE r = q
      <4>1. Len(queue[q]) <= capacity /\ capacity \in Nat
        BY DEF QueueOK
      <4>2. \A a, b, c, d \in Nat : a <= b /\ c \in 1..a /\ d = a - c => d <= b
        OBVIOUS
      <4>3. Len(Rest(n, queue[q])) \in Nat
        BY <1>5, LenProperties
      <4>4. Len(Rest(n, queue[q])) <= capacity
        BY <1>1, <1>3, <1>5, <4>1, <4>2, <4>3
      <4>. QED BY <1>5, <1>8, <3>1, <4>4
    <3>2. CASE r # q
      BY <1>8, <3>2 DEF QueueOK
    <3>. QED BY <3>1, <3>2
  <2>. QED BY <2>1, <2>2 DEF QueueOK
<1>. QED BY <1>3, <1>6, <1>7, <1>8, <1>9

\* The first chunk of a buffer is taken.
LEMMA Taken ==
    ASSUME RecvOK, NEW t \in Threads, NEW q \in Queues, recv[t][q] # <<>>,
           recv' = [recv EXCEPT ![t][q] = Tail(recv[t][q])]
    PROVE  /\ RecvOK' /\ Head(recv[t][q]) \in Genuine(q)
           /\ Len(recv[t][q]) \in Nat \ {0}
           /\ Replaced(recv, recv', t, q, Tail(recv[t][q]))
<1>1. recv[t][q] \in Seq(Genuine(q)) /\ recv[t][q] # <<>>
  BY DEF RecvOK, Filled
<1>2. Tail(recv[t][q]) \in Seq(Genuine(q)) /\ Head(recv[t][q]) \in Genuine(q)
  BY <1>1, HeadTailProperties
<1>3. Filled(recv') /\ Replaced(recv, recv', t, q, Tail(recv[t][q]))
  <2>1. PICK e : e = Tail(recv[t][q])
    OBVIOUS
  <2>2. e \in Seq(Genuine(q)) /\ recv' = [recv EXCEPT ![t][q] = e]
    BY <1>2, <2>1
  <2>3. Filled(recv') /\ Replaced(recv, recv', t, q, e)
    BY <2>2, BufferUpdate DEF RecvOK
  <2>. QED BY <2>1, <2>3
<1>4. ASSUME NEW u \in Threads \ Refiners, NEW r \in CoarseQueues PROVE recv'[u][r] = <<>>
  <2>1. r \in Queues /\ u \in Threads /\ recv[u][r] = <<>>
    BY CoarseFacts DEF RecvOK
  <2>. QED BY <1>1, <1>3, <2>1 DEF Replaced
<1>. QED BY <1>1, <1>2, <1>3, <1>4, EmptySeq DEF RecvOK

\* A chunk is put to a buffer, and what is to be done is added to.
LEMMA Added ==
    ASSUME SendOK, PcOK, NEW t \in Threads, NEW q \in Queues, NEW chunk \in Genuine(q),
           NEW before \in Seq(Operations), Put(t, q, chunk, before)
    PROVE  /\ SendOK' /\ todo' \in [Threads -> Seq(Operations)]
           /\ Replaced(send, send', t, q, Append(send[t][q], chunk))
<1>1. send[t][q] \in Seq(Genuine(q))
  BY DEF SendOK, Filled
<1>2. Append(send[t][q], chunk) \in Seq(Genuine(q))
  BY <1>1, AppendProperties
<1>3. send' = [send EXCEPT ![t][q] = Append(send[t][q], chunk)]
  BY DEF Put
<1>4. Filled(send') /\ Replaced(send, send', t, q, Append(send[t][q], chunk))
  <2>1. PICK e : e = Append(send[t][q], chunk)
    OBVIOUS
  <2>2. e \in Seq(Genuine(q)) /\ send' = [send EXCEPT ![t][q] = e]
    BY <1>2, <1>3, <2>1
  <2>3. Filled(send') /\ Replaced(send, send', t, q, e)
    BY <2>2, BufferUpdate DEF SendOK
  <2>. QED BY <2>1, <2>3

<1>5. todo' \in [Threads -> Seq(Operations)]
  <2>1. PICK s \in Seq(Operations) : todo' = [todo EXCEPT ![t] = before \o s]
    <3>1. (IF Len(send[t][q]) + 1 >= Step[t] THEN <<Enqueue(q)>> ELSE <<>>) \in Seq(Operations)
      BY OperationFacts, OperationSequences, EmptySeq
    <3>2. todo' = [todo EXCEPT ![t] = before \o IF Len(send[t][q]) + 1 >= Step[t]
                                                THEN <<Enqueue(q)>> ELSE <<>>]
      BY DEF Put
    <3>. QED BY <3>1, <3>2
  <2>. QED BY <2>1, OperationSequences DEF PcOK
<1>. QED BY <1>4, <1>5 DEF SendOK

\* n chunks are moved from a buffer to a queue.
Moved(t, o, n) ==
    /\ n \in Nat /\ n <= Len(send[t][o.from])
    /\ Len(send[t][o.from]) > 0 => n > 0
    /\ Replaced(send, send', t, o.from, Rest(n, send[t][o.from]))
    /\ queue' = [queue EXCEPT ![o.to] = queue[o.to] \o First(n, send[t][o.from])]
    /\ todo' = [todo EXCEPT ![t] = Tail(todo[t])] \/ (todo' = todo /\ o.op # "enqueue")
    /\ todo' # todo /\ o.op = "drain" => n = Len(send[t][o.from])

LEMMA MoveParts ==
    ASSUME Stages, NEW t \in Threads, Move(t)
    PROVE  /\ todo[t] # <<>> /\ Head(todo[t]) \in Operations /\ todo[t] \in Seq(Operations)
           /\ \E n \in Nat : Moved(t, Head(todo[t]), n) /\ n <= capacity - Len(queue[Head(todo[t]).to])
           /\ SendOK'
<1>1. todo[t] # <<>> /\ todo[t] \in Seq(Operations)
  BY DEF Stages, PcOK, Move
<1>2. Head(todo[t]) \in Operations
  BY <1>1, OperationSequences
<1>3. PICK o \in Operations : o = Head(todo[t])
  BY <1>2
<1>4. o.from \in Queues /\ o.to \in Queues /\ Genuine(o.from) = Genuine(o.to)
  BY OperationFacts
<1>5. send[t][o.from] \in Seq(Genuine(o.from)) /\ Len(send[t][o.from]) \in Nat
  <2>1. Filled(send)
    BY DEF Stages, SendOK
  <2>2. send[t][o.from] \in Seq(Genuine(o.from))
    BY ONLY t \in Threads, <1>4, <2>1 DEF Filled
  <2>. QED BY ONLY <2>2, LenProperties
<1>6. /\ queue[o.to] \in Seq(Genuine(o.from)) /\ Len(queue[o.to]) \in Nat /\ capacity \in Nat
      /\ Len(queue[o.to]) < capacity
  BY <1>3, <1>4, LenProperties DEF Stages, QueueOK, Move
<1>7. Step[t] \in Nat \ {0}
  BY SizesAssumption
<1>8. PICK n : n = Least(Step[t], Least(Len(send[t][o.from]), capacity - Len(queue[o.to])))
  OBVIOUS
<1>9. /\ n \in Nat /\ n <= Len(send[t][o.from]) /\ n <= capacity - Len(queue[o.to])
      /\ Len(send[t][o.from]) > 0 => n > 0
  <2>1. \A a \in Nat \ {0}, b, c, d \in Nat, m \in {n} : c < d /\ m = Least(a, Least(b, d - c)) =>
            m \in Nat /\ m <= b /\ m <= d - c /\ (b > 0 => m > 0)
    BY DEF Least
  <2>. QED BY <1>5, <1>6, <1>7, <1>8, <2>1
<1>10. /\ queue' = [queue EXCEPT ![o.to] = queue[o.to] \o First(n, send[t][o.from])]
       /\ send' = [send EXCEPT ![t][o.from] = Rest(n, send[t][o.from])]
       /\ todo' = [todo EXCEPT ![t] = IF o.op = "close" \/ (o.op = "drain" /\ n < Len(send[t][o.from]))
                                      THEN todo[t] ELSE Tail(todo[t])]
  <2>1. queue' = [queue EXCEPT ![o.to] = queue[o.to] \o First(n, send[t][o.from])]
    BY <1>3, <1>8, Zenon DEF Move
  <2>2. send' = [send EXCEPT ![t][o.from] = Rest(n, send[t][o.from])]
    BY <1>3, <1>8, Zenon DEF Move
  <2>3. todo' = [todo EXCEPT ![t] = IF o.op = "close" \/ (o.op = "drain" /\ n < Len(send[t][o.from]))
                                    THEN todo[t] ELSE Tail(todo[t])]
    BY <1>3, <1>8, Zenon DEF Move
  <2>. QED BY <2>1, <2>2, <2>3
<1>11. Rest(n, send[t][o.from]) \in Seq(Genuine(o.from))
  BY <1>5, <1>9, Pieces
<1>12. SendOK' /\ Replaced(send, send', t, o.from, Rest(n, send[t][o.from]))
  <2>1. PICK e : e = Rest(n, send[t][o.from])
    OBVIOUS
  <2>2. e \in Seq(Genuine(o.from)) /\ send' = [send EXCEPT ![t][o.from] = e]
    BY <1>10, <1>11, <2>1
  <2>3. Filled(send') /\ Replaced(send, send', t, o.from, e)
    BY <1>4, <2>2, BufferUpdate DEF Stages, SendOK
  <2>. QED BY <2>1, <2>3 DEF SendOK
<1>13. todo' = [todo EXCEPT ![t] = Tail(todo[t])] \/ (todo' = todo /\ o.op # "enqueue")
  BY <1>10 DEF Stages, PcOK
<1>14. todo' # todo /\ o.op = "drain" => n = Len(send[t][o.from])
  BY <1>5, <1>9, <1>10 DEF Stages, PcOK
<1>15. Moved(t, o, n)
  BY <1>9, <1>10, <1>12, <1>13, <1>14 DEF Moved
<1>. QED BY <1>1, <1>3, <1>9, <1>12, <1>15

LEMMA MoveKeepsStages ==
    ASSUME Stages, NEW t \in Threads, Move(t)
    PROVE  Stages'
<1>1. PICK o \in Operations, n \in Nat :
          /\ o = Head(todo[t]) /\ Moved(t, o, n) /\ n <= capacity - Len(queue[o.to])
  BY MoveParts
<1>2. o.from \in Queues /\ o.to \in Queues /\ Genuine(o.from) = Genuine(o.to)
  BY OperationFacts
<1>3. send[t][o.from] \in Seq(Genuine(o.to)) /\ n <= Len(send[t][o.from])
  <2>1. send[t][o.from] \in Seq(Genuine(o.from))
    BY <1>2 DEF Stages, SendOK, Filled
  <2>2. n <= Len(send[t][o.from])
    BY <1>1, Zenon DEF Moved
  <2>. QED BY <1>2, <2>1, <2>2
<1>4. queue[o.to] \in Seq(Genuine(o.to)) /\ Len(queue[o.to]) \in Nat /\ capacity \in Nat
  BY <1>2, LenProperties DEF Stages, QueueOK
<1>5. First(n, send[t][o.from]) \in Seq(Genuine(o.to))
  BY <1>3, Pieces
<1>6. Len(First(n, send[t][o.from])) = n
  BY <1>3, Pieces
<1>7. PICK e : e = queue[o.to] \o First(n, send[t][o.from])
  OBVIOUS
<1>8. e \in Seq(Genuine(o.to))
  BY <1>4, <1>5, <1>7, ConcatProperties
<1>9. Len(e) = Len(queue[o.to]) + n
  <2>1. \A r, s \in Seq(Genuine(o.to)) : Len(r \o s) = Len(r) + Len(s)
    BY ConcatProperties
  <2>2. Len(queue[o.to] \o First(n, send[t][o.from])) = Len(queue[o.to]) + Len(First(n, send[t][o.from]))
    BY <1>4, <1>5, <2>1, Zenon
  <2>. QED BY <1>6, <1>7, <2>2, Zenon

<1>10. Len(e) <= capacity
  BY <1>1, <1>4, <1>9
<1>11. queue' = [queue EXCEPT ![o.to] = e] /\ capacity' = capacity
  <2>1. queue' = [queue EXCEPT ![o.to] = e]
    BY <1>1, <1>7, Zenon DEF Moved
  <2>. QED BY <2>1, Zenon DEF Move

<1>12. QueueOK'
  <2>1. e \in Buffer
    BY <1>8, Kinds
  <2>2. queue' \in [Queues -> Buffer]
    BY <1>11, <2>1 DEF Stages, QueueOK
  <2>3. ASSUME NEW r \in Queues PROVE queue'[r] \in Seq(Genuine(r)) /\ Len(queue'[r]) <= capacity
    BY <1>8, <1>10, <1>11 DEF Stages, QueueOK
  <2>. QED BY <1>11, <2>2, <2>3 DEF Stages, QueueOK
<1>13. SendOK'
  BY MoveParts
<1>14. PcOK'
  <2>1. Tail(todo[t]) \in Seq(Operations)
    <3>1. todo[t] # <<>> /\ todo[t] \in Seq(Operations)
      BY MoveParts, Zenon
    <3>. QED BY ONLY <3>1, OperationSequences
  <2>2. todo' \in [Threads -> Seq(Operations)]
    BY <1>1, <2>1 DEF Moved, Stages, PcOK
  <2>. QED BY <2>2 DEF Stages, PcOK, Move
<1>15. RecvOK' /\ HandOK' /\ TurnOK'
  BY DEF Stages, RecvOK, HandOK, TurnOK, Move
<1>. QED BY <1>12, <1>13, <1>14, <1>15 DEF Stages

LEMMA TerminateKeepsStages ==
    ASSUME Stages, NEW t \in Threads, Terminate(t)
    PROVE  Stages'
<1>1. QueueOK' /\ SendOK' /\ RecvOK' /\ HandOK' /\ TurnOK'
  BY DEF Stages, QueueOK, SendOK, RecvOK, HandOK, TurnOK, Terminate
<1>2. todo[t] # <<>> /\ todo[t] \in Seq(Operations)
  BY DEF Stages, PcOK, Terminate
<1>3. Tail(todo[t]) \in Seq(Operations)
  BY <1>2, OperationSequences
<1>4. PcOK'
  BY <1>3 DEF Stages, PcOK, Label, Terminate
<1>. QED BY <1>1, <1>4 DEF Stages

LEMMA BarrierKeepsStages == ASSUME Stages, Barrier PROVE Stages'
<1>1. QueueOK' /\ SendOK' /\ RecvOK' /\ HandOK' /\ TurnOK'
  BY DEF Stages, QueueOK, SendOK, RecvOK, HandOK, TurnOK, Barrier
<1>2. PcOK'
  BY DEF Stages, PcOK, Label, Barrier
<1>. QED BY <1>1, <1>2 DEF Stages
---------------------------------------------------------------------------------
(* The steps of the stages, whatever the encoder *)

\* A sequence of operations empties what is in a full buffer.
Empties(s, q) == \E i \in 1..Len(s) : s[i].op = "enqueue" /\ s[i].from = q

\* Fragment adds a chunk to the buffer of one of its queues.
Fragments(q, s) == LET t == Fragmenter IN
    /\ Cut
    /\ send' = [send EXCEPT ![t][q] = Append(send[t][q], Head(inHand[t]))]
    /\ todo' = [todo EXCEPT ![t] = s]
    /\ Len(send[t][q]) + 1 = Step[t] /\ Len(inHand[t]) > 1 => Empties(s, q)
    /\ UNCHANGED pc

\* Fragment has nothing more to add.
Closes(s) == LET t == Fragmenter IN
    /\ inHand[t] = <<>>
    /\ todo' = [todo EXCEPT ![t] = s]
    /\ pc' = pc \/ pc' = [pc EXCEPT ![t] = "leave"]
    /\ UNCHANGED <<send, inHand>>

LEMMA RoundFacts ==
    ASSUME TurnOK
    PROVE  Round(Fragmenter) \in DOMAIN Outputs[Fragmenter]
<1>1. /\ Len(Outputs[Fragmenter]) \in Nat \ {0} /\ turn[Fragmenter] \in Nat
      /\ DOMAIN Outputs[Fragmenter] = 1..Len(Outputs[Fragmenter])
  BY Wired DEF TurnOK
<1>2. \A n \in Nat, m \in Nat \ {0} : (n % m) + 1 \in 1..m
  OBVIOUS
<1>. QED BY <1>1, <1>2 DEF Round

LEMMA EmptiesFacts ==
    /\ \A from, to \in Queues : Empties(<<Operation("enqueue", from, to)>>, from)
    /\ \A q \in Queues : Empties(<<Enqueue(q)>>, q)
<1>1. ASSUME NEW from \in Queues, NEW to \in Queues
      PROVE  Empties(<<Operation("enqueue", from, to)>>, from)
  <2>1. PICK o : o = Operation("enqueue", from, to)
    OBVIOUS
  <2>2. o.op = "enqueue" /\ o.from = from
    BY <2>1 DEF Operation
  <2>3. Len(<<o>>) = 1 /\ <<o>>[1] = o
    OBVIOUS
  <2>4. Empties(<<o>>, from)
    BY <2>2, <2>3 DEF Empties
  <2>. QED BY <2>1, <2>4
<1>. QED BY <1>1 DEF Enqueue

LEMMA FragmentCases ==
    ASSUME Stages, Fragment
    PROVE  /\ Idle(Fragmenter) /\ TurnOK' /\ UNCHANGED <<queue, open, recv, row, state>>
           /\ \/ \E i \in DOMAIN Outputs[Fragmenter], s \in Seq(Operations) :
                    Fragments(Outputs[Fragmenter][i], s)
              \/ \E s \in Seq(Operations) : Closes(s)
<1> DEFINE t == Fragmenter
           q == Outputs[t][turn[t]]
           goal == \/ \E i \in DOMAIN Outputs[t], s \in Seq(Operations) : Fragments(Outputs[t][i], s)
                   \/ \E s \in Seq(Operations) : Closes(s)
<1>1. /\ t \in Threads /\ turn[t] \in DOMAIN Outputs[t] /\ Round(t) \in DOMAIN Outputs[t] /\ TurnOK
      /\ 1 \in DOMAIN Outputs[t]
  <2>1. Round(t) \in DOMAIN Outputs[t] /\ TurnOK
    BY RoundFacts DEF Stages
  <2>2. t \in Threads /\ DOMAIN Outputs[t] = 1..Len(Outputs[t]) /\ Len(Outputs[t]) \in Nat
        /\ Len(Outputs[t]) > 0
    BY Wired
  <2>3. \A n \in Nat : n > 0 => 1 \in 1..n
    OBVIOUS
  <2>. QED BY <2>1, <2>2, <2>3 DEF TurnOK
<1>2. \A i \in DOMAIN Outputs[t] : Outputs[t][i] \in Queues /\ Outputs[t][i] \in CoarseQueues
  BY <1>1, Wired DEF CoarseQueues
<1>3. ASSUME NEW s \in Seq(Operations), todo' = [todo EXCEPT ![t] = s], UNCHANGED <<send, inHand>>,
             inHand[t] = <<>>, pc' = pc \/ pc' = [pc EXCEPT ![t] = "leave"]
      PROVE  goal
  BY <1>3 DEF Closes
<1>4. CloseQueues => goal
  <2>1. [i \in DOMAIN Outputs[t] |-> Close(Outputs[t][i])] \in Seq(Operations)
    BY <1>1, OperationSequences
  <2>. QED BY <1>3, <2>1 DEF CloseQueues
<1>5. SendNext => goal
  <2> SUFFICES ASSUME SendNext PROVE goal
    OBVIOUS
  <2>1. PICK s : s = IF Len(send[t][q]) + 1 >= Step[t] THEN <<Enqueue(q)>> ELSE <<>>
    OBVIOUS
  <2>2. s \in Seq(Operations)
    BY <1>1, <1>2, <2>1, OperationFacts, OperationSequences, EmptySeq
  <2>3. Cut /\ pc' = pc /\ Put(t, q, Head(inHand[t]), <<>>)
    BY DEF SendNext
  <2>4. send' = [send EXCEPT ![t][q] = Append(send[t][q], Head(inHand[t]))]
    BY <2>3 DEF Put
  <2>5. todo' = [todo EXCEPT ![t] = s]
    <3>1. todo' = [todo EXCEPT ![t] = <<>> \o s]
      BY <2>1, <2>3 DEF Put
    <3>2. <<>> \o s = s
      BY <2>2, ConcatEmptySeq
    <3>. QED BY <3>1, <3>2
  <2>6. Len(send[t][q]) + 1 = Step[t] => Empties(s, q)
    <3>1. Step[t] \in Nat
      BY <1>1, SizesAssumption
    <3>2. Len(send[t][q]) + 1 = Step[t] => s = <<Enqueue(q)>>
      BY <2>1, <3>1
    <3>. QED BY <1>1, <1>2, <3>2, EmptiesFacts
  <2>7. Fragments(q, s)
    BY <2>3, <2>4, <2>5, <2>6 DEF Fragments
  <2>. QED BY <1>1, <2>2, <2>7
<1>6. \A x \in DOMAIN Outputs[t] : turn' = [turn EXCEPT ![t] = x] => TurnOK'
  BY <1>1, Wired DEF TurnOK
<1>7. turn' = turn => TurnOK'
  BY <1>1 DEF TurnOK
<1>8. TurnInSteps => TurnOK'
  <2>1. (IF (Sent + 1) % Step[t] = 0 THEN Round(t) ELSE turn[t]) \in DOMAIN Outputs[t]
    BY <1>1
  <2>. QED BY <1>6, <2>1 DEF TurnInSteps
<1>9. CASE FragmentDefault
  <2> DEFINE from == Outputs[t][1]
             f == <<Operation("enqueue", from, Outputs[t][turn[t]])>>
  <2>1. Idle(t) /\ UNCHANGED <<queue, open, recv, row, state>>
    BY <1>9 DEF FragmentDefault
  <2>2. f \in Seq(Operations) /\ Empties(f, from)
    BY <1>1, <1>2, OperationFacts, OperationSequences, EmptiesFacts
  <2>3. \/ /\ Cut
           /\ send' = [send EXCEPT ![t][from] = Append(send[t][from], Head(inHand[t]))]
           /\ IF Len(send[t][from]) + 1 = Step[t] /\ Len(inHand[t]) > 1
              THEN todo' = [todo EXCEPT ![t] = f] /\ turn' = [turn EXCEPT ![t] = Round(t)]
              ELSE UNCHANGED <<todo, turn>>
           /\ UNCHANGED pc
        \/ /\ inHand[t] = <<>> /\ send[t][from] # <<>>
           /\ todo' = [todo EXCEPT ![t] = f] /\ turn' = [turn EXCEPT ![t] = Round(t)]
           /\ UNCHANGED <<send, inHand, pc>>
        \/ /\ inHand[t] = <<>> /\ send[t][from] = <<>>
           /\ todo' = [todo EXCEPT ![t] = EndAll(Outputs[t])]
           /\ pc' = [pc EXCEPT ![t] = "leave"]
           /\ UNCHANGED <<send, inHand, turn>>
    BY <1>9 DEF FragmentDefault
  <2> HIDE DEF f
  <2>4. TurnOK'
    BY <1>1, <1>6, <1>7, <2>3
  <2>5. goal
    <3>1. CASE /\ Cut
               /\ send' = [send EXCEPT ![t][from] = Append(send[t][from], Head(inHand[t]))]
               /\ IF Len(send[t][from]) + 1 = Step[t] /\ Len(inHand[t]) > 1
                  THEN todo' = [todo EXCEPT ![t] = f] /\ turn' = [turn EXCEPT ![t] = Round(t)]
                  ELSE UNCHANGED <<todo, turn>>
               /\ UNCHANGED pc
      <4>1. todo' = [todo EXCEPT ![t] = <<>>] \/ todo' = [todo EXCEPT ![t] = f]
        BY <1>1, <2>1, <3>1 DEF Idle, Stages, PcOK
      <4>2. <<>> \in Seq(Operations)
        BY EmptySeq
      <4>3. CASE Len(send[t][from]) + 1 = Step[t] /\ Len(inHand[t]) > 1
        <5>1. Fragments(from, f)
          BY <2>2, <3>1, <4>3 DEF Fragments
        <5>. QED BY <1>1, <2>2, <5>1
      <4>4. CASE ~(Len(send[t][from]) + 1 = Step[t] /\ Len(inHand[t]) > 1)
        <5>1. todo' = [todo EXCEPT ![t] = <<>>]
          BY <1>1, <2>1, <3>1, <4>4 DEF Idle, Stages, PcOK
        <5>2. Fragments(from, <<>>)
          BY <3>1, <4>4, <5>1 DEF Fragments
        <5>. QED BY <1>1, <4>2, <5>2
      <4>. QED BY <4>3, <4>4
    <3>2. CASE /\ inHand[t] = <<>> /\ send[t][from] # <<>>
               /\ todo' = [todo EXCEPT ![t] = f] /\ turn' = [turn EXCEPT ![t] = Round(t)]
               /\ UNCHANGED <<send, inHand, pc>>
      BY <1>3, <2>2, <3>2
    <3>3. CASE /\ inHand[t] = <<>> /\ send[t][from] = <<>>
               /\ todo' = [todo EXCEPT ![t] = EndAll(Outputs[t])]
               /\ pc' = [pc EXCEPT ![t] = "leave"]
               /\ UNCHANGED <<send, inHand, turn>>
      BY <1>1, <1>3, <3>3, OperationSequences
    <3>. QED BY <2>3, <3>1, <3>2, <3>3
  <2>. QED BY <2>1, <2>4, <2>5
<1>10. CASE FragmentNaiveQueue
  <2>1. Idle(t) /\ UNCHANGED <<queue, open, recv, row, state>> /\ ((SendNext /\ TurnInSteps) \/ CloseQueues)
    BY <1>10 DEF FragmentNaiveQueue
  <2>. QED BY <1>4, <1>5, <1>7, <1>8, <2>1 DEF CloseQueues
<1>11. CASE FragmentSmart
  <2>1. Idle(t) /\ UNCHANGED <<queue, open, recv, row, state>> /\ ((SendNext /\ TurnInSteps) \/ CloseQueues)
    BY <1>11 DEF FragmentSmart
  <2>. QED BY <1>4, <1>5, <1>7, <1>8, <2>1 DEF CloseQueues
<1>12. CASE FragmentFifo
  <2>1. /\ Idle(t) /\ UNCHANGED <<queue, open, recv, row, state>>
        /\ (SendNext /\ turn' = [turn EXCEPT ![t] = Round(t)]) \/ CloseQueues
    BY <1>12 DEF FragmentFifo
  <2>. QED BY <1>1, <1>4, <1>5, <1>6, <1>7, <2>1 DEF CloseQueues
<1>. QED BY <1>9, <1>10, <1>11, <1>12 DEF Fragment

LEMMA FragmentKeepsStages ==
    ASSUME Stages, Fragment, UNCHANGED <<encoder, capacity>>
    PROVE  Stages'
<1> DEFINE t == Fragmenter
<1>1. /\ t \in Threads /\ QueueOK /\ SendOK /\ RecvOK /\ HandOK /\ PcOK
      /\ TurnOK' /\ UNCHANGED <<queue, open, recv, row, state>>
  BY Wired, FragmentCases DEF Stages
<1>2. QueueOK' /\ RecvOK'
  BY <1>1 DEF QueueOK, RecvOK
<1>3. CASE \E i \in DOMAIN Outputs[t], s \in Seq(Operations) : Fragments(Outputs[t][i], s)
  <2>1. PICK i \in DOMAIN Outputs[t], s \in Seq(Operations) : Fragments(Outputs[t][i], s)
    BY <1>3
  <2>2. PICK q \in Queues : q = Outputs[t][i] /\ Genuine(q) = CoarseChunks
    BY <1>1, Wired, Lanes
  <2>3. inHand[t] \in Seq(CoarseChunks) /\ inHand[t] # <<>>
    BY <1>1, <2>1 DEF HandOK, Fragments, Cut
  <2>4. Head(inHand[t]) \in CoarseChunks /\ Tail(inHand[t]) \in Seq(CoarseChunks)
    BY <2>3, HeadTailProperties
  <2>5. SendOK'
    <3>1. send[t][q] \in Seq(CoarseChunks)
      BY <1>1, <2>2 DEF SendOK, Filled
    <3>2. PICK e : e = Append(send[t][q], Head(inHand[t]))
      OBVIOUS
    <3>3. e \in Seq(Genuine(q))
      BY <2>2, <2>4, <3>1, <3>2, AppendProperties
    <3>4. send' = [send EXCEPT ![t][q] = e]
      BY <2>1, <2>2, <3>2, Zenon DEF Fragments
    <3>5. Filled(send')
      BY <1>1, <3>3, <3>4, BufferUpdate DEF SendOK
    <3>. QED BY <3>5 DEF SendOK
  <2>6. HandOK'
    <3>1. inHand' = [inHand EXCEPT ![t] = Tail(inHand[t])]
      BY <2>1 DEF Fragments, Cut
    <3>2. Tail(inHand[t]) \in Buffer
      BY <2>4, Kinds
    <3>. QED BY <1>1, <2>4, <3>1, <3>2 DEF HandOK
  <2>7. PcOK'
    <3>1. todo' = [todo EXCEPT ![t] = s] /\ pc' = pc
      BY <2>1, Zenon DEF Fragments
    <3>. QED BY <1>1, <3>1 DEF PcOK
  <2>. QED BY <1>1, <1>2, <2>5, <2>6, <2>7 DEF Stages
<1>4. CASE \E s \in Seq(Operations) : Closes(s)
  <2>1. PICK s \in Seq(Operations) : Closes(s)
    BY <1>4
  <2>2. /\ todo' = [todo EXCEPT ![t] = s] /\ UNCHANGED <<send, inHand>>
        /\ pc' = pc \/ pc' = [pc EXCEPT ![t] = "leave"]
    BY <2>1 DEF Closes
  <2>3. SendOK' /\ HandOK'
    BY <1>1, <2>2 DEF SendOK, HandOK
  <2>4. PcOK'
    BY <1>1, <2>2 DEF PcOK, Label
  <2>. QED BY <1>1, <1>2, <2>3, <2>4 DEF Stages
<1>. QED BY <1>3, <1>4, FragmentCases

\* A coarse chunk is refined into the fine ones the file has there.
LEMMA RefineGenuine ==
    \A c \in CoarseChunks : RefineNumbers(c) \in Seq(FineChunks) /\ RefineNumbers(c) # <<>>
<1> SUFFICES ASSUME NEW c \in CoarseChunks
             PROVE  RefineNumbers(c) \in Seq(FineChunks) /\ RefineNumbers(c) # <<>>
  OBVIOUS
<1>1. PICK k \in 1..Len(Cuts) : c = Cuts[k]
  BY DEF CoarseChunks
<1>2. /\ Len(Cuts) \in Nat /\ c \in Coarse /\ c.l1 = k - 1
      /\ c.data \in Seq(Contents) /\ Len(c.data) \in Nat \ {0}
  BY <1>1, CutFacts
<1>3. c.l1 \in Nat /\ c.l1 + 1 = k
  BY <1>2
<1>4. FineIn(c.l1) = Len(c.data) /\ Cuts[c.l1 + 1] = c
  BY <1>1, <1>3 DEF FineIn
<1>5. ASSUME NEW i \in 1..Len(c.data)
      PROVE  [l1 |-> c.l1, l2 |-> i - 1, last |-> i = Len(c.data),
              data |-> c.data[i], isDuplicate |-> FALSE] \in FineChunks
  <2>1. i - 1 \in Nat /\ i - 1 + 1 = i
    BY <1>2
  <2>2. c.data[i] \in Contents
    BY <1>2, ElementOfSeq
  <2> DEFINE d == [l1 |-> c.l1, l2 |-> i - 1, last |-> i = Len(c.data),
                   data |-> c.data[i], isDuplicate |-> FALSE]
  <2>4. /\ d \in Fine /\ d.l1 = c.l1 /\ d.l2 = i - 1 /\ d.last = (i = Len(c.data))
        /\ d.data = c.data[i]
    BY <1>3, <2>1, <2>2 DEF Fine

  <2> HIDE DEF d
  <2>5. /\ d.l1 + 1 \in 1..Len(Cuts) /\ d.l2 + 1 = i /\ FineIn(d.l1) = Len(c.data)
        /\ Cuts[d.l1 + 1] = c
    BY <1>1, <1>3, <1>4, <2>1, <2>4
  <2>6. d \in FineChunks
    BY <2>4, <2>5 DEF FineChunks
  <2>. QED BY <2>6 DEF d
<1>6. RefineNumbers(c)
 \in [1..Len(c.data) -> FineChunks]
  BY <1>5 DEF RefineNumbers
<1>7. RefineNumbers(c) \in Seq(FineChunks)
  BY <1>2, <1>6, SeqDef
<1>8. DOMAIN RefineNumbers(c) # {}
  BY <1>2, <1>6
<1>. QED BY <1>7, <1>8

LEMMA MarkGenuine ==
    ASSUME NEW c \in FineChunks, NEW b \in BOOLEAN
    PROVE  /\ [c EXCEPT !.isDuplicate = b] \in FineChunks
           /\ [c EXCEPT !.isDuplicate = b].data = c.data
           /\ [c EXCEPT !.isDuplicate = b].isDuplicate = b

<1>1. c \in Fine
  BY Kinds
<1> DEFINE d == [c EXCEPT !.isDuplicate = b]
<1>2. /\ d \in Fine /\ d.l1 = c.l1 /\ d.l2 = c.l2 /\ d.last = c.last /\ d.data = c.data
      /\ d.isDuplicate = b
  BY <1>1 DEF Fine
<1> HIDE DEF d
<1>3. d \in FineChunks
  BY <1>2 DEF FineChunks
<1>. QED BY <1>2, <1>3 DEF d

Workers == Refiners \cup Dedupers \cup Compressors

\* What a stage does with the chunks it has
Works(t) == \/ t \in Refiners /\ RefineChunk(t)
            \/ t \in Dedupers /\ \E before \in Seq(Own) : DeduplicateChunk(t, before)
            \/ t \in Compressors /\ (CompressChunk(t) \/ CrossPop(t))

Worker(t) == \/ t \in Refiners /\ Refine(t)
             \/ t \in Dedupers /\ Deduplicate(t)
             \/ t \in Compressors /\ Compress(t)

LEMMA WorkerCases ==
    ASSUME NEW t, Worker(t)
    PROVE  /\ t \in Workers /\ t \in Threads /\ Idle(t)
           /\ Receive(t) \/ (\E s \in Seq(Own) : Leave(t, s)) \/ Works(t)
<1> DEFINE goal == Receive(t) \/ (\E s \in Seq(Own) : Leave(t, s)) \/ Works(t)
<1>1. t \in Workers /\ t \in Threads
  BY Wired DEF Worker, Workers
<1>2. \A o \in Queues, p \in Queues :
          /\ <<Close(o)>> \in Seq(Own) /\ <<Close(o), Close(p)>> \in Seq(Own)
  BY OperationFacts, OperationSequences
<1>3. Outputs[t][1] \in Queues
  BY <1>1, Wired DEF Workers
<1>4. EndAll(Outputs[t]) \in Seq(Own) /\ EndAll(Extras[t]) \in Seq(Own)
  BY <1>1, OperationSequences
<1>5. Drain(t, Outputs[t][1]) \in Seq(Own) /\ <<Close(Outputs[t][1])>> \in Seq(Own)
  BY <1>1, <1>2, <1>3, OperationSequences
<1>6. Drain(t, Outputs[t][1]) \o EndAll(Outputs[t]) \in Seq(Own)
  BY <1>4, <1>5, OperationSequences
<1>7. CASE t \in Refiners /\ Refine(t)
  <2>1. /\ Idle(t)
        /\ \/ Receive(t) \/ RefineChunk(t)
           \/ Leave(t, Drain(t, Outputs[t][1]) \o EndAll(Outputs[t]))
           \/ Leave(t, <<Close(Outputs[t][1])>>)
    BY <1>7, Zenon DEF Refine, FragmentRefineDefault, RefineNaiveQueue, RefineSmart, RefineFifo
  <2>. QED BY <1>1, <1>5, <1>6, <1>7, <2>1 DEF Works
<1>8. CASE t \in Compressors /\ Compress(t)
  <2>1. /\ Idle(t)
        /\ \/ Receive(t) \/ CompressChunk(t) \/ CrossPop(t)
           \/ Leave(t, Drain(t, Outputs[t][1]) \o EndAll(Outputs[t]))
           \/ Leave(t, <<Close(Outputs[t][1])>>)
    BY <1>8, Zenon DEF Compress, CompressDefault, CompressNaiveQueue, CompressSmart, CompressFifo
  <2>. QED BY <1>1, <1>5, <1>6, <1>8, <2>1 DEF Works
<1>9. CASE t \in Dedupers /\ Deduplicate(t)
  <2>1. Extras[t][1] \in Queues
    BY <1>9, Wired
  <2>2. Drain(t, Extras[t][1]) \in Seq(Own) /\ CloseBoth(t) \in Seq(Own)
    BY <1>1, <1>2, <1>3, <2>1, OperationSequences DEF CloseBoth
  <2>3. Drain(t, Outputs[t][1]) \o Drain(t, Extras[t][1]) \o EndAll(Outputs[t]) \o EndAll(Extras[t])
            \in Seq(Own)
    BY <1>4, <1>5, <2>2, OperationSequences
  <2>4. \A b \in BOOLEAN : ForcePush(t, Destination(t, b)) \in Seq(Own)
    BY <1>1, <1>3, <2>1, OperationSequences DEF Destination
  <2>5. <<>> \in Seq(Own)
    BY EmptySeq
  <2>6. CASE DeduplicateNaiveQueue(t)
    <3> DEFINE dup == state[Head(recv[t][Inputs[t][1]]).data] # "absent"
               n == IF row[t].compressed = ~dup THEN row[t].n + 1 ELSE 1
               idle == row[t].compressed = ~dup /\ n = RowLimit
               other == IF idle THEN ForcePush(t, Destination(t, ~dup)) ELSE <<>>
    <3>1. Idle(t) /\ (Receive(t) \/ DeduplicateChunk(t, other) \/ Leave(t, CloseBoth(t)))
      BY <2>6, Zenon DEF DeduplicateNaiveQueue
    <3>2. other \in Seq(Own)
      BY <2>4, <2>5
    <3> HIDE DEF other
    <3>. QED BY <1>1, <1>9, <2>2, <3>1, <3>2 DEF Works
  <2>7. CASE DeduplicateDefault(t) \/ DeduplicateSmart(t) \/ DeduplicateFifo(t)
    <3>1. /\ Idle(t)
          /\ \/ Receive(t) \/ DeduplicateChunk(t, <<>>) \/ Leave(t, CloseBoth(t))
             \/ Leave(t, Drain(t, Outputs[t][1]) \o Drain(t, Extras[t][1])
                         \o EndAll(Outputs[t]) \o EndAll(Extras[t]))
      BY <2>7, Zenon DEF DeduplicateDefault, DeduplicateSmart, DeduplicateFifo
    <3>. QED BY <1>1, <1>9, <2>2, <2>3, <2>5, <3>1 DEF Works
  <2>. QED BY <1>9, <2>6, <2>7 DEF Deduplicate
<1>. QED BY <1>7, <1>8, <1>9 DEF Worker

LEMMA ReceiveKeepsStages ==
    ASSUME Stages, NEW t \in Workers, Receive(t), UNCHANGED <<encoder, capacity>>
    PROVE  Stages'
<1>1. /\ t \in Threads /\ Inputs[t][1] \in Queues
      /\ Inputs[t][1] \in CoarseQueues => t \in Refiners
  BY Wired, Lanes DEF Workers
<1>2. /\ Dequeue(t, Inputs[t][1])
      /\ UNCHANGED <<open, send, inHand, turn, row, pc, todo, state>>
  BY DEF Receive
<1>3. QueueOK' /\ RecvOK'
  BY <1>1, <1>2, Dequeued DEF Stages
<1>4. SendOK' /\ HandOK' /\ TurnOK' /\ PcOK'
  BY <1>2 DEF Stages, SendOK, HandOK, TurnOK, PcOK
<1>. QED BY <1>3, <1>4 DEF Stages

LEMMA LeaveKeepsStages ==
    ASSUME Stages, NEW t \in Workers, NEW s \in Seq(Own), Leave(t, s), UNCHANGED <<encoder, capacity>>
    PROVE  Stages'
<1>1. /\ pc' = [pc EXCEPT ![t] = "leave"] /\ todo' = [todo EXCEPT ![t] = s]
      /\ UNCHANGED <<queue, open, send, recv, inHand, turn, row, state>>
  BY DEF Leave
<1>2. QueueOK' /\ SendOK' /\ RecvOK' /\ HandOK' /\ TurnOK'
  BY <1>1 DEF Stages, QueueOK, SendOK, RecvOK, HandOK, TurnOK
<1>3. s \in Seq(Operations)
  BY OperationSequences
<1>4. PcOK'
  BY <1>1, <1>3 DEF Stages, PcOK, Label
<1>. QED BY <1>2, <1>4 DEF Stages

LEMMA RefineChunkKeepsStages ==
    ASSUME Stages, NEW t \in Refiners, RefineChunk(t), UNCHANGED <<encoder, capacity>>
    PROVE  /\ Stages' /\ Outputs[t][1] \in Queues
           /\ \E chunk \in FineChunks : Replaced(send, send', t, Outputs[t][1],
                                                 Append(send[t][Outputs[t][1]], chunk))
<1> DEFINE in == Inputs[t][1]
           fine == IF inHand[t] # <<>> THEN inHand[t] ELSE RefineNumbers(Head(recv[t][in]))
<1>1. /\ t \in Threads /\ t # Fragmenter /\ in \in Queues /\ in \in CoarseQueues
      /\ Genuine(in) = CoarseChunks
      /\ Outputs[t][1] \in Queues /\ Genuine(Outputs[t][1]) = FineChunks
  BY Wired, Lanes, Routes
<1>2. /\ inHand[t] # <<>> \/ recv[t][in] # <<>>
      /\ recv' = IF inHand[t] # <<>> THEN recv ELSE [recv EXCEPT ![t][in] = Tail(recv[t][in])]
      /\ inHand' = [inHand EXCEPT ![t] = Tail(fine)]
      /\ Put(t, Outputs[t][1], Head(fine), <<>>)
      /\ UNCHANGED <<queue, open, turn, row, pc, state>>
  BY Zenon DEF RefineChunk
<1>3. RecvOK' /\ fine \in Seq(FineChunks) /\ fine # <<>>
  <2>1. CASE inHand[t] # <<>>
    <3>1. recv' = recv /\ fine = inHand[t]
      BY <1>2, <2>1
    <3>2. inHand[t] \in Seq(FineChunks)
      BY <1>1 DEF Stages, HandOK
    <3>. QED BY <2>1, <3>1, <3>2 DEF Stages, RecvOK
  <2>2. CASE inHand[t] = <<>>
    <3>1. recv[t][in] # <<>> /\ recv' = [recv EXCEPT ![t][in] = Tail(recv[t][in])]
      BY <1>2, <2>2, Zenon
    <3>2. RecvOK' /\ Head(recv[t][in]) \in CoarseChunks
      BY <1>1, <3>1, Taken DEF Stages
    <3>3. fine = RefineNumbers(Head(recv[t][in]))
      BY <2>2
    <3>. QED BY <3>2, <3>3, RefineGenuine
  <2>. QED BY <2>1, <2>2
<1> HIDE DEF fine
<1>4. Head(fine) \in FineChunks /\ Tail(fine) \in Seq(FineChunks)
  BY <1>3, HeadTailProperties
<1>5. PICK chunk \in FineChunks : chunk = Head(fine)
  BY <1>4
<1>6. Put(t, Outputs[t][1], chunk, <<>>) /\ <<>> \in Seq(Operations)
  BY <1>2, <1>5, EmptySeq
<1>7. /\ SendOK' /\ todo' \in [Threads -> Seq(Operations)]
      /\ Replaced(send, send', t, Outputs[t][1], Append(send[t][Outputs[t][1]], chunk))
  BY <1>1, <1>6, Added DEF Stages
<1>8. HandOK'
  <2>1. Tail(fine) \in Buffer
    BY <1>4, Kinds
  <2>. QED BY <1>1, <1>2, <1>4, <2>1 DEF Stages, HandOK
<1>9. QueueOK' /\ TurnOK' /\ PcOK'
  BY <1>2, <1>7 DEF Stages, QueueOK, TurnOK, PcOK
<1>. QED BY <1>1, <1>3, <1>7, <1>8, <1>9 DEF Stages

LEMMA DeduplicateChunkKeepsStages ==
    ASSUME Stages, NEW t \in Dedupers, NEW before \in Seq(Own), DeduplicateChunk(t, before),
           UNCHANGED <<encoder, capacity>>
    PROVE  /\ Stages'
           /\ \E chunk \in FineChunks, dup \in BOOLEAN :
                 /\ chunk = Head(recv[t][Inputs[t][1]]) /\ dup = (state[chunk.data] # "absent")
                 /\ Put(t, Destination(t, dup), [chunk EXCEPT !.isDuplicate = dup], before)
                 /\ Replaced(send, send', t, Destination(t, dup),
                             Append(send[t][Destination(t, dup)], [chunk EXCEPT !.isDuplicate = dup]))
<1> DEFINE in == Inputs[t][1]
<1>1. /\ t \in Threads /\ t # Fragmenter /\ in \in Queues /\ Genuine(in) = FineChunks
      /\ Outputs[t][1] \in Queues /\ Genuine(Outputs[t][1]) = FineChunks
      /\ Extras[t][1] \in Queues /\ Genuine(Extras[t][1]) = FineChunks
  BY Wired, Lanes
<1>2. PICK chunk, dup : chunk = Head(recv[t][in]) /\ dup = (state[chunk.data] # "absent")
  OBVIOUS
<1>3. dup \in BOOLEAN
  BY <1>2
<1>4. /\ recv[t][in] # <<>> /\ recv' = [recv EXCEPT ![t][in] = Tail(recv[t][in])]
      /\ Put(t, Destination(t, dup), [chunk EXCEPT !.isDuplicate = dup], before)
      /\ UNCHANGED <<queue, open, inHand, turn, pc>>
  BY <1>2, Zenon DEF DeduplicateChunk
<1>5. RecvOK' /\ chunk \in FineChunks
  <2>1. RecvOK /\ recv[t][in] # <<>> /\ recv' = [recv EXCEPT ![t][in] = Tail(recv[t][in])]
    BY <1>4 DEF Stages
  <2>2. RecvOK' /\ Head(recv[t][in]) \in Genuine(in)
    BY <1>1, <2>1, Taken
  <2>. QED BY <1>1, <1>2, <2>2
<1>6. PICK marked \in FineChunks : marked = [chunk EXCEPT !.isDuplicate = dup]
  BY <1>3, <1>5, MarkGenuine
<1>7. PICK to \in Queues : to = Destination(t, dup) /\ Genuine(to) = FineChunks
  BY <1>1 DEF Destination
<1>8. before \in Seq(Operations)
  BY OperationSequences
<1>9. SendOK' /\ todo' \in [Threads -> Seq(Operations)] /\ Replaced(send, send', t, to, Append(send[t][to], marked))
  <2>1. Put(t, to, marked, before)
    BY <1>4, <1>6, <1>7
  <2>. QED BY <1>1, <1>6, <1>7, <1>8, <2>1, Added DEF Stages
<1>10. QueueOK' /\ TurnOK' /\ PcOK' /\ HandOK'
  BY <1>4, <1>9 DEF Stages, QueueOK, TurnOK, PcOK, HandOK
<1>11. Stages'
  BY <1>5, <1>9, <1>10 DEF Stages
<1>12. Replaced(send, send', t, Destination(t, dup),
                Append(send[t][Destination(t, dup)], [chunk EXCEPT !.isDuplicate = dup]))
  BY <1>6, <1>7, <1>9
<1>13. Put(t, Destination(t, dup), [chunk EXCEPT !.isDuplicate = dup], before)
  BY <1>4
<1>14. \E c \in FineChunks, d \in BOOLEAN :
          /\ c = Head(recv[t][in]) /\ d = (state[c.data] # "absent")
          /\ Put(t, Destination(t, d), [c EXCEPT !.isDuplicate = d], before)
          /\ Replaced(send, send', t, Destination(t, d),
                      Append(send[t][Destination(t, d)], [c EXCEPT !.isDuplicate = d]))
  <2>1. chunk \in FineChunks
    BY <1>5
  <2>. QED BY ONLY <1>2, <1>3, <1>12, <1>13, <2>1, Zenon
<1>. QED BY <1>11, <1>14, Zenon

LEMMA CompressChunkKeepsStages ==
    ASSUME Stages, NEW t \in Compressors, CompressChunk(t), UNCHANGED <<encoder, capacity>>
    PROVE  /\ Stages' /\ Outputs[t][1] \in Queues
           /\ \E chunk \in FineChunks :
                 /\ chunk = Head(recv[t][Inputs[t][1]])
                 /\ state' = [state EXCEPT ![chunk.data] = "compressed"]
                 /\ Replaced(send, send', t, Outputs[t][1], Append(send[t][Outputs[t][1]], chunk))
<1> DEFINE in == Inputs[t][1]
<1>1. /\ t \in Threads /\ t # Fragmenter /\ in \in Queues /\ Genuine(in) = FineChunks
      /\ Outputs[t][1] \in Queues /\ Genuine(Outputs[t][1]) = FineChunks
  BY Wired, Lanes
<1>2. PICK chunk : chunk = Head(recv[t][in])
  OBVIOUS
<1>3. /\ recv[t][in] # <<>> /\ recv' = [recv EXCEPT ![t][in] = Tail(recv[t][in])]
      /\ state' = [state EXCEPT ![chunk.data] = "compressed"]
      /\ Put(t, Outputs[t][1], chunk, <<>>)
      /\ UNCHANGED <<queue, open, inHand, turn, row, pc>>
  BY <1>2, Zenon DEF CompressChunk, sub_Compress
<1>4. RecvOK' /\ chunk \in FineChunks
  BY <1>1, <1>2, <1>3, Taken DEF Stages
<1>5. <<>> \in Seq(Operations)
  BY EmptySeq
<1>6. /\ SendOK' /\ todo' \in [Threads -> Seq(Operations)]
      /\ Replaced(send, send', t, Outputs[t][1], Append(send[t][Outputs[t][1]], chunk))
  BY <1>1, <1>3, <1>4, <1>5, Added DEF Stages
<1>7. QueueOK' /\ TurnOK' /\ PcOK' /\ HandOK'
  BY <1>3, <1>6 DEF Stages, QueueOK, TurnOK, PcOK, HandOK
<1>8. Stages'
  BY <1>4, <1>6, <1>7 DEF Stages
<1>9. \E c \in FineChunks :
          /\ c = Head(recv[t][in]) /\ state' = [state EXCEPT ![c.data] = "compressed"]
          /\ Replaced(send, send', t, Outputs[t][1], Append(send[t][Outputs[t][1]], c))
  BY ONLY <1>2, <1>3, <1>4, <1>6, Zenon
<1>. QED BY <1>1, <1>8, <1>9

LEMMA CrossPopKeepsStages ==
    ASSUME Stages, NEW t \in Compressors, CrossPop(t), UNCHANGED <<encoder, capacity>>
    PROVE  Stages'
<1>1. t \in Threads /\ Outputs[t][1] \in Queues
  BY Wired
<1>2. ForcePush(t, Outputs[t][1]) \in Seq(Operations)
  BY <1>1, OperationSequences
<1>3. /\ todo' = [todo EXCEPT ![t] = ForcePush(t, Outputs[t][1])]
      /\ UNCHANGED <<queue, open, send, recv, inHand, turn, row, pc, state>>
  BY DEF CrossPop
<1>4. QueueOK' /\ SendOK' /\ RecvOK' /\ HandOK' /\ TurnOK'
  BY <1>3 DEF Stages, QueueOK, SendOK, RecvOK, HandOK, TurnOK
<1>5. PcOK'
  BY <1>2, <1>3 DEF Stages, PcOK
<1>. QED BY <1>4, <1>5 DEF Stages
---------------------------------------------------------------------------------
(* The cache of Reorder *)

LEMMA HeapInsertFacts ==
    ASSUME NEW S, NEW h \in Seq(S), NEW x \in S
    PROVE  HeapInsert(h, x) \in Seq(S) /\ HeapInsert(h, x) # <<>>
<1> DEFINE n == Len(h) + 1
           Rises(i) == i > 1 /\ h[i \div 2].l2 > x.l2
           Path[i \in 1..n] == IF Rises(i) THEN {i \div 2} \cup Path[i \div 2] ELSE {}
           new == [i \in 1..n |-> IF i # n /\ i \notin Path[n] THEN h[i]
                                  ELSE IF Rises(i) THEN h[i \div 2] ELSE x]
<1>1. HeapInsert(h, x) = new
  BY Zenon DEF HeapInsert
<1> HIDE DEF Path
<1>2. Len(h) \in Nat /\ \A i \in 1..Len(h) : h[i] \in S
  BY LenProperties, ElementOfSeq
<1>3. \A i \in 1..n : i # n => h[i] \in S
  BY <1>2
<1>4. \A i \in 1..n : i > 1 => h[i \div 2] \in S
  <2>1. \A m \in Nat : \A i \in 1..m + 1 : i > 1 => i \div 2 \in 1..m
    OBVIOUS
  <2>. QED BY <1>2, <2>1
<1>5. \A i \in 1..n : new[i] \in S
  BY <1>3, <1>4
<1>6. n \in Nat \ {0} /\ DOMAIN new = 1..n /\ new = [i \in 1..n |-> new[i]]
  BY <1>2
<1> HIDE DEF new, n
<1>7. new \in [1..n -> S]
  BY <1>5, <1>6
<1>8. new \in Seq(S)
  BY <1>6, <1>7, SeqDef
<1>9. 1 \in DOMAIN new
  BY <1>6
<1>. QED BY <1>1, <1>8, <1>9

LEMMA HeapDeleteMinFacts ==
    ASSUME NEW S, NEW h \in Seq(S), h # <<>>
    PROVE  HeapDeleteMin(h) \in Seq(S)
<1> DEFINE n == Len(h) - 1
           Child(i) == IF 2 * i # n /\ h[2 * i + 1].l2 < h[2 * i].l2 THEN 2 * i + 1 ELSE 2 * i
           Sinks(i) == 2 * i <= n /\ h[n + 1].l2 > h[Child(i)].l2
           Path[i \in 1..n + 1] == {i} \cup IF Sinks(i) THEN Path[Child(i)] ELSE {}
           new == [i \in 1..n |-> IF i \notin Path[1] THEN h[i]
                                  ELSE IF Sinks(i) THEN h[Child(i)] ELSE h[n + 1]]
<1>1. HeapDeleteMin(h) = new
  BY Zenon DEF HeapDeleteMin
<1> HIDE DEF Path
<1>2. Len(h) \in Nat \ {0} /\ \A i \in 1..Len(h) : h[i] \in S
  BY EmptySeq, ElementOfSeq
<1>3. n \in Nat /\ h[n + 1] \in S /\ \A i \in 1..n : h[i] \in S
  BY <1>2
<1>4. \A i \in 1..n : 2 * i <= n => h[Child(i)] \in S
  <2>1. ASSUME NEW i \in 1..n, 2 * i <= n PROVE h[Child(i)] \in S
    <3>1. 2 * i \in 1..n /\ (2 * i # n => 2 * i + 1 \in 1..n)
      BY <1>3, <2>1
    <3>2. Child(i) \in 1..n
      BY <3>1
    <3> HIDE DEF Child
    <3>. QED BY <1>3, <3>2
  <2>. QED BY <2>1
<1> HIDE DEF Child
<1>5. \A i \in 1..n : new[i] \in S
  BY <1>3, <1>4
<1>6. DOMAIN new = 1..n /\ new = [i \in 1..n |-> new[i]]
  OBVIOUS
<1> HIDE DEF new, n
<1>7. new \in [1..n -> S]
  BY <1>5, <1>6
<1>. QED BY <1>1, <1>3, <1>7, SeqDef

LEMMA FineFacts ==
    \A c \in FineChunks :
        /\ c \in Fine /\ c.l1 \in Nat /\ c.l2 \in Nat /\ c.data \in Contents
        /\ c \in InNode(c.l1)
        /\ c.l1 + 1 \in 1..Len(Cuts) /\ c.l2 + 1 \in 1..FineIn(c.l1)
        /\ c.data = Cuts[c.l1 + 1].data[c.l2 + 1]
        /\ c.last => c.l2 + 1 = FineIn(c.l1)
BY DEF FineChunks, Fine, InNode

LEMMA InsertKeepsTree ==
    ASSUME NEW tr, TreeOK(tr), NEW c \in FineChunks
    PROVE  TreeOK(TreeInsert(tr, c))
<1> DEFINE new == TreeInsert(tr, c)
<1>1. /\ DOMAIN new = DOMAIN tr \cup {c.l1}
      /\ \A l1 \in DOMAIN new :
            new[l1] = IF l1 # c.l1 THEN tr[l1]
                      ELSE HeapInsert(IF l1 \in DOMAIN tr THEN tr[l1] ELSE <<>>, c)
  BY DEF TreeInsert
<1> HIDE DEF new
<1>2. c \in InNode(c.l1) /\ c.l1 \in Nat
  BY FineFacts
<1>3. ASSUME NEW l1 \in DOMAIN new
      PROVE  l1 \in Nat /\ new[l1] \in Seq(InNode(l1)) /\ new[l1] # <<>>
  <2>1. CASE l1 # c.l1
    <3>1. l1 \in DOMAIN tr /\ new[l1] = tr[l1]
      BY <1>1, <2>1
    <3>. QED BY <3>1 DEF TreeOK
  <2>2. CASE l1 = c.l1
    <3>1. PICK h \in Seq(InNode(l1)) : new[l1] = HeapInsert(h, c)
      <4>1. CASE l1 \in DOMAIN tr
        BY <1>1, <2>2, <4>1 DEF TreeOK
      <4>2. CASE l1 \notin DOMAIN tr
        BY <1>1, <2>2, <4>2, EmptySeq
      <4>. QED BY <4>1, <4>2
    <3>. QED BY <1>2, <2>2, <3>1, HeapInsertFacts
  <2>. QED BY <2>1, <2>2
<1>4. TreeOK(new)
  BY <1>3 DEF TreeOK
<1>. QED BY <1>4 DEF new

LEMMA DeleteKeepsTree ==
    ASSUME NEW tr, TreeOK(tr), NEW l \in DOMAIN tr
    PROVE  TreeOK(TreeDelete(tr, l))
<1> DEFINE new == TreeDelete(tr, l)
<1>1. PICK rest : rest = HeapDeleteMin(tr[l])
  OBVIOUS
<1>2. new = [k \in (IF rest = <<>> THEN DOMAIN tr \ {l} ELSE DOMAIN tr) |-> IF k = l THEN rest ELSE tr[k]]
  BY <1>1, Zenon DEF TreeDelete
<1> HIDE DEF new
<1>3. rest \in Seq(InNode(l)) /\ l \in Nat
  BY <1>1, HeapDeleteMinFacts DEF TreeOK
<1>4. ASSUME NEW k \in DOMAIN new
      PROVE  k \in Nat /\ new[k] \in Seq(InNode(k)) /\ new[k] # <<>>
  <2>1. k \in DOMAIN tr /\ new[k] = (IF k = l THEN rest ELSE tr[k]) /\ (k = l => rest # <<>>)
    BY <1>2
  <2>. QED BY <1>3, <2>1 DEF TreeOK
<1>5. TreeOK(new)
  BY <1>4 DEF TreeOK
<1>. QED BY <1>5 DEF new

LEMMA CountKeepsAnchors ==
    ASSUME AnchorsOK(perAnchor), NEW c \in FineChunks, CountAnchor(c)
    PROVE  AnchorsOK(perAnchor')
<1>1. CASE c.last
  <2>1. perAnchor' = [l1 \in DOMAIN perAnchor \cup {c.l1} |->
                         IF l1 = c.l1 THEN c.l2 + 1 ELSE perAnchor[l1]]
    BY <1>1 DEF CountAnchor
  <2>2. c.l1 + 1 \in 1..Len(Cuts) /\ c.l2 + 1 = FineIn(c.l1)
    BY <1>1, FineFacts
  <2>. QED BY <2>1, <2>2 DEF AnchorsOK
<1>2. CASE ~c.last
  BY <1>2 DEF CountAnchor
<1>. QED BY <1>1, <1>2

\* What is taken from the cache is the chunk with that number.
LEMMA CachedFacts ==
    ASSUME NEW tr, NEW cached, NEW position, TreeOK(tree), cached = Cached(position), cached # <<>>,
           tr = TreeDelete(tree, position.l1)
    PROVE  /\ TreeOK(tr)
           /\ \E c \in FineChunks : cached = <<c>> /\ c.l1 = position.l1 /\ c.l2 = position.l2
<1>1. /\ position.l1 \in DOMAIN tree /\ FindMin(tree[position.l1]).l2 = position.l2
      /\ cached = <<FindMin(tree[position.l1])>>
  BY DEF Cached
<1>2. TreeOK(tr)
  BY <1>1, DeleteKeepsTree
<1>3. tree[position.l1] \in Seq(InNode(position.l1)) /\ tree[position.l1] # <<>>
  BY <1>1 DEF TreeOK
<1>4. 1 \in 1..Len(tree[position.l1])
  BY <1>3, EmptySeq
<1>5. FindMin(tree[position.l1]) \in InNode(position.l1)
  BY <1>3, <1>4, ElementOfSeq DEF FindMin
<1>6. PICK c \in InNode(position.l1) : c = FindMin(tree[position.l1])
  BY <1>5
<1>7. c \in FineChunks /\ c.l1 = position.l1
  BY <1>6 DEF InNode
<1>. QED BY <1>1, <1>2, <1>6, <1>7
---------------------------------------------------------------------------------
(* The steps of Reorder *)

\* Reorder takes chunks from a queue, finds an ended one, or looks at a chunk.
Takes(q) == Dequeue(Reorderer, q) /\ UNCHANGED <<pc, tree, perAnchor, maxAnchors, hold>>
Finds == /\ UNCHANGED <<queue, recv, tree, perAnchor, maxAnchors, hold>>
         /\ \E l \in {pc[Reorderer], "flush"} : pc' = [pc EXCEPT ![Reorderer] = l]

LEMMA AskCases ==
    ASSUME TurnOK, Ask
    PROVE  /\ TurnOK' /\ UNCHANGED <<open, send, inHand, row, todo, state, next, archive>>
           /\ (\E i \in DOMAIN Inputs[Reorderer] : Takes(Inputs[Reorderer][i])) \/ Finds
<1> DEFINE i == turn[Reorderer]
           q == Inputs[Reorderer][i]
<1>1. /\ Reorderer \in Threads /\ i \in DOMAIN Inputs[Reorderer] /\ i \in Nat
      /\ DOMAIN Inputs[Reorderer] = 1..Len(Inputs[Reorderer]) /\ Len(Inputs[Reorderer]) \in Nat \ {0}
      /\ Fragmenter # Reorderer
  BY Wired DEF TurnOK
<1>2. \A n \in Nat, m \in Nat \ {0} : (n % m) + 1 \in 1..m
  OBVIOUS
<1>3. PICK j \in DOMAIN Inputs[Reorderer] : j = (i % Len(Inputs[Reorderer])) + 1
  BY <1>1, <1>2
<1>4. turn' = [turn EXCEPT ![Reorderer] = j]
  BY <1>3 DEF Ask
<1>5. TurnOK'
  BY <1>1, <1>3, <1>4 DEF TurnOK
<1>6. /\ UNCHANGED <<open, send, inHand, row, todo, state, next, archive>>
      /\ UNCHANGED <<tree, perAnchor, maxAnchors, hold>>
  BY DEF Ask
<1>7. \/ Dequeue(Reorderer, q) /\ UNCHANGED pc
      \/ /\ UNCHANGED <<queue, recv>>
         /\ pc' = [pc EXCEPT ![Reorderer] = IF misses' = Len(Inputs[Reorderer]) THEN "flush"
                                            ELSE pc[Reorderer]]
  BY Zenon DEF Ask
<1>8. CASE Dequeue(Reorderer, q) /\ UNCHANGED pc
  BY <1>1, <1>5, <1>6, <1>8 DEF Takes
<1>9. CASE /\ UNCHANGED <<queue, recv>>
           /\ pc' = [pc EXCEPT ![Reorderer] = IF misses' = Len(Inputs[Reorderer]) THEN "flush"
                                              ELSE pc[Reorderer]]
  <2>1. pc' = [pc EXCEPT ![Reorderer] = pc[Reorderer]] \/ pc' = [pc EXCEPT ![Reorderer] = "flush"]
    BY <1>9
  <2>. QED BY <1>5, <1>6, <1>9, <2>1 DEF Finds
<1>. QED BY <1>7, <1>8, <1>9

LEMMA ReadCases ==
    ASSUME Stages, Read
    PROVE  /\ TurnOK' /\ UNCHANGED <<encoder, capacity, open, send, inHand, todo, state, next, archive>>
           /\ pc[Reorderer] = "run" /\ hold = <<>>
           /\ \/ \E i \in DOMAIN Inputs[Reorderer] : Takes(Inputs[Reorderer][i])
              \/ Finds
              \/ \E q \in Queues : Accept(q)
<1>1. UNCHANGED <<encoder, capacity>>
  BY DEF Read
<1>2. pc[Reorderer] = "run" /\ hold = <<>>
  BY Zenon DEF Read, Reorder, ReorderDefault, ReorderNaiveQueue, ReorderSmartAhead, ReorderSmart,
               ReorderFifo, Reading
<1>3. Ask \/ (UNCHANGED turn /\ \E q \in Queues : Accept(q)) \/ PopInTurn
  BY Zenon DEF Read, Reorder, ReorderDefault, ReorderNaiveQueue, ReorderSmartAhead, ReorderSmart,
               ReorderFifo
<1>4. TurnOK

  BY DEF Stages
<1>5. \A q : Accept(q) => UNCHANGED <<open, send, inHand, todo, state, next, archive>>
  BY DEF Accept
<1>6. CASE Ask
  BY <1>1, <1>2, <1>4, <1>6, AskCases
<1>7. CASE UNCHANGED turn /\ \E q \in Queues : Accept(q)
  BY <1>1, <1>2, <1>4, <1>5, <1>7 DEF TurnOK
<1>8. CASE PopInTurn
  <2> DEFINE i == turn[Reorderer]
             q == Inputs[Reorderer][i]
  <2>1. /\ i \in DOMAIN Inputs[Reorderer] /\ i \in Nat /\ q \in Queues /\ Fragmenter # Reorderer
        /\ DOMAIN Inputs[Reorderer] = 1..Len(Inputs[Reorderer]) /\ Len(Inputs[Reorderer]) \in Nat \ {0}
    BY <1>4, Wired DEF TurnOK
  <2>2. \/ Ask
        \/ /\ Dequeue(Reorderer, q)
           /\ UNCHANGED <<open, send, inHand, turn, row, pc, todo, state, writer, misses>>
        \/ /\ Accept(q)
           /\ turn' = [turn EXCEPT ![Reorderer] = (i % Len(Inputs[Reorderer])) + 1]
    BY <1>8, Zenon DEF PopInTurn
  <2>3. CASE /\ Dequeue(Reorderer, q)
             /\ UNCHANGED <<open, send, inHand, turn, row, pc, todo, state, writer, misses>>
    <3>1. TurnOK'
      BY <1>4, <2>3 DEF TurnOK
    <3>2. Takes(q) /\ UNCHANGED <<open, send, inHand, todo, state, next, archive>>
      BY <2>3 DEF Takes, writer
    <3>. QED BY <1>1, <1>2, <2>1, <3>1, <3>2
  <2>4. CASE /\ Accept(q)
             /\ turn' = [turn EXCEPT ![Reorderer] = (i % Len(Inputs[Reorderer])) + 1]
    <3>1. \A n \in Nat, m \in Nat \ {0} : (n % m) + 1 \in 1..m
      OBVIOUS
    <3>2. PICK j \in DOMAIN Inputs[Reorderer] : j = (i % Len(Inputs[Reorderer])) + 1
      BY <2>1, <3>1
    <3>3. turn' = [turn EXCEPT ![Reorderer] = j] /\ j \in Nat
      BY <2>1, <2>4, <3>2
    <3>4. TurnOK'
      BY <1>4, <2>1, <3>3, Wired DEF TurnOK
    <3>. QED BY <1>1, <1>2, <1>5, <2>1, <2>4, <3>4
  <2>. QED BY <1>1, <1>2, <1>4, <2>2, <2>3, <2>4, AskCases
<1>. QED BY <1>3, <1>6, <1>7, <1>8

LEMMA TakesKeeps ==
    ASSUME Stages, NEW i \in DOMAIN Inputs[Reorderer], Takes(Inputs[Reorderer][i]), UNCHANGED capacity
    PROVE  QueueOK' /\ RecvOK'
<1>1. /\ Reorderer \in Threads /\ Inputs[Reorderer][i] \in Queues
      /\ Inputs[Reorderer][i] \notin CoarseQueues
  <2>1. Reorderer \in Threads \ Refiners
    BY Wired
  <2>. QED BY <2>1, Wired, Lanes
<1>2. Dequeue(Reorderer, Inputs[Reorderer][i])
  BY DEF Takes
<1>. QED BY <1>1, <1>2, Dequeued DEF Stages

LEMMA AcceptKeeps ==
    ASSUME Stages, Cache, NEW q \in Queues, Accept(q), hold = <<>>
    PROVE  /\ QueueOK' \/ capacity' # capacity
           /\ RecvOK' /\ Cache'
<1>1. /\ recv[Reorderer][q] # <<>>
      /\ recv' = [recv EXCEPT ![Reorderer][q] = Tail(recv[Reorderer][q])]
      /\ UNCHANGED <<queue, next>>
  BY Zenon DEF Accept
<1>2. Reorderer \in Threads /\ Reorderer \notin Refiners
  BY Wired
<1>3. RecvOK' /\ Head(recv[Reorderer][q]) \in Genuine(q)
  <2>1. RecvOK
    BY DEF Stages
  <2>. QED BY <1>1, <1>2, <2>1, Taken
<1>4. Genuine(q) = FineChunks
  BY <1>1, <1>2 DEF Stages, RecvOK, Genuine
<1>5. PICK c \in FineChunks : c = Head(recv[Reorderer][q])
  BY <1>3, <1>4
<1>6. Collect(c) \/ Arrange(c)
  BY <1>5, Zenon DEF Accept
<1>7. CountAnchor(c)
  BY <1>6 DEF Collect, Arrange
<1>8. AnchorsOK(perAnchor')
  BY <1>7, CountKeepsAnchors DEF Cache
<1>9. \/ hold' = <<c>> /\ InSequence(c) /\ tree' = tree
      \/ hold' = hold /\ tree' = TreeInsert(tree, c)
  BY <1>6 DEF Collect, Arrange
<1>10. TreeOK(tree')
  BY <1>9, InsertKeepsTree DEF Cache
<1>11. HoldOK'
  BY <1>1, <1>9 DEF HoldOK, InSequence
<1>12. QueueOK' \/ capacity' # capacity
  BY <1>1 DEF Stages, QueueOK
<1>. QED BY <1>3, <1>8, <1>10, <1>11, <1>12 DEF Cache

LEMMA ReadKeeps ==
    ASSUME Stages, Cache, Read
    PROVE  Stages' /\ Cache' /\ UNCHANGED <<encoder, capacity, send, state, next, archive>>
<1>1. /\ TurnOK' /\ UNCHANGED <<encoder, capacity, open, send, inHand, todo, state, next, archive>>
      /\ pc[Reorderer] = "run" /\ hold = <<>>
      /\ \/ \E i \in DOMAIN Inputs[Reorderer] : Takes(Inputs[Reorderer][i])
         \/ Finds
         \/ \E q \in Queues : Accept(q)
  BY ReadCases
<1>2. SendOK' /\ HandOK'
  BY <1>1 DEF Stages, SendOK, HandOK
<1>3. CASE \E i \in DOMAIN Inputs[Reorderer] : Takes(Inputs[Reorderer][i])
  <2>1. QueueOK' /\ RecvOK'
    BY <1>1, <1>3, TakesKeeps
  <2>2. UNCHANGED <<pc, tree, perAnchor, hold>>
    BY <1>3 DEF Takes
  <2>3. PcOK' /\ Cache'
    BY <1>1, <2>2 DEF Stages, PcOK, Cache, HoldOK, InSequence
  <2>. QED BY <1>1, <1>2, <2>1, <2>3 DEF Stages
<1>4. CASE Finds
  <2>1. UNCHANGED <<queue, recv, tree, perAnchor, hold>>
    BY <1>4 DEF Finds
  <2>2. pc' \in [Threads -> Label]
    BY <1>4 DEF Finds, Stages, PcOK, Label
  <2>3. QueueOK' /\ RecvOK' /\ PcOK' /\ Cache'
    BY <1>1, <2>1, <2>2 DEF Stages, QueueOK, RecvOK, PcOK, Cache, HoldOK, InSequence
  <2>. QED BY <1>1, <1>2, <2>3 DEF Stages
<1>5. CASE \E q \in Queues : Accept(q)
  <2>1. QueueOK' /\ RecvOK' /\ Cache'
    BY <1>1, <1>5, AcceptKeeps
  <2>2. pc' = pc
    BY <1>5 DEF Accept
  <2>3. PcOK'
    BY <1>1, <2>2 DEF Stages, PcOK
  <2>. QED BY <1>1, <1>2, <2>1, <2>3 DEF Stages
<1>. QED BY <1>1, <1>3, <1>4, <1>5
---------------------------------------------------------------------------------
(* Writing *)

Entry == [fingerprint : BOOLEAN, data : Contents]

LEMMA WriteParts ==
    ASSUME Inv, WriteAndAdvance
    PROVE  \E c \in FineChunks, r \in Entry :
              /\ hold = <<c>> /\ InSequence(c)
              /\ r.data = c.data /\ (r.fingerprint <=> state[c.data] = "flushed")
              /\ archive' = Append(archive, r)
              /\ state' = [state EXCEPT ![c.data] = "flushed"]
<1>1. PICK c \in FineChunks : hold = <<c>> /\ InSequence(c)
  BY DEF Inv, Cache, HoldOK, WriteAndAdvance
<1>2. hold[1] = c
  BY <1>1
<1>3. PICK r : r = [fingerprint |-> state[c.data] = "flushed", data |-> c.data]
  BY Zenon
<1>4. /\ archive' = Append(archive, r)
      /\ state' = [state EXCEPT ![c.data] = "flushed"]
  BY <1>2, <1>3, Zenon DEF WriteAndAdvance, write_chunk_to_file
<1>5. c.data \in Contents
  BY FineFacts
<1>6. r \in Entry /\ r.data = c.data /\ (r.fingerprint <=> state[c.data] = "flushed")
  BY <1>3, <1>5 DEF Entry
<1>. QED BY <1>1, <1>4, <1>6, Zenon

LEMMA WriteKeepsWritten ==
    ASSUME Inv, NEW c \in FineChunks, InSequence(c), NEW r \in Entry, r.data = c.data,
           archive' = Append(archive, r), next' = sequence_inc
    PROVE  Written'
<1>0. PICK k, n, m : k = next.l1 + 1 /\ n = Len(archive) /\ m = next.l2
  OBVIOUS
<1>1. /\ next \in [l1 : Nat, l2 : Nat] /\ archive \in Seq(Entry) /\ n \in Nat
      /\ n = Start[k] + m /\ m \in Nat
      /\ \A i \in 1..n : archive[i].data = File[i]
  BY <1>0, LenProperties DEF Inv, Written, Entry
<1>2. next.l1 = c.l1 /\ m = c.l2 /\ next.l1 \in Nat /\ c.l1 + 1 = k
  BY <1>0, <1>1 DEF InSequence
<1>3. /\ k \in 1..Len(Cuts) /\ m + 1 \in 1..FineIn(c.l1)
      /\ c.data = Cuts[k].data[m + 1] /\ FineIn(c.l1) = Len(Cuts[k].data)
  BY <1>2, FineFacts DEF FineIn
<1>4. /\ Len(Cuts) \in Nat /\ Len(File) \in Nat /\ Len(Cuts[k].data) \in Nat
      /\ Start[k] \in Nat /\ Start[k + 1] \in Nat /\ Start[k + 1] <= Len(File)
      /\ Start[k + 1] = Start[k] + Len(Cuts[k].data)
      /\ c.data = File[Start[k] + (m + 1)]
  <2>1. /\ Len(Cuts) \in Nat /\ Len(File) \in Nat
        /\ k \in 1..Len(Cuts) + 1 /\ k + 1 \in 1..Len(Cuts) + 1
    BY <1>3, CutFacts
  <2>2. Start[k] \in 0..Len(File) /\ Start[k + 1] \in 0..Len(File)
    BY <2>1, CutFacts
  <2>3. Start[k + 1] = Start[k] + Len(Cuts[k].data) /\ Len(Cuts[k].data) \in Nat
    BY <1>3, CutFacts
  <2>4. Cuts[k].data[m + 1] = File[Start[k] + (m + 1)]
    <3>1. m + 1 \in 1..Len(Cuts[k].data)
      BY <1>3
    <3>2. \A j \in 1..Len(Cuts[k].data) : Cuts[k].data[j] = File[Start[k] + j]
      BY <1>3, CutFacts
    <3>. QED BY <3>1, <3>2
  <2>5. c.data = File[Start[k] + (m + 1)]
    BY <1>3, <2>4
  <2>6. \A f \in Nat : 0..f \subseteq Nat /\ \A x \in 0..f : x <= f
    OBVIOUS
  <2>7. Start[k] \in Nat /\ Start[k + 1] \in Nat /\ Start[k + 1] <= Len(File)
    BY <2>1, <2>2, <2>6
  <2>. QED BY <2>1, <2>3, <2>5, <2>7
<1>5. /\ archive' \in Seq(Entry) /\ Len(archive') = n + 1
      /\ \A i \in 1..n : archive'[i] = archive[i]
      /\ archive'[n + 1] = r
  <2>0. archive \in Seq(Entry) /\ n = Len(archive) /\ n \in Nat
    BY <1>0, <1>1
  <2>1. Append(archive, r) \in Seq(Entry) /\ Len(Append(archive, r)) = n + 1
    BY <2>0, AppendProperties
  <2>2. \A i \in 1..n : Append(archive, r)[i] = archive[i]
    BY <2>0, AppendProperties
  <2>3. Append(archive, r)[n + 1] = r
    BY <2>0, AppendProperties
  <2>. QED BY <2>1, <2>2, <2>3
<1>6. Start[k] + (m + 1) = n + 1 /\ n + 1 <= Start[k + 1]
  <2>1. \A a, b, l, d, p \in Nat : p = a + d /\ b = a + l /\ d + 1 \in 1..l =>
            a + (d + 1) = p + 1 /\ p + 1 <= b
    OBVIOUS
  <2>2. m + 1 \in 1..Len(Cuts[k].data) /\ n = Start[k] + m
    BY <1>1, <1>3
  <2>3. /\ Start[k] \in Nat /\ Start[k + 1] \in Nat /\ Len(Cuts[k].data) \in Nat
        /\ m \in Nat /\ n \in Nat
    BY <1>1, <1>4
  <2>4. Start[k + 1] = Start[k] + Len(Cuts[k].data)
    BY <1>4
  <2> HIDE <1>1, <1>2, <1>3, <1>4
  <2>. QED BY <2>1, <2>2, <2>3, <2>4
<1>7. \A i \in 1..n + 1 : archive'[i].data = File[i]
  <2>1. archive'[n + 1].data = File[n + 1]
    BY <1>4, <1>5, <1>6
  <2>2. \A i \in 1..n + 1 : i \in 1..n \/ i = n + 1
    BY <1>1
  <2>. QED BY <1>1, <1>5, <2>1, <2>2
<1>8. /\ next' \in [l1 : Nat, l2 : Nat] /\ next'.l1 + 1 \in 1..Len(Cuts) + 1
      /\ n + 1 = Start[next'.l1 + 1] + next'.l2
  <2>0. next.l2 = m /\ next.l1 + 1 = k
    BY <1>0
  <2>1. CASE next.l1 \in DOMAIN perAnchor /\ perAnchor[next.l1] = m + 1
    <3>1. FineIn(c.l1) = m + 1
      BY <1>2, <2>1 DEF Inv, Cache, AnchorsOK
    <3>2. next' = [l1 |-> next.l1 + 1, l2 |-> 0]
      BY <2>0, <2>1 DEF sequence_inc
    <3>3. next'.l1 + 1 = k + 1 /\ next'.l2 = 0 /\ next' \in [l1 : Nat, l2 : Nat]
      BY <1>2, <2>0, <3>2
    <3>4. n + 1 = Start[k + 1] + 0 /\ k + 1 \in 1..Len(Cuts) + 1
      <4>0. k \in 1..Len(Cuts) /\ Len(Cuts) \in Nat
        BY <1>3, <1>4
      <4>1. k + 1 \in 1..Len(Cuts) + 1
        BY <4>0
      <4>2. Start[k + 1] = Start[k] + (m + 1)
        BY <1>3, <1>4, <3>1
      <4>. QED BY <1>1, <1>4, <1>6, <4>1, <4>2
    <3>. QED BY <3>3, <3>4
  <2>2. CASE ~(next.l1 \in DOMAIN perAnchor /\ perAnchor[next.l1] = m + 1)
    <3>1. next' = [next EXCEPT !.l2 = m + 1]
      BY <2>0, <2>2 DEF sequence_inc
    <3>2. next'.l1 = next.l1 /\ next'.l2 = m + 1 /\ next' \in [l1 : Nat, l2 : Nat]
      BY <1>1, <1>2, <3>1
    <3>3. k \in 1..Len(Cuts) + 1
      BY <1>3, <1>4
    <3>. QED BY <1>6, <2>0, <3>2, <3>3
  <2>. QED BY <2>1, <2>2
<1>9. n + 1 <= Len(File)
  BY <1>1, <1>4, <1>6
<1>. QED BY <1>0, <1>5, <1>7, <1>8, <1>9 DEF Written, Entry

LEMMA WriteKeepsTraced ==
    ASSUME Inv, NEW c \in FineChunks, NEW r \in Entry, r.data = c.data,
           r.fingerprint <=> state[c.data] = "flushed",
           archive' = Append(archive, r), state' = [state EXCEPT ![c.data] = "flushed"]
    PROVE  Traced'
<1> DEFINE n == Len(archive)
<1>1. archive \in Seq(Entry) /\ n \in Nat /\ c.data \in Contents
  BY FineFacts, LenProperties DEF Inv, Written, Entry
<1>2. /\ Len(archive') = n + 1 /\ \A i \in 1..n : archive'[i] = archive[i]
      /\ archive'[n + 1] = r
  BY <1>1, AppendProperties
<1>3. /\ state \in [Contents -> {"absent", "uncompressed", "compressed", "flushed"}]
      /\ \A d \in Contents : state[d] = "flushed" =>
            \E j \in 1..n : ~archive[j].fingerprint /\ archive[j].data = d
      /\ \A i \in 1..n : archive[i].fingerprint =>
            \E j \in 1..i - 1 : ~archive[j].fingerprint /\ archive[j].data = archive[i].data
  BY DEF Inv, Traced, FingerprintsFollowData, Known
<1>4. 1..n \subseteq 1..n + 1 /\ n + 1 \in 1..n + 1 /\ n + 1 - 1 = n
  BY <1>1
<1>5. ASSUME NEW d \in Contents, state'[d] = "flushed"
      PROVE  \E j \in 1..n + 1 : ~archive'[j].fingerprint /\ archive'[j].data = d
  <2>1. CASE state[d] = "flushed"
    <3>1. PICK j \in 1..n : ~archive[j].fingerprint /\ archive[j].data = d
      BY <1>3, <2>1
    <3>2. j \in 1..n + 1 /\ archive'[j] = archive[j]
      BY <1>2, <1>4
    <3>. QED BY <3>1, <3>2, Zenon
  <2>2. CASE state[d] # "flushed"
    <3>1. d = c.data
      BY <1>3, <1>5, <2>2
    <3>2. ~r.fingerprint /\ r.data = d
      BY <2>2, <3>1
    <3>. QED BY <1>2, <1>4, <3>2, Zenon
  <2>. QED BY <2>1, <2>2
<1>6. ASSUME NEW i \in 1..n + 1, archive'[i].fingerprint
      PROVE  \E j \in 1..i - 1 : ~archive'[j].fingerprint /\ archive'[j].data = archive'[i].data
  <2>1. CASE i \in 1..n
    <3>1. archive'[i] = archive[i]
      BY <1>2, <2>1
    <3>2. PICK j \in 1..i - 1 : ~archive[j].fingerprint /\ archive[j].data = archive[i].data
      BY <1>3, <1>6, <2>1, <3>1
    <3>3. j \in 1..n
      BY <1>1, <2>1
    <3>4. archive'[j] = archive[j]
      BY <1>2, <3>3
    <3>. QED BY <3>1, <3>2, <3>4, Zenon
  <2>2. CASE i = n + 1
    <3>1. state[c.data] = "flushed"
      BY <1>2, <1>6, <2>2
    <3>2. PICK j \in 1..n : ~archive[j].fingerprint /\ archive[j].data = c.data
      BY <1>1, <1>3, <3>1
    <3>3. archive'[j] = archive[j] /\ archive'[i].data = c.data
      BY <1>2, <2>2
    <3>4. j \in 1..i - 1
      BY <1>4, <2>2
    <3>. QED BY <3>2, <3>3, <3>4, Zenon
  <2>3. i \in 1..n \/ i = n + 1
    BY <1>1
  <2>. QED BY <2>1, <2>2, <2>3
<1>7. state' \in [Contents -> {"absent", "uncompressed", "compressed", "flushed"}]
  BY <1>3
<1>8. \A i \in 1..Len(archive') : Known(i)'
  BY <1>2, <1>6 DEF Known
<1>. QED BY <1>2, <1>5, <1>7, <1>8 DEF Traced, FingerprintsFollowData

LEMMA WriteKeeps ==
    ASSUME Inv, WriteAndAdvance
    PROVE  Inv'
<1>1. PICK c \in FineChunks, r \in Entry :
          /\ hold = <<c>> /\ InSequence(c)
          /\ r.data = c.data /\ (r.fingerprint <=> state[c.data] = "flushed")
          /\ archive' = Append(archive, r)
          /\ state' = [state EXCEPT ![c.data] = "flushed"]
  BY WriteParts
<1>2. /\ next' = sequence_inc /\ hold' = Cached(sequence_inc)
      /\ tree' = IF hold' = <<>> THEN tree ELSE TreeDelete(tree, next'.l1)
      /\ UNCHANGED <<encoder, capacity, stages, perAnchor, maxAnchors, misses>>
  BY Zenon DEF WriteAndAdvance
<1>3. Written'
  BY <1>1, <1>2, WriteKeepsWritten
<1>4. Traced'
  BY <1>1, WriteKeepsTraced
<1>5. Stages'
  BY <1>2 DEF Inv, Stages, QueueOK, SendOK, RecvOK, HandOK, TurnOK, PcOK, stages
<1>6. TreeOK(tree') /\ HoldOK'
  <2>1. CASE hold' = <<>>
    BY <1>2, <2>1 DEF Inv, Cache, HoldOK
  <2>2. CASE hold' # <<>>
    <3>1. hold' = Cached(next') /\ tree' = TreeDelete(tree, next'.l1)
      BY <1>2, <2>2
    <3>2. PICK position, cached, tr : position = next' /\ cached = hold' /\ tr = tree'
      OBVIOUS
    <3>3. TreeOK(tree)
      BY DEF Inv, Cache
    <3>4. TreeOK(tr)
      BY <2>2, <3>1, <3>2, <3>3, CachedFacts
    <3>5. \E d \in FineChunks : cached = <<d>> /\ d.l1 = position.l1 /\ d.l2 = position.l2
      BY <2>2, <3>1, <3>2, <3>3, CachedFacts
    <3>. QED BY <3>2, <3>4, <3>5 DEF HoldOK, InSequence
  <2>. QED BY <2>1, <2>2
<1>7. Cache'
  BY <1>2, <1>6 DEF Inv, Cache
<1>. QED BY <1>3, <1>4, <1>5, <1>7 DEF Inv

LEMMA FlushKeeps ==
    ASSUME Inv, FlushCache
    PROVE  Inv'
<1>1. /\ hold' = Cached(next)
      /\ tree' = IF hold' = <<>> THEN tree ELSE TreeDelete(tree, next.l1)
      /\ UNCHANGED <<encoder, capacity, queue, open, send, recv, inHand, turn, row, todo, state,
                     perAnchor, maxAnchors, next, archive, misses>>
      /\ \E l \in {pc[Reorderer], "done", "mismatch"} : pc' = [pc EXCEPT ![Reorderer] = l]
  BY DEF FlushCache
<1>2. Reorderer \in Threads
  BY Wired
<1>3. PcOK'
  BY <1>1, <1>2 DEF Inv, Stages, PcOK, Label
<1>4. QueueOK' /\ SendOK' /\ RecvOK' /\ HandOK' /\ TurnOK'
  BY <1>1 DEF Inv, Stages, QueueOK, SendOK, RecvOK, HandOK, TurnOK
<1>5. Written' /\ Traced'
  BY <1>1 DEF Inv, Written, Traced, FingerprintsFollowData, Known
<1>6. TreeOK(tree') /\ HoldOK'
  <2>1. CASE hold' = <<>>
    BY <1>1, <2>1 DEF Inv, Cache, HoldOK
  <2>2. CASE hold' # <<>>
    <3>1. hold' = Cached(next) /\ tree' = TreeDelete(tree, next.l1)
      BY <1>1, <2>2
    <3>2. PICK position, cached, tr : position = next /\ cached = hold' /\ tr = tree'
      OBVIOUS
    <3>3. TreeOK(tree)
      BY DEF Inv, Cache
    <3>4. TreeOK(tr)
      BY <2>2, <3>1, <3>2, <3>3, CachedFacts
    <3>5. \E d \in FineChunks : cached = <<d>> /\ d.l1 = position.l1 /\ d.l2 = position.l2
      BY <2>2, <3>1, <3>2, <3>3, CachedFacts
    <3>. QED BY <1>1, <3>2, <3>4, <3>5 DEF HoldOK, InSequence
  <2>. QED BY <2>1, <2>2
<1>7. Cache'
  BY <1>1, <1>6 DEF Inv, Cache
<1>. QED BY <1>3, <1>4, <1>5, <1>7 DEF Inv, Stages

\* A stage other than Reorder changes nothing Reorder writes, and flushes nothing.
LEMMA WorkKeepsTraced ==
    ASSUME Traced, archive' = archive,
           \/ state' = state
           \/ \E c \in Contents, s \in {"uncompressed", "compressed"} : state' = [state EXCEPT ![c] = s]
    PROVE  Traced'
<1>1. /\ state' \in [Contents -> {"absent", "uncompressed", "compressed", "flushed"}]
      /\ \A c \in Contents : state'[c] = "flushed" => state[c] = "flushed"
  BY DEF Traced
<1>. QED BY <1>1 DEF Traced, FingerprintsFollowData, Known

LEMMA StageKeeps ==
    ASSUME Inv, NEW t \in Threads, Stage(t) /\ UNCHANGED <<encoder, capacity, writer, misses>>
    PROVE  Inv'
<1>1. UNCHANGED <<encoder, capacity, tree, perAnchor, maxAnchors, next, hold, archive>>
  BY DEF writer
<1>2. Cache' /\ Written'
  BY <1>1 DEF Inv, Cache, HoldOK, InSequence, Written
<1>3. Stages /\ Traced
  BY DEF Inv
<1>0. UNCHANGED <<encoder, capacity>>
  BY <1>1
<1>4. CASE t = Fragmenter /\ Fragment
  <2>1. Stages'
    BY <1>1, <1>3, <1>4, FragmentKeepsStages
  <2>2. state' = state
    BY <1>3, <1>4, FragmentCases
  <2>. QED BY <1>1, <1>2, <1>3, <2>1, <2>2, WorkKeepsTraced DEF Inv
<1>5. CASE Worker(t)
  <2>1. t \in Workers /\ (Receive(t) \/ (\E s \in Seq(Own) : Leave(t, s)) \/ Works(t))
    BY <1>5, WorkerCases
  <2>2. CASE Receive(t)
    <3>1. Stages' /\ state' = state
      BY <1>1, <1>3, <2>1, <2>2, ReceiveKeepsStages DEF Receive
    <3>. QED BY <1>1, <1>2, <1>3, <3>1, WorkKeepsTraced DEF Inv
  <2>3. CASE \E s \in Seq(Own) : Leave(t, s)
    <3>1. Stages' /\ state' = state
      BY <1>1, <1>3, <2>1, <2>3, LeaveKeepsStages DEF Leave
    <3>. QED BY <1>1, <1>2, <1>3, <3>1, WorkKeepsTraced DEF Inv
  <2>4. CASE t \in Refiners /\ RefineChunk(t)
    <3>1. Stages'
      BY <1>0, <1>3, <2>4, RefineChunkKeepsStages

    <3>2. state' = state
      BY <2>4 DEF RefineChunk
    <3>. QED BY <1>1, <1>2, <1>3, <3>1, <3>2, WorkKeepsTraced DEF Inv
  <2>5. CASE t \in Dedupers /\ \E before \in Seq(Own) : DeduplicateChunk(t, before)
    <3>1. PICK before \in Seq(Own) : DeduplicateChunk(t, before)
      BY <2>5
    <3>2. /\ Stages'
          /\ \E chunk \in FineChunks, dup \in BOOLEAN :
                /\ chunk = Head(recv[t][Inputs[t][1]]) /\ dup = (state[chunk.data] # "absent")
                /\ Put(t, Destination(t, dup), [chunk EXCEPT !.isDuplicate = dup], before)
                /\ Replaced(send, send', t, Destination(t, dup),
                            Append(send[t][Destination(t, dup)], [chunk EXCEPT !.isDuplicate = dup]))
      BY <1>0, <1>3, <2>5, <3>1, DeduplicateChunkKeepsStages, Zenon
    <3>3. PICK chunk \in FineChunks : chunk = Head(recv[t][Inputs[t][1]])
      BY <3>2, Zenon
    <3>4. sub_Deduplicate(chunk)
      BY <3>1, <3>3, Zenon DEF DeduplicateChunk
    <3>7. chunk.data \in Contents
      BY FineFacts
    <3>5. state' = state \/ state' = [state EXCEPT ![chunk.data] = "uncompressed"]
      BY <3>4, Zenon DEF sub_Deduplicate
    <3>6. \/ state' = state
          \/ \E c \in Contents, s \in {"uncompressed", "compressed"} : state' = [state EXCEPT ![c] = s]
      BY <3>5, <3>7
    <3>8. Traced'
      BY <1>1, <1>3, <3>6, WorkKeepsTraced
    <3>. QED BY <1>2, <3>2, <3>8, Zenon DEF Inv

  <2>6. CASE t \in Compressors /\ CompressChunk(t)
    <3>1. /\ Stages'
          /\ \E chunk \in FineChunks : state' = [state EXCEPT ![chunk.data] = "compressed"]
      BY <1>1, <1>3, <2>6, CompressChunkKeepsStages
    <3>2. \E c \in Contents, s \in {"uncompressed", "compressed"} : state' = [state EXCEPT ![c] = s]
      BY <3>1, FineFacts
    <3>. QED BY <1>1, <1>2, <1>3, <3>1, <3>2, WorkKeepsTraced DEF Inv
  <2>7. CASE t \in Compressors /\ CrossPop(t)
    <3>1. Stages'
      BY <1>1, <1>3, <2>7, CrossPopKeepsStages
    <3>2. state' = state
      BY <2>7 DEF CrossPop
    <3>. QED BY <1>1, <1>2, <1>3, <3>1, <3>2, WorkKeepsTraced DEF Inv
  <2>. QED BY <2>1, <2>2, <2>3, <2>4, <2>5, <2>6, <2>7 DEF Works
<1>. QED BY <1>4, <1>5 DEF Stage, Worker
---------------------------------------------------------------------------------
(* The theorems *)

\* What is left alone by the steps in which Reorder does not write
LEMMA WriterAside ==
    ASSUME Cache, Written, Traced,
           UNCHANGED <<state, tree, perAnchor, maxAnchors, next, hold, archive>>
    PROVE  Cache' /\ Written' /\ Traced'
<1>1. Cache'
  BY DEF Cache, HoldOK, InSequence
<1>2. Written'
  BY DEF Written
<1>3. Traced'
  BY DEF Traced, FingerprintsFollowData, Known
<1>. QED BY <1>1, <1>2, <1>3

LEMMA InitInv == ASSUME Init PROVE Inv
<1> USE DEF Init
<1>1. <<>> \in Buffer /\ \A q : <<>> \in Seq(Genuine(q))
  BY Kinds
<1>2. Cuts \in Seq(CoarseChunks)
  <2>1. Cuts \in [1..Len(Cuts) -> CoarseChunks] /\ Len(Cuts) \in Nat
    <3>1. Cuts \in [1..Len(Cuts) -> Coarse] /\ Len(Cuts) \in Nat
      BY CutFacts, LenProperties
    <3>. QED BY <3>1 DEF CoarseChunks
  <2>. QED BY <2>1, SeqDef
<1>3. Filled(send) /\ Filled(recv)
  BY <1>1 DEF Filled, Buffers
<1>4. QueueOK
  <2>1. capacity \in Nat \ {0}
    <3>1. CASE Bounded
      BY <3>1, SizesAssumption
    <3>2. CASE ~Bounded
      BY <3>2, CutFacts
    <3>. QED BY <3>1, <3>2
  <2>2. Len(<<>>) = 0
    OBVIOUS
  <2>. QED BY <1>1, <2>1, <2>2 DEF QueueOK
<1>5. SendOK
  BY <1>3 DEF SendOK
<1>6. RecvOK
  <2>1. \A t \in Threads \ Refiners, q \in CoarseQueues : recv[t][q] = <<>>
    BY CoarseFacts
  <2>. QED BY <1>3, <2>1 DEF RecvOK
<1>7. HandOK
  <2>1. Cuts \in Buffer /\ <<>> \in Seq(FineChunks)
    BY <1>2, Kinds, EmptySeq
  <2>2. inHand = [t \in Threads |-> IF t = Fragmenter THEN Cuts ELSE <<>>]
    BY DEF Cuts
  <2>. QED BY <1>1, <1>2, <2>1, <2>2 DEF HandOK
<1>8. TurnOK
  <2>1. /\ DOMAIN Outputs[Fragmenter] = 1..Len(Outputs[Fragmenter])
        /\ Len(Outputs[Fragmenter]) \in Nat /\ Len(Outputs[Fragmenter]) > 0
        /\ DOMAIN Inputs[Reorderer] = 1..Len(Inputs[Reorderer])
        /\ Len(Inputs[Reorderer]) \in Nat /\ Len(Inputs[Reorderer]) > 0
    BY Wired
  <2>2. 1 \in DOMAIN Outputs[Fragmenter] /\ 1 \in DOMAIN Inputs[Reorderer]
    BY <2>1
  <2>. QED BY <2>2 DEF TurnOK
<1>9. PcOK
  <2>1. <<>> \in Seq(Operations)
    BY EmptySeq
  <2>. QED BY <2>1 DEF PcOK, Label
<1>10. Cache
  BY DEF Cache, TreeOK, AnchorsOK, HoldOK, TreeMakeEmpty
<1>11. Written
  <2>1. next \in [l1 : Nat, l2 : Nat] /\ next.l1 = 0 /\ next.l2 = 0
    OBVIOUS
  <2>2. archive \in Seq(Entry) /\ Len(archive) = 0
    BY EmptySeq
  <2>3. Len(Cuts) \in Nat /\ Len(File) \in Nat /\ Start[1] = 0
    BY CutFacts
  <2>4. next.l1 + 1 = 1 /\ 1 \in 1..Len(Cuts) + 1 /\ Len(archive) = Start[1] + 0
    BY <2>1, <2>2, <2>3
  <2>. QED BY <2>1, <2>2, <2>3, <2>4 DEF Written, Entry
<1>12. Traced
  BY DEF Traced, FingerprintsFollowData
<1>. QED BY <1>4, <1>5, <1>6, <1>7, <1>8, <1>9, <1>10, <1>11, <1>12 DEF Inv, Stages

LEMMA NextInv == ASSUME Inv, [Next]_vars PROVE Inv'
<1>1. CASE UNCHANGED vars
  <2>1. /\ UNCHANGED <<encoder, capacity, queue, open, send, recv, inHand, turn, row, pc, todo>>
        /\ UNCHANGED <<state, tree, perAnchor, maxAnchors, next, hold, archive>>
    BY <1>1 DEF vars, stages, writer
  <2>2. Stages'
    BY <2>1 DEF Inv, Stages, QueueOK, SendOK, RecvOK, HandOK, TurnOK, PcOK
  <2>3. Cache' /\ Written' /\ Traced'
    BY <2>1, WriterAside DEF Inv
  <2>. QED BY <2>2, <2>3 DEF Inv
<1>2. ASSUME NEW t \in Threads \ {Reorderer}, Thread(t) PROVE Inv'
  <2>1. CASE Stage(t) /\ UNCHANGED <<encoder, capacity, writer, misses>>
    BY <2>1, StageKeeps
  <2>2. CASE Move(t)
    <3>1. Stages'
      BY <2>2, MoveKeepsStages, Zenon DEF Inv
    <3>2. UNCHANGED <<state, tree, perAnchor, maxAnchors, next, hold, archive>>
      BY <2>2 DEF Move, writer
    <3>3. Cache' /\ Written' /\ Traced'
      BY <3>2, WriterAside DEF Inv
    <3>. QED BY <3>1, <3>3 DEF Inv
  <2>3. CASE Terminate(t)
    <3>1. Stages'
      BY <2>3, TerminateKeepsStages DEF Inv
    <3>2. UNCHANGED <<state, tree, perAnchor, maxAnchors, next, hold, archive>>
      BY <2>3 DEF Terminate, writer
    <3>3. Cache' /\ Written' /\ Traced'
      BY <3>2, WriterAside DEF Inv
    <3>. QED BY <3>1, <3>3 DEF Inv
  <2>. QED BY <1>2, <2>1, <2>2, <2>3 DEF Thread
<1>3. CASE Read
  <2>1. Stages' /\ Cache' /\ UNCHANGED <<encoder, capacity, send, state, next, archive>>
    BY <1>3, ReadKeeps DEF Inv
  <2>2. Written' /\ Traced'
    BY <2>1 DEF Inv, Written, Traced, FingerprintsFollowData, Known
  <2>. QED BY <2>1, <2>2 DEF Inv
<1>4. CASE Barrier
  <2>1. Stages'
    BY <1>4, BarrierKeepsStages DEF Inv
  <2>2. UNCHANGED <<state, tree, perAnchor, maxAnchors, next, hold, archive>>
    BY <1>4 DEF Barrier, writer
  <2>3. Cache' /\ Written' /\ Traced'
    BY <2>2, WriterAside DEF Inv
  <2>. QED BY <2>1, <2>3 DEF Inv
<1>. QED BY <1>1, <1>2, <1>3, <1>4, WriteKeeps, FlushKeeps DEF Next

\* Every chunk in a buffer, a queue, the cache or Reorder's hand is genuine, and what is written is
\* the file up to the place Reorder stands at, for every encoder and every interleaving.
THEOREM Invariance == Spec => []Inv
<1>. QED BY InitInv, NextInv, PTL DEF Spec
---------------------------------------------------------------------------------
(* What follows *)

LEMMA InvType == ASSUME Inv PROVE TypeOK
<1>1. /\ encoder \in Encoders /\ capacity \in Nat \ {0} /\ queue \in [Queues -> Buffer]
      /\ \A q \in Queues : Len(queue[q]) <= capacity /\ queue[q] \in Packets(q)
  BY Kinds DEF Inv, Stages, QueueOK, PcOK
<1>2. /\ send \in Buffers /\ recv \in Buffers
      /\ \A t \in Threads, q \in Queues : send[t][q] \in Packets(q) /\ recv[t][q] \in Packets(q)
  BY Kinds DEF Inv, Stages, SendOK, RecvOK, Filled
<1>3. /\ inHand \in [Threads -> Buffer]
      /\ \A t \in Threads : inHand[t] \in IF t = Fragmenter THEN Seq(Coarse) ELSE Seq(Fine)
  BY Kinds, SeqMonotonic DEF Inv, Stages, HandOK
<1>4. \A l1 \in DOMAIN tree : l1 \in Nat /\ tree[l1] \in Seq(Fine) \ {<<>>}
  BY Kinds, SeqMonotonic DEF Inv, Cache, TreeOK
<1>5. hold \in Seq(Fine) /\ Len(hold) <= 1
  <2>1. CASE hold = <<>>
    BY <2>1, EmptySeq
  <2>2. ASSUME NEW c \in FineChunks, hold = <<c>> PROVE hold \in Seq(Fine) /\ Len(hold) <= 1
    <3>1. c \in Fine
      BY Kinds
    <3>2. <<c>> \in Seq(Fine) /\ Len(<<c>>) = 1
      BY <3>1
    <3>. QED BY <2>2, <3>2
  <2>. QED BY <2>1, <2>2 DEF Inv, Cache, HoldOK
<1>6. /\ next \in [l1 : Nat, l2 : Nat] /\ archive \in Seq([fingerprint : BOOLEAN, data : Contents])
      /\ state \in [Contents -> {"absent", "uncompressed", "compressed", "flushed"}]
  BY DEF Inv, Written, Traced
<1>7. TurnOK /\ PcOK
  BY DEF Inv, Stages
<1>. QED BY <1>1, <1>2, <1>3, <1>4, <1>5, <1>6, <1>7
     DEF TypeOK, Buffer, Buffers, TurnOK, PcOK, Label

\* For any file, anchors, threads, wiring and sizes, the buffers, queues, caches and counters of
\* every encoder hold what their types say: coarse chunks only on the way from Fragment to Refine,
\* never more than the capacity in a queue, and one chunk at most in Reorder's hand.
THEOREM TypeCorrect == Spec => []TypeOK
<1>. QED BY Invariance, InvType, PTL

\* Whatever the interleaving of the Deduplicate and Compress threads, and whichever duplicate
\* comes first in the file, write_chunk_to_file writes the data of a content before a fingerprint.
THEOREM FingerprintsAlwaysFollow == Spec => []FingerprintsFollowData
<1>1. Inv => FingerprintsFollowData
  BY DEF Inv, Traced
<1>. QED BY <1>1, Invariance, PTL

\* The archive is read back as the first chunks of the file.
ReadBack == Decode = SubSeq(File, 1, Len(archive)) /\ Len(archive) \in 0..Len(File)

LEMMA Decoded == ASSUME Inv PROVE ReadBack
<1>1. /\ archive \in Seq(Entry) /\ Len(archive) \in Nat /\ Len(archive) <= Len(File)
      /\ \A i \in 1..Len(archive) : archive[i].data = File[i]
  BY LenProperties DEF Inv, Written, Entry
<1>2. Len(File) \in Nat /\ \A i \in 1..Len(File) : File[i] \in Contents
  BY FileFacts
<1>3. {n \in 0..Len(archive) : \A i \in 1..n : Known(i)} = 0..Len(archive)
  BY <1>1 DEF Inv, Traced, FingerprintsFollowData
<1>4. Max(0..Len(archive)) = Len(archive)
  <2>1. Len(archive) \in 0..Len(archive) /\ \A y \in 0..Len(archive) : Len(archive) >= y
    BY <1>1
  <2>2. \A x \in 0..Len(archive) : (\A y \in 0..Len(archive) : x >= y) => x = Len(archive)
    BY <1>1
  <2>. QED BY <2>1, <2>2 DEF Max
<1>5. Decode = [i \in 1..Len(archive) |-> archive[i].data]
  BY <1>3, <1>4 DEF Decode
<1>6. Decode = [i \in 1..Len(archive) |-> File[i]]
  BY <1>1, <1>5
<1>7. SubSeq(File, 1, Len(archive)) = [i \in 1..Len(archive) |-> File[i]]
  <2>1. PICK n \in Nat : n = Len(archive) /\ n <= Len(File)
    BY <1>1
  <2>2. \A i \in 1..n : File[i] \in Contents
    BY <1>2, <2>1
  <2>3. /\ SubSeq(File, 1, n) \in Seq(Contents)
        /\ Len(SubSeq(File, 1, n)) = IF 1 <= n THEN n - 1 + 1 ELSE 0
        /\ \A i \in 1..n - 1 + 1 : SubSeq(File, 1, n)[i] = File[1 + i - 1]
    BY <2>2, SubSeqProperties
  <2>4. PICK s : s = SubSeq(File, 1, n)
    OBVIOUS
  <2>5. s \in Seq(Contents) /\ Len(s) = n /\ \A i \in 1..n : s[i] = File[i]
    BY <2>3, <2>4
  <2>6. s = [i \in 1..Len(s) |-> s[i]]
    BY <2>5
  <2>7. s = [i \in 1..n |-> File[i]]
    BY <2>5, <2>6
  <2>. QED BY <2>1, <2>4, <2>7
<1>. QED BY <1>1, <1>2, <1>6, <1>7 DEF ReadBack

LEMMA ArchiveSteps ==
    ASSUME Inv, [Next]_vars
    PROVE  archive' = archive \/ \E r \in Entry : archive' = Append(archive, r)
<1>1. CASE UNCHANGED vars
  BY <1>1 DEF vars, writer
<1>2. ASSUME NEW t \in Threads \ {Reorderer}, Thread(t) PROVE archive' = archive
  <2>1. CASE Stage(t) /\ UNCHANGED <<encoder, capacity, writer, misses>>
    BY <2>1 DEF writer
  <2>2. CASE Move(t)
    BY <2>2, Zenon DEF Move, writer
  <2>3. CASE Terminate(t)
    BY <2>3, Zenon DEF Terminate, writer
  <2>. QED BY <1>2, <2>1, <2>2, <2>3 DEF Thread
<1>3. CASE Read
  BY <1>3, ReadKeeps DEF Inv
<1>4. CASE WriteAndAdvance
  BY <1>4, WriteParts
<1>5. CASE FlushCache
  BY <1>5 DEF FlushCache
<1>6. CASE Barrier
  BY <1>6 DEF Barrier, writer
<1>. QED BY <1>1, <1>2, <1>3, <1>4, <1>5, <1>6 DEF Next

\* What any of the five encoders has written is at any time a prefix of the file when it is
\* decoded, and only grows: every step of the pipeline writes the next chunk of the file or
\* nothing, although chunks are cut, deduplicated and compressed in any order.
THEOREM EncoderImplementsArchive == Spec => ImplementsArchive
<1>1. ASSUME Init, Inv PROVE Files!Init
  <2>1. archive = <<>> /\ Len(archive) = 0
    BY <1>1 DEF Init
  <2>2. Decode = SubSeq(File, 1, 0)
    BY <1>1, <2>1, Decoded DEF ReadBack
  <2>. QED BY <2>2, SubSeqEmpty DEF Files!Init
<1>2. ASSUME Inv, ReadBack, ReadBack', [Next]_vars PROVE [Files!Grow]_Decode
  <2>1. Decode = SubSeq(File, 1, Len(archive)) /\ Len(archive) \in 0..Len(File)
    BY <1>2 DEF ReadBack
  <2>2. Decode' = SubSeq(File, 1, Len(archive)') /\ Len(archive)' \in 0..Len(File)
    BY <1>2 DEF ReadBack
  <2>3. CASE archive' = archive
    BY <2>1, <2>2, <2>3
  <2>4. ASSUME NEW r \in Entry, archive' = Append(archive, r) PROVE Files!Grow
    <3>1. archive \in Seq(Entry)
      BY <1>2 DEF Inv, Written, Entry
    <3>2. Len(archive') = Len(archive) + 1
      BY <2>4, <3>1, AppendProperties
    <3>3. Len(Decode) = Len(archive)
      BY <2>1, CopyFacts
    <3>. QED BY <2>1, <2>2, <3>2, <3>3 DEF Files!Grow
  <2>. QED BY <1>2, <2>3, <2>4, ArchiveSteps
<1>. QED BY <1>1, <1>2, InitInv, Decoded, Invariance, PTL DEF Spec, ImplementsArchive, Files!Spec
---------------------------------------------------------------------------------
(***************************************************************************)
(* What Reorder may wait for: a content that is in the hash table and not  *)
(* compressed is carried, by the chunk that brought it there, from the     *)
(* Deduplicate that found it to a Compress.                                *)
(***************************************************************************)
Fresh(s, c) == \E i \in 1..Len(s) : s[i].data = c /\ ~s[i].isDuplicate

OnItsWay(c) == \/ \E t \in Dedupers : Fresh(send[t][Outputs[t][1]], c)
               \/ \E u \in Compressors : Fresh(queue[Inputs[u][1]], c) \/ Fresh(recv[u][Inputs[u][1]], c)

Backed == \A c \in Contents : state[c] = "uncompressed" => OnItsWay(c)
Straight == \A t \in Dedupers : todo[t] \in Seq(Own)
Ways == Backed /\ Straight

LEMMA FreshConcat ==
    ASSUME NEW S, NEW r \in Seq(S), NEW s \in Seq(S), NEW c, Fresh(r, c) \/ Fresh(s, c)
    PROVE  Fresh(r \o s, c)
<1>1. /\ Len(r) \in Nat /\ Len(s) \in Nat /\ Len(r \o s) = Len(r) + Len(s)
      /\ \A i \in 1..Len(r) : (r \o s)[i] = r[i]
      /\ \A i \in 1..Len(s) : (r \o s)[Len(r) + i] = s[i]
  <2>1. Len(r \o s) = Len(r) + Len(s)
    BY ConcatProperties
  <2>2. Len(r) \in Nat /\ Len(s) \in Nat
    BY LenProperties
  <2>3. \A i \in 1..Len(r) + Len(s) : (r \o s)[i] = IF i <= Len(r) THEN r[i] ELSE s[i - Len(r)]
    BY ConcatProperties
  <2>4. ASSUME NEW i \in 1..Len(s) PROVE (r \o s)[Len(r) + i] = s[i]
    <3>1. Len(r) + i \in 1..Len(r) + Len(s) /\ ~(Len(r) + i <= Len(r)) /\ Len(r) + i - Len(r) = i
      BY <2>2
    <3>. QED BY <2>3, <3>1
  <2>5. ASSUME NEW i \in 1..Len(r) PROVE (r \o s)[i] = r[i]
    <3>1. i \in 1..Len(r) + Len(s) /\ i <= Len(r)
      BY <2>2
    <3>. QED BY <2>3, <3>1
  <2>. QED BY <2>1, <2>2, <2>4, <2>5
<1>2. CASE Fresh(r, c)
  <2>1. PICK i \in 1..Len(r) : r[i].data = c /\ ~r[i].isDuplicate
    BY <1>2 DEF Fresh
  <2>2. i \in 1..Len(r \o s) /\ (r \o s)[i] = r[i]
    BY <1>1
  <2>. QED BY <2>1, <2>2 DEF Fresh
<1>3. CASE Fresh(s, c)
  <2>1. PICK i \in 1..Len(s) : s[i].data = c /\ ~s[i].isDuplicate
    BY <1>3 DEF Fresh
  <2>2. Len(r) + i \in 1..Len(r \o s) /\ (r \o s)[Len(r) + i] = s[i]
    BY <1>1
  <2>. QED BY <2>1, <2>2 DEF Fresh
<1>. QED BY <1>2, <1>3

LEMMA FreshSplit ==
    ASSUME NEW S, NEW s \in Seq(S), NEW n \in Nat, n <= Len(s), NEW c, Fresh(s, c)
    PROVE  Fresh(First(n, s), c) \/ Fresh(Rest(n, s), c)
<1>1. PICK i \in 1..Len(s) : s[i].data = c /\ ~s[i].isDuplicate
  BY DEF Fresh
<1>2. Len(s) \in Nat
  BY LenProperties
<1>3. CASE i <= n
  <2>1. i \in 1..n
    BY <1>2, <1>3
  <2>2. Len(First(n, s)) = n /\ First(n, s)[i] = s[i]
    BY <2>1, Pieces
  <2>. QED BY <1>1, <2>1, <2>2 DEF Fresh
<1>4. CASE ~(i <= n)
  <2>1. PICK j \in 1..Len(s) - n : i = n + j
    <3>1. i - n \in 1..Len(s) - n /\ i = n + (i - n)
      BY <1>2, <1>4
    <3>. QED BY <3>1
  <2>2. Len(Rest(n, s)) = Len(s) - n /\ Rest(n, s)[j] = s[n + j]
    BY <2>1, Pieces
  <2>. QED BY <1>1, <2>1, <2>2 DEF Fresh
<1>. QED BY <1>3, <1>4

LEMMA FreshAppend ==
    ASSUME NEW S, NEW s \in Seq(S), NEW x \in S, NEW c,
           Fresh(s, c) \/ (x.data = c /\ ~x.isDuplicate)
    PROVE  Fresh(Append(s, x), c)
<1>1. /\ Len(s) \in Nat /\ Len(Append(s, x)) = Len(s) + 1
      /\ \A i \in 1..Len(s) : Append(s, x)[i] = s[i]
      /\ Append(s, x)[Len(s) + 1] = x
  <2>1. Len(s) \in Nat
    BY LenProperties
  <2>2. Len(Append(s, x)) = Len(s) + 1 /\ \A i \in 1..Len(s) : Append(s, x)[i] = s[i]
    BY AppendProperties
  <2>3. Append(s, x)[Len(s) + 1] = x
    BY AppendProperties
  <2>. QED BY <2>1, <2>2, <2>3
<1>2. CASE Fresh(s, c)
  <2>1. PICK i \in 1..Len(s) : s[i].data = c /\ ~s[i].isDuplicate
    BY <1>2 DEF Fresh
  <2>2. i \in 1..Len(Append(s, x)) /\ Append(s, x)[i] = s[i]
    BY <1>1
  <2>. QED BY <2>1, <2>2 DEF Fresh
<1>3. CASE x.data = c /\ ~x.isDuplicate
  <2>1. Len(s) + 1 \in 1..Len(Append(s, x)) /\ Append(s, x)[Len(s) + 1] = x
    BY <1>1
  <2>. QED BY <1>3, <2>1 DEF Fresh
<1>. QED BY <1>2, <1>3

LEMMA FreshTail ==
    ASSUME NEW S, NEW s \in Seq(S), s # <<>>, NEW c, c # Head(s).data, Fresh(s, c)
    PROVE  Fresh(Tail(s), c)
<1>1. PICK i \in 1..Len(s) : s[i].data = c /\ ~s[i].isDuplicate
  BY DEF Fresh
<1>2. Len(s) \in Nat /\ s[1] = Head(s)
  BY LenProperties
<1>3. Len(Tail(s)) = Len(s) - 1 /\ \A j \in 1..Len(Tail(s)) : Tail(s)[j] = s[j + 1]
  BY HeadTailProperties
<1>4. i # 1
  BY <1>1, <1>2
<1>5. i - 1 \in 1..Len(Tail(s)) /\ i - 1 + 1 = i
  BY <1>2, <1>3, <1>4
<1>6. Tail(s)[i - 1] = s[i]
  BY <1>3, <1>5
<1>. QED BY <1>1, <1>5, <1>6 DEF Fresh

\* Who stands where: nobody but Compress takes from the queues Deduplicate fills first.
LEMMA Crossing ==
    /\ \A t \in Dedupers : /\ t \in Threads /\ t \in Workers /\ t # Fragmenter /\ t # Reorderer
                           /\ t \notin Refiners /\ t \notin Compressors /\ Outputs[t][1] \in Queues
                           /\ \E u \in Compressors : Inputs[u][1] = Outputs[t][1]
    /\ \A u \in Compressors : /\ u \in Threads /\ u \in Workers /\ u # Fragmenter /\ u # Reorderer
                              /\ u \notin Refiners /\ u \notin Dedupers /\ Inputs[u][1] \in Queues
    /\ \A u \in Compressors, t \in Threads \ Compressors :
          \A i \in DOMAIN Inputs[t] : Inputs[t][i] # Inputs[u][1]
<1>1. \A t \in Dedupers : \E u \in Compressors : Inputs[u][1] = Outputs[t][1]
  BY Routes
<1>2. \A u \in Compressors, t \in Threads \ Compressors :
          \A i \in DOMAIN Inputs[t] : Inputs[t][i] # Inputs[u][1]
  BY Routes
<1>3. \A t \in Dedupers : /\ t \in Threads /\ t \in Workers /\ t # Fragmenter /\ t # Reorderer
                          /\ t \notin Refiners /\ t \notin Compressors /\ Outputs[t][1] \in Queues
  BY Wired DEF Workers
<1>4. \A u \in Compressors : /\ u \in Threads /\ u \in Workers /\ u # Fragmenter /\ u # Reorderer
                             /\ u \notin Refiners /\ u \notin Dedupers /\ Inputs[u][1] \in Queues
  BY Wired DEF Workers
<1>. QED BY <1>1, <1>2, <1>3, <1>4

\* A step of nobody on the way
Aside == /\ \A t \in Dedupers : send'[t][Outputs[t][1]] = send[t][Outputs[t][1]]
         /\ \A u \in Compressors : /\ queue'[Inputs[u][1]] = queue[Inputs[u][1]]
                                   /\ recv'[u][Inputs[u][1]] = recv[u][Inputs[u][1]]
         /\ \A c \in Contents : state'[c] = "uncompressed" => state[c] = "uncompressed"

LEMMA AsideKeepsBacked ==
    ASSUME Backed, Aside
    PROVE  Backed'
<1>1. ASSUME NEW c \in Contents, state'[c] = "uncompressed" PROVE OnItsWay(c)'
  <2>1. OnItsWay(c)
    BY <1>1 DEF Backed, Aside
  <2>. QED BY <2>1 DEF OnItsWay, Aside
<1>. QED BY <1>1 DEF Backed

LEMMA StraightKept ==
    ASSUME PcOK, Straight, NEW t \in Threads, NEW s, t \in Dedupers => s \in Seq(Own),
           todo' = [todo EXCEPT ![t] = s]
    PROVE  Straight'
<1>1. ASSUME NEW u \in Dedupers PROVE todo'[u] \in Seq(Own)
  <2>1. u \in Threads /\ todo \in [Threads -> Seq(Operations)]
    BY Crossing DEF PcOK
  <2>. QED BY <2>1 DEF Straight
<1>. QED BY <1>1 DEF Straight

LEMMA FragmentKeepsWays ==
    ASSUME Stages, Ways, Fragment
    PROVE  Ways'
<1> DEFINE t == Fragmenter
<1>1. /\ UNCHANGED <<queue, recv, state>>
      /\ \/ \E i \in DOMAIN Outputs[t], s \in Seq(Operations) : Fragments(Outputs[t][i], s)
         \/ \E s \in Seq(Operations) : Closes(s)
  BY FragmentCases
<1>2. t \in Threads /\ t \notin Dedupers /\ send \in Buffers /\ PcOK
  BY Wired DEF Stages, SendOK, Filled
<1>3. ASSUME NEW i \in DOMAIN Outputs[t], NEW s \in Seq(Operations), Fragments(Outputs[t][i], s)
      PROVE  (\A u \in Dedupers : send'[u] = send[u]) /\ todo' = [todo EXCEPT ![t] = s]
  <2>1. /\ send' = [send EXCEPT ![t][Outputs[t][i]] = Append(send[t][Outputs[t][i]], Head(inHand[t]))]
        /\ todo' = [todo EXCEPT ![t] = s]
    BY <1>3, Zenon DEF Fragments
  <2>2. ASSUME NEW u \in Dedupers PROVE send'[u] = send[u]
    <3>1. u \in Threads /\ u # t
      BY Crossing
    <3>. QED BY <1>2, <2>1, <3>1 DEF Buffers
  <2>. QED BY <2>1, <2>2
<1>4. ASSUME NEW s \in Seq(Operations), Closes(s)
      PROVE  (\A u \in Dedupers : send'[u] = send[u]) /\ todo' = [todo EXCEPT ![t] = s]
  BY <1>4 DEF Closes
<1>5. PICK s : (\A u \in Dedupers : send'[u] = send[u]) /\ todo' = [todo EXCEPT ![t] = s]
  BY <1>1, <1>3, <1>4
<1>6. Backed'
  BY <1>1, <1>5, AsideKeepsBacked DEF Ways, Aside
<1>7. Straight'
  BY <1>2, <1>5, StraightKept DEF Ways
<1>. QED BY <1>6, <1>7 DEF Ways

LEMMA MoveKeepsWays ==
    ASSUME Stages, Ways, NEW t \in Threads, Move(t)
    PROVE  Ways'
<1>1. PICK o \in Operations, n \in Nat : o = Head(todo[t]) /\ Moved(t, o, n)
  BY MoveParts
<1>2. o.from \in Queues /\ o.to \in Queues /\ Genuine(o.from) = Genuine(o.to)
  BY OperationFacts
<1>3. UNCHANGED <<recv, state>>
  BY Zenon DEF Move
<1>4. /\ Replaced(send, send', t, o.from, Rest(n, send[t][o.from])) /\ n <= Len(send[t][o.from])
      /\ queue' = [queue EXCEPT ![o.to] = queue[o.to] \o First(n, send[t][o.from])]
      /\ todo' = [todo EXCEPT ![t] = Tail(todo[t])] \/ todo' = todo
  BY <1>1, Zenon DEF Moved
<1>5. /\ send[t][o.from] \in Seq(Genuine(o.to)) /\ queue[o.to] \in Seq(Genuine(o.to))
      /\ First(n, send[t][o.from]) \in Seq(Genuine(o.to))
  <2>1. send[t][o.from] \in Seq(Genuine(o.to)) /\ queue[o.to] \in Seq(Genuine(o.to))
    BY <1>2 DEF Stages, SendOK, QueueOK, Filled
  <2>. QED BY <1>4, <2>1, Pieces
<1>6. todo[t] # <<>> /\ todo[t] \in Seq(Operations) /\ PcOK
  BY MoveParts DEF Stages
<1>7. t \in Dedupers => o \in Own /\ Tail(todo[t]) \in Seq(Own)
  BY <1>1, <1>6, HeadTailProperties DEF Ways, Straight
<1>8. Straight'
  <2>1. CASE todo' = todo
    BY <2>1 DEF Ways, Straight
  <2>2. CASE todo' = [todo EXCEPT ![t] = Tail(todo[t])]
    BY <1>6, <1>7, <2>2, StraightKept DEF Ways
  <2>. QED BY <1>4, <2>1, <2>2
<1>9. ASSUME NEW c, NEW q \in Queues, Fresh(queue[q], c) PROVE Fresh(queue'[q], c)
  <2>1. queue \in [Queues -> Buffer]
    BY DEF Stages, QueueOK
  <2>2. CASE q = o.to
    <3>1. Fresh(queue[o.to] \o First(n, send[t][o.from]), c)
      BY <1>5, <1>9, <2>2, FreshConcat
    <3>. QED BY <1>4, <2>1, <2>2, <3>1
  <2>. QED BY <1>4, <1>9, <2>1, <2>2
<1>10. ASSUME NEW c, NEW d \in Dedupers, Fresh(send[d][Outputs[d][1]], c) PROVE OnItsWay(c)'
  <2>1. d \in Threads /\ Outputs[d][1] \in Queues
    BY Crossing
  <2>2. CASE d = t /\ Outputs[d][1] = o.from
    <3>1. PICK u \in Compressors : Inputs[u][1] = o.to
      BY <1>7, <2>2, Crossing DEF Own
    <3>2. Fresh(First(n, send[t][o.from]), c) \/ Fresh(Rest(n, send[t][o.from]), c)
      BY <1>4, <1>5, <1>10, <2>2, FreshSplit
    <3>3. CASE Fresh(First(n, send[t][o.from]), c)
      <4>1. Fresh(queue[o.to] \o First(n, send[t][o.from]), c)
        BY <1>5, <3>3, FreshConcat
      <4>2. queue'[o.to] = queue[o.to] \o First(n, send[t][o.from])
        BY <1>2, <1>4 DEF Stages, QueueOK
      <4>. QED BY <3>1, <4>1, <4>2 DEF OnItsWay
    <3>4. CASE Fresh(Rest(n, send[t][o.from]), c)
      <4>1. send'[d][Outputs[d][1]] = Rest(n, send[t][o.from])
        BY <1>4, <2>1, <2>2 DEF Replaced
      <4>. QED BY <3>4, <4>1 DEF OnItsWay
    <3>. QED BY <3>2, <3>3, <3>4
  <2>3. CASE ~(d = t /\ Outputs[d][1] = o.from)
    <3>1. send'[d][Outputs[d][1]] = send[d][Outputs[d][1]]
      BY <1>4, <2>1, <2>3 DEF Replaced
    <3>. QED BY <1>10, <3>1 DEF OnItsWay
  <2>. QED BY <2>2, <2>3
<1>11. ASSUME NEW c \in Contents, state'[c] = "uncompressed" PROVE OnItsWay(c)'
  <2>1. OnItsWay(c)
    BY <1>3, <1>11 DEF Ways, Backed
  <2>2. \A u \in Compressors : Inputs[u][1] \in Queues
    BY Crossing
  <2>3. ASSUME NEW u \in Compressors, Fresh(queue[Inputs[u][1]], c) PROVE OnItsWay(c)'
    BY <1>9, <2>2, <2>3 DEF OnItsWay
  <2>4. ASSUME NEW u \in Compressors, Fresh(recv[u][Inputs[u][1]], c) PROVE OnItsWay(c)'
    BY <1>3, <2>4 DEF OnItsWay
  <2>. QED BY <1>10, <2>1, <2>3, <2>4 DEF OnItsWay
<1>. QED BY <1>8, <1>11 DEF Ways, Backed

LEMMA TerminateKeepsWays ==
    ASSUME Stages, Ways, NEW t \in Threads, Terminate(t)
    PROVE  Ways'
<1>1. /\ todo[t] # <<>> /\ todo' = [todo EXCEPT ![t] = Tail(todo[t])]
      /\ UNCHANGED <<queue, send, recv, state>>
  BY Zenon DEF Terminate
<1>2. t \in Dedupers => Tail(todo[t]) \in Seq(Own)
  BY <1>1, HeadTailProperties DEF Ways, Straight
<1>3. Straight'
  BY <1>1, <1>2, StraightKept DEF Ways, Stages
<1>4. Backed'
  BY <1>1, AsideKeepsBacked DEF Ways, Aside
<1>. QED BY <1>3, <1>4 DEF Ways

LEMMA ReceiveKeepsWays ==
    ASSUME Stages, Ways, NEW t \in Workers, Receive(t), UNCHANGED capacity
    PROVE  Ways'
<1> DEFINE q == Inputs[t][1]
<1>1. /\ t \in Threads /\ q \in Queues /\ 1 \in DOMAIN Inputs[t]
      /\ q \in CoarseQueues => t \in Refiners
  BY Wired, Lanes DEF Workers
<1>2. /\ Dequeue(t, q) /\ recv[t][q] = <<>>
      /\ UNCHANGED <<send, todo, state>>
  BY DEF Receive
<1>3. PICK n \in 1..Len(queue[q]) :
          /\ Replaced(recv, recv', t, q, First(n, queue[q]))
          /\ \A r \in Queues : queue'[r] = IF r = q THEN Rest(n, queue[q]) ELSE queue[r]
  BY <1>1, <1>2, Dequeued DEF Stages
<1>4. Straight'
  BY <1>2 DEF Ways, Straight
<1>5. CASE t \notin Compressors
  <2>1. ASSUME NEW u \in Compressors
        PROVE  /\ queue'[Inputs[u][1]] = queue[Inputs[u][1]]
               /\ recv'[u][Inputs[u][1]] = recv[u][Inputs[u][1]]
    <3>1. u \in Threads /\ u # t /\ Inputs[u][1] \in Queues /\ Inputs[u][1] # q
      BY <1>1, <1>5, Crossing
    <3>. QED BY <1>3, <3>1 DEF Replaced
  <2>2. Backed'
    BY <1>2, <2>1, AsideKeepsBacked DEF Ways, Aside
  <2>. QED BY <1>4, <2>2 DEF Ways
<1>6. CASE t \in Compressors
  <2>1. queue[q] \in Seq(Genuine(q)) /\ n \in Nat /\ n <= Len(queue[q])
    <3>1. queue[q] \in Seq(Genuine(q)) /\ Len(queue[q]) \in Nat
      BY <1>1, LenProperties DEF Stages, QueueOK
    <3>. QED BY <1>3, <3>1
  <2>2. recv'[t][q] = First(n, queue[q]) /\ queue'[q] = Rest(n, queue[q])
    BY <1>1, <1>3 DEF Replaced
  <2>3. ASSUME NEW c, NEW u \in Compressors, Fresh(queue[Inputs[u][1]], c) PROVE OnItsWay(c)'
    <3>1. CASE Inputs[u][1] = q
      <4>1. Fresh(First(n, queue[q]), c) \/ Fresh(Rest(n, queue[q]), c)
        BY <2>1, <2>3, <3>1, FreshSplit
      <4>. QED BY <1>6, <2>2, <4>1 DEF OnItsWay
    <3>2. CASE Inputs[u][1] # q
      <4>1. queue'[Inputs[u][1]] = queue[Inputs[u][1]]
        BY <1>3, <3>2, Crossing
      <4>. QED BY <2>3, <4>1 DEF OnItsWay
    <3>. QED BY <3>1, <3>2
  <2>4. ASSUME NEW c, NEW u \in Compressors, Fresh(recv[u][Inputs[u][1]], c) PROVE OnItsWay(c)'
    <3>1. ~(u = t)
      BY <1>2, <2>4 DEF Fresh
    <3>2. recv'[u][Inputs[u][1]] = recv[u][Inputs[u][1]]
      BY <1>3, <3>1, Crossing DEF Replaced
    <3>. QED BY <2>4, <3>2 DEF OnItsWay
  <2>5. ASSUME NEW c \in Contents, state'[c] = "uncompressed" PROVE OnItsWay(c)'
    <3>1. OnItsWay(c)
      BY <1>2, <2>5 DEF Ways, Backed
    <3>2. ASSUME NEW d \in Dedupers, Fresh(send[d][Outputs[d][1]], c) PROVE OnItsWay(c)'
      BY <1>2, <3>2 DEF OnItsWay
    <3>. QED BY <2>3, <2>4, <3>1, <3>2 DEF OnItsWay
  <2>. QED BY <1>4, <2>5 DEF Ways, Backed
<1>. QED BY <1>5, <1>6

LEMMA LeaveKeepsWays ==
    ASSUME Stages, Ways, NEW t \in Workers, NEW s \in Seq(Own), Leave(t, s)
    PROVE  Ways'
<1>1. todo' = [todo EXCEPT ![t] = s] /\ UNCHANGED <<queue, send, recv, state>>
  BY DEF Leave
<1>2. t \in Threads
  BY Wired DEF Workers
<1>3. Straight'
  BY <1>1, <1>2, StraightKept DEF Ways, Stages
<1>4. Backed'
  BY <1>1, AsideKeepsBacked DEF Ways, Aside
<1>. QED BY <1>3, <1>4 DEF Ways

LEMMA RefineChunkKeepsWays ==
    ASSUME Stages, Ways, NEW t \in Refiners, RefineChunk(t), UNCHANGED <<encoder, capacity>>
    PROVE  Ways'
<1> DEFINE in == Inputs[t][1]
<1>1. t \in Threads /\ t \notin Dedupers /\ t \notin Compressors
  BY Wired
<1>2. PICK chunk \in FineChunks :
          Replaced(send, send', t, Outputs[t][1], Append(send[t][Outputs[t][1]], chunk))
  BY RefineChunkKeepsStages
<1>3. /\ recv' = recv \/ recv' = [recv EXCEPT ![t][in] = Tail(recv[t][in])]
      /\ UNCHANGED <<queue, state>>
      /\ \E s : todo' = [todo EXCEPT ![t] = s]
  BY Zenon DEF RefineChunk, Put
<1>4. ASSUME NEW u \in Compressors PROVE recv'[u] = recv[u]
  <2>1. u \in Threads /\ u # t /\ recv \in Buffers
    BY <1>1, Crossing DEF Stages, RecvOK, Filled
  <2>. QED BY <1>3, <2>1 DEF Buffers
<1>5. ASSUME NEW d \in Dedupers PROVE send'[d][Outputs[d][1]] = send[d][Outputs[d][1]]
  <2>1. d \in Threads /\ d # t /\ Outputs[d][1] \in Queues
    BY <1>1, Crossing
  <2>. QED BY <1>2, <2>1 DEF Replaced
<1>6. Backed'
  BY <1>3, <1>4, <1>5, AsideKeepsBacked DEF Ways, Aside
<1>7. Straight'
  BY <1>1, <1>3, StraightKept DEF Ways, Stages
<1>. QED BY <1>6, <1>7 DEF Ways

LEMMA DeduplicateChunkKeepsWays ==
    ASSUME Stages, Ways, Traced, NEW t \in Dedupers, NEW before \in Seq(Own),
           DeduplicateChunk(t, before), UNCHANGED <<encoder, capacity>>
    PROVE  Ways'
<1> DEFINE in == Inputs[t][1]
<1>1. /\ t \in Threads /\ t \notin Compressors /\ Outputs[t][1] \in Queues /\ Extras[t][1] \in Queues
      /\ Genuine(Outputs[t][1]) = FineChunks
  BY Wired, Lanes
<1>2. PICK chunk \in FineChunks, dup \in BOOLEAN :
          /\ chunk = Head(recv[t][in]) /\ dup = (state[chunk.data] # "absent")
          /\ Put(t, Destination(t, dup), [chunk EXCEPT !.isDuplicate = dup], before)
          /\ Replaced(send, send', t, Destination(t, dup),
                      Append(send[t][Destination(t, dup)], [chunk EXCEPT !.isDuplicate = dup]))
  BY DeduplicateChunkKeepsStages
<1>3. PICK marked \in FineChunks :
          /\ marked = [chunk EXCEPT !.isDuplicate = dup]
          /\ marked.data = chunk.data /\ marked.isDuplicate = dup
  BY MarkGenuine
<1>4. PICK to \in Queues : to = Destination(t, dup) /\ (to = Outputs[t][1] \/ dup)
  BY <1>1 DEF Destination
<1>5. /\ recv' = [recv EXCEPT ![t][in] = Tail(recv[t][in])] /\ UNCHANGED queue
      /\ \/ state' = state
         \/ state[chunk.data] = "absent" /\ state' = [state EXCEPT ![chunk.data] = "uncompressed"]
  BY <1>2, Zenon DEF DeduplicateChunk, sub_Deduplicate
<1>6. Replaced(send, send', t, to, Append(send[t][to], marked))
  <2>1. Replaced(send, send', t, Destination(t, dup),
                 Append(send[t][Destination(t, dup)], [chunk EXCEPT !.isDuplicate = dup]))
    BY <1>2, Zenon
  <2>2. [chunk EXCEPT !.isDuplicate = dup] = marked /\ Destination(t, dup) = to
    BY <1>3, <1>4, Zenon
  <2>. QED BY <2>1, <2>2, Zenon
<1>7. Straight'
  <2>1. PICK s : s = before \o IF Len(send[t][to]) + 1 >= Step[t] THEN <<Enqueue(to)>> ELSE <<>>
    OBVIOUS
  <2>2. todo' = [todo EXCEPT ![t] = s]
    BY <1>2, <1>4, <2>1, Zenon DEF Put
  <2>3. <<Enqueue(to)>> \in Seq(Own) /\ <<>> \in Seq(Own)
    BY OperationFacts, OperationSequences, EmptySeq
  <2>4. s \in Seq(Own)
    BY <2>1, <2>3, OperationSequences
  <2>. QED BY <1>1, <2>2, <2>4, StraightKept DEF Ways, Stages
<1>8. ASSUME NEW u \in Compressors PROVE recv'[u] = recv[u]
  <2>1. u \in Threads /\ u # t /\ recv \in Buffers
    BY <1>1, Crossing DEF Stages, RecvOK, Filled
  <2>. QED BY <1>5, <2>1 DEF Buffers
<1>9. send[t][Outputs[t][1]] \in Seq(FineChunks)
  BY <1>1 DEF Stages, SendOK, Filled
<1>10. ASSUME NEW c, NEW d \in Dedupers, Fresh(send[d][Outputs[d][1]], c)
       PROVE  Fresh(send'[d][Outputs[d][1]], c)
  <2>1. d \in Threads /\ Outputs[d][1] \in Queues
    BY Crossing
  <2>2. CASE d = t /\ to = Outputs[t][1]
    <3>1. send'[d][Outputs[d][1]] = Append(send[t][Outputs[t][1]], marked)
      BY <1>6, <2>1, <2>2 DEF Replaced
    <3>. QED BY <1>3, <1>9, <1>10, <2>2, <3>1, FreshAppend
  <2>3. CASE ~(d = t /\ to = Outputs[t][1])
    <3>1. send'[d][Outputs[d][1]] = send[d][Outputs[d][1]]
      BY <1>6, <2>1, <2>3 DEF Replaced
    <3>. QED BY <1>10, <3>1
  <2>. QED BY <2>2, <2>3
<1>11. ASSUME NEW c \in Contents, state'[c] = "uncompressed" PROVE OnItsWay(c)'
  <2>1. CASE state[c] = "uncompressed"
    <3>1. OnItsWay(c)
      BY <2>1 DEF Ways, Backed
    <3>. QED BY <1>5, <1>8, <1>10, <3>1 DEF OnItsWay
  <2>2. CASE state[c] # "uncompressed"
    <3>1. c = chunk.data /\ state[c] = "absent"
      BY <1>5, <1>11, <2>2 DEF Traced
    <3>2. ~dup /\ to = Outputs[t][1]
      BY <1>2, <1>4, <3>1
    <3>3. marked.data = c /\ ~marked.isDuplicate
      BY <1>3, <3>1, <3>2
    <3>4. Fresh(Append(send[t][Outputs[t][1]], marked), c)
      BY <1>9, <3>3, FreshAppend
    <3>5. send'[t][Outputs[t][1]] = Append(send[t][Outputs[t][1]], marked)
      BY <1>1, <1>6, <3>2 DEF Replaced
    <3>. QED BY <3>4, <3>5 DEF OnItsWay
  <2>. QED BY <2>1, <2>2
<1>. QED BY <1>7, <1>11 DEF Ways, Backed

LEMMA CompressChunkKeepsWays ==
    ASSUME Stages, Ways, Traced, NEW t \in Compressors, CompressChunk(t), UNCHANGED <<encoder, capacity>>
    PROVE  Ways'
<1> DEFINE in == Inputs[t][1]
<1>1. t \in Threads /\ t \notin Dedupers /\ in \in Queues
  BY Crossing
<1>2. PICK chunk \in FineChunks :
          /\ chunk = Head(recv[t][in])
          /\ state' = [state EXCEPT ![chunk.data] = "compressed"]
          /\ Replaced(send, send', t, Outputs[t][1], Append(send[t][Outputs[t][1]], chunk))
  BY CompressChunkKeepsStages
<1>3. /\ recv[t][in] # <<>> /\ recv' = [recv EXCEPT ![t][in] = Tail(recv[t][in])] /\ UNCHANGED queue
      /\ \E s : todo' = [todo EXCEPT ![t] = s]
  BY Zenon DEF CompressChunk, Put
<1>4. Replaced(recv, recv', t, in, Tail(recv[t][in])) /\ recv[t][in] \in Seq(Genuine(in))
  <2>1. recv[t][in] \in Seq(Genuine(in))
    BY <1>1 DEF Stages, RecvOK, Filled
  <2>. QED BY <1>1, <1>3, <2>1, Taken DEF Stages
<1>5. Straight'
  BY <1>1, <1>3, StraightKept DEF Ways, Stages
<1>6. ASSUME NEW d \in Dedupers PROVE send'[d][Outputs[d][1]] = send[d][Outputs[d][1]]
  <2>1. d \in Threads /\ d # t /\ Outputs[d][1] \in Queues
    BY <1>1, Crossing
  <2>. QED BY <1>2, <2>1 DEF Replaced
<1>7. ASSUME NEW c \in Contents, state'[c] = "uncompressed" PROVE OnItsWay(c)'
  <2>1. state[c] = "uncompressed" /\ c # chunk.data
    BY <1>2, <1>7 DEF Traced
  <2>2. OnItsWay(c)
    BY <2>1 DEF Ways, Backed
  <2>3. ASSUME NEW u \in Compressors, Fresh(recv[u][Inputs[u][1]], c) PROVE OnItsWay(c)'
    <3>1. CASE u = t
      <4>1. Fresh(Tail(recv[t][in]), c)
        <5>1. PICK s \in Seq(Genuine(in)) : s = recv[t][in]
          BY <1>4
        <5>2. s # <<>> /\ c # Head(s).data /\ Fresh(s, c)
          BY <1>2, <1>3, <2>1, <2>3, <3>1, <5>1
        <5>3. Fresh(Tail(s), c)
          BY <5>2, FreshTail
        <5>. QED BY <5>1, <5>3
      <4>2. recv'[u][Inputs[u][1]] = Tail(recv[t][in])
        BY <1>1, <1>4, <3>1 DEF Replaced
      <4>. QED BY <3>1, <4>1, <4>2 DEF OnItsWay
    <3>2. CASE u # t
      <4>1. recv'[u][Inputs[u][1]] = recv[u][Inputs[u][1]]
        BY <1>4, <3>2, Crossing DEF Replaced
      <4>. QED BY <2>3, <4>1 DEF OnItsWay
    <3>. QED BY <3>1, <3>2
  <2>4. ASSUME NEW u \in Compressors, Fresh(queue[Inputs[u][1]], c) PROVE OnItsWay(c)'
    BY <1>3, <2>4 DEF OnItsWay
  <2>5. ASSUME NEW d \in Dedupers, Fresh(send[d][Outputs[d][1]], c) PROVE OnItsWay(c)'
    BY <1>6, <2>5 DEF OnItsWay
  <2>. QED BY <2>2, <2>3, <2>4, <2>5 DEF OnItsWay
<1>. QED BY <1>5, <1>7 DEF Ways, Backed

LEMMA CrossPopKeepsWays ==
    ASSUME Stages, Ways, NEW t \in Compressors, CrossPop(t)
    PROVE  Ways'
<1>1. /\ todo' = [todo EXCEPT ![t] = ForcePush(t, Outputs[t][1])]
      /\ UNCHANGED <<queue, send, recv, state>>
  BY DEF CrossPop
<1>2. t \in Threads /\ t \notin Dedupers
  BY Crossing
<1>3. Straight'
  BY <1>1, <1>2, StraightKept DEF Ways, Stages
<1>4. Backed'
  BY <1>1, AsideKeepsBacked DEF Ways, Aside
<1>. QED BY <1>3, <1>4 DEF Ways

LEMMA StageKeepsWays ==
    ASSUME Stages, Ways, Traced, NEW t \in Threads, Stage(t), UNCHANGED <<encoder, capacity>>
    PROVE  Ways'
<1>1. CASE t = Fragmenter /\ Fragment
  BY <1>1, FragmentKeepsWays
<1>2. CASE Worker(t)
  <2>1. t \in Workers /\ (Receive(t) \/ (\E s \in Seq(Own) : Leave(t, s)) \/ Works(t))
    BY <1>2, WorkerCases
  <2>2. CASE Receive(t)
    BY <2>1, <2>2, ReceiveKeepsWays
  <2>3. ASSUME NEW s \in Seq(Own), Leave(t, s) PROVE Ways'
    BY <2>1, <2>3, LeaveKeepsWays
  <2>4. CASE Works(t)
    BY <2>4, RefineChunkKeepsWays, DeduplicateChunkKeepsWays, CompressChunkKeepsWays,
       CrossPopKeepsWays DEF Works
  <2>. QED BY <2>1, <2>2, <2>3, <2>4
<1>. QED BY <1>1, <1>2 DEF Stage, Worker

LEMMA ReadKeepsWays ==
    ASSUME Stages, Ways, Read
    PROVE  Ways'
<1>1. /\ UNCHANGED <<capacity, send, todo, state>>
      /\ \/ \E i \in DOMAIN Inputs[Reorderer] : Takes(Inputs[Reorderer][i])
         \/ Finds
         \/ \E q \in Queues : Accept(q)
  BY ReadCases
<1>2. Straight'
  BY <1>1 DEF Ways, Straight
<1>3. Reorderer \in Threads \ Compressors /\ Reorderer \notin Refiners
  BY Wired
<1>4. ASSUME NEW u \in Compressors
      PROVE  /\ queue'[Inputs[u][1]] = queue[Inputs[u][1]]
             /\ recv'[u][Inputs[u][1]] = recv[u][Inputs[u][1]]
  <2>1. u \in Threads /\ u # Reorderer /\ Inputs[u][1] \in Queues
    BY Crossing
  <2>2. ASSUME NEW i \in DOMAIN Inputs[Reorderer], Takes(Inputs[Reorderer][i])
        PROVE  /\ queue'[Inputs[u][1]] = queue[Inputs[u][1]]
               /\ recv'[u][Inputs[u][1]] = recv[u][Inputs[u][1]]
    <3> DEFINE q == Inputs[Reorderer][i]
    <3>1. q \in Queues /\ q \notin CoarseQueues /\ q # Inputs[u][1]
      BY <1>3, Wired, Lanes, Crossing
    <3>2. PICK n \in 1..Len(queue[q]) :
              /\ Replaced(recv, recv', Reorderer, q, First(n, queue[q]))
              /\ \A r \in Queues : queue'[r] = IF r = q THEN Rest(n, queue[q]) ELSE queue[r]
      BY <1>1, <1>3, <2>2, <3>1, Dequeued DEF Stages, Takes
    <3>. QED BY <2>1, <3>1, <3>2 DEF Replaced
  <2>3. CASE Finds
    BY <2>3 DEF Finds
  <2>4. ASSUME NEW q \in Queues, Accept(q)
        PROVE  /\ queue'[Inputs[u][1]] = queue[Inputs[u][1]]
               /\ recv'[u][Inputs[u][1]] = recv[u][Inputs[u][1]]
    <3>1. recv' = [recv EXCEPT ![Reorderer][q] = Tail(recv[Reorderer][q])] /\ UNCHANGED queue
      BY <2>4, Zenon DEF Accept
    <3>2. recv \in Buffers
      BY DEF Stages, RecvOK, Filled
    <3>3. recv'[u] = recv[u]
      BY <2>1, <3>1, <3>2 DEF Buffers
    <3>. QED BY <3>1, <3>3
  <2>. QED BY <1>1, <2>2, <2>3, <2>4
<1>5. Backed'
  BY <1>1, <1>4, AsideKeepsBacked DEF Ways, Aside
<1>. QED BY <1>2, <1>5 DEF Ways

LEMMA NextWays == ASSUME Inv, Ways, [Next]_vars PROVE Ways'
<1>0. Stages /\ Traced
  BY DEF Inv
<1>1. CASE UNCHANGED <<queue, send, recv, todo>> /\ UNCHANGED state
  BY <1>1, AsideKeepsBacked DEF Ways, Straight, Aside
<1>2. CASE UNCHANGED vars
  BY <1>1, <1>2 DEF vars, stages
<1>3. ASSUME NEW t \in Threads \ {Reorderer}, Thread(t) PROVE Ways'
  <2>1. CASE Stage(t) /\ UNCHANGED <<encoder, capacity, writer, misses>>
    <3>1. UNCHANGED <<encoder, capacity>>
      BY <2>1
    <3>. QED BY <1>0, <2>1, <3>1, StageKeepsWays
  <2>2. CASE Move(t)
    BY <1>0, <2>2, MoveKeepsWays
  <2>3. CASE Terminate(t)
    BY <1>0, <2>3, TerminateKeepsWays
  <2>. QED BY <1>3, <2>1, <2>2, <2>3 DEF Thread
<1>4. CASE Read
  BY <1>0, <1>4, ReadKeepsWays
<1>5. CASE WriteAndAdvance
  <2>1. PICK c \in FineChunks : state' = [state EXCEPT ![c.data] = "flushed"]
    BY <1>5, WriteParts
  <2>2. UNCHANGED <<queue, send, recv, todo>>
    BY <1>5 DEF WriteAndAdvance, stages
  <2>3. \A d \in Contents : state'[d] = "uncompressed" => state[d] = "uncompressed"
    BY <1>0, <2>1 DEF Traced
  <2>. QED BY <2>2, <2>3, AsideKeepsBacked DEF Ways, Straight, Aside
<1>6. CASE FlushCache
  BY <1>1, <1>6 DEF FlushCache
<1>7. CASE Barrier
  BY <1>1, <1>7 DEF Barrier
<1>. QED BY <1>2, <1>3, <1>4, <1>5, <1>6, <1>7 DEF Next

LEMMA InitWays == ASSUME Init PROVE Ways
<1>1. Backed
  BY DEF Init, Backed
<1>2. Straight
  BY Crossing, EmptySeq DEF Init, Straight
<1>. QED BY <1>1, <1>2 DEF Ways

\* write_chunk_to_file waits until the chunk it has to write, or the one this duplicates, is
\* compressed; the chunk that brought the content to the hash table is then still before Compress.
THEOREM WaitedChunkAlwaysOnItsWay == Spec => []WaitedChunkIsOnItsWay
<1>1. ASSUME Inv, Ways PROVE WaitedChunkIsOnItsWay
  <2>1. SUFFICES ASSUME hold # <<>>, state[hold[1].data] = "uncompressed"
                 PROVE  \E s \in (UNION {{send[t][Outputs[t][1]]} : t \in Dedupers})
                                 \cup UNION {{queue[Inputs[t][1]], recv[t][Inputs[t][1]]} : t \in Compressors} :
                           \E i \in DOMAIN s : s[i].data = hold[1].data /\ ~s[i].isDuplicate
    BY DEF WaitedChunkIsOnItsWay
  <2>2. PICK c \in FineChunks : hold = <<c>>
    BY <1>1, <2>1 DEF Inv, Cache, HoldOK
  <2>3. hold[1].data \in Contents
    BY <2>2, FineFacts
  <2>4. OnItsWay(hold[1].data)
    BY <1>1, <2>1, <2>3 DEF Ways, Backed
  <2>5. /\ \A t \in Dedupers : send[t][Outputs[t][1]] \in Buffer
        /\ \A u \in Compressors : queue[Inputs[u][1]] \in Buffer /\ recv[u][Inputs[u][1]] \in Buffer
    BY <1>1, Crossing, Kinds DEF Inv, Stages, SendOK, RecvOK, QueueOK, Filled
  <2>6. \A s \in Buffer : DOMAIN s = 1..Len(s)
    BY LenProperties DEF Buffer
  <2> DEFINE ways == (UNION {{send[t][Outputs[t][1]]} : t \in Dedupers})
                     \cup UNION {{queue[Inputs[t][1]], recv[t][Inputs[t][1]]} : t \in Compressors}
  <2>7. PICK s \in Buffer : s \in ways /\ Fresh(s, hold[1].data)
    <3>1. /\ \A t \in Dedupers : send[t][Outputs[t][1]] \in ways
          /\ \A t \in Compressors : queue[Inputs[t][1]] \in ways /\ recv[t][Inputs[t][1]] \in ways
      OBVIOUS
    <3> HIDE DEF ways
    <3>. QED BY <2>4, <2>5, <3>1 DEF OnItsWay
  <2>8. \E i \in DOMAIN s : s[i].data = hold[1].data /\ ~s[i].isDuplicate
    BY <2>6, <2>7 DEF Fresh
  <2>. QED BY <2>7, <2>8
<1>2. Inv /\ Ways /\ [Next]_vars => Ways'
  BY NextWays
<1>3. Init => Ways
  BY InitWays
<1>. QED BY <1>1, <1>2, <1>3, Invariance, PTL DEF Spec
---------------------------------------------------------------------------------
(***************************************************************************)
(* The arrays: a full local buffer is about to be emptied, unless its      *)
(* thread adds nothing more, so that a chunk always finds a place.         *)
(***************************************************************************)
Relieved(t, q) == \/ Empties(todo[t], q)
                  \/ pc[t] \in {"leave", "done"}
                  \/ t = Fragmenter /\ (pc[t] = "barrier" \/ inHand[t] = <<>>)

RecvRoom == \A t \in Threads, q \in Queues : Len(recv[t][q]) <= Step[t]
SendRoom == \A t \in Threads, q \in Queues :
                /\ Len(send[t][q]) <= Step[t]
                /\ Len(send[t][q]) = Step[t] => Relieved(t, q)
Room == SendRoom /\ RecvRoom

LEMMA LengthFacts ==
    /\ \A t \in Threads : Step[t] \in Nat \ {0}
    /\ Stages => \A t \in Threads, q \in Queues :
                  /\ send[t][q] \in Seq(Genuine(q)) /\ Len(send[t][q]) \in Nat
                  /\ recv[t][q] \in Seq(Genuine(q)) /\ Len(recv[t][q]) \in Nat
<1>1. \A t \in Threads : Step[t] \in Nat \ {0}
  BY SizesAssumption
<1>2. ASSUME Stages, NEW t \in Threads, NEW q \in Queues
      PROVE  /\ send[t][q] \in Seq(Genuine(q)) /\ Len(send[t][q]) \in Nat
             /\ recv[t][q] \in Seq(Genuine(q)) /\ Len(recv[t][q]) \in Nat
  <2>1. send[t][q] \in Seq(Genuine(q)) /\ recv[t][q] \in Seq(Genuine(q))
    BY <1>2 DEF Stages, SendOK, RecvOK, Filled
  <2>. QED BY <2>1, LenProperties
<1>. QED BY <1>1, <1>2

LEMMA RecvReplaced ==
    ASSUME RecvRoom, NEW t \in Threads, NEW q \in Queues, NEW e, Replaced(recv, recv', t, q, e),
           Len(e) <= Step[t]
    PROVE  RecvRoom'
BY DEF RecvRoom, Replaced

LEMMA RecvTaken ==
    ASSUME Stages, RecvRoom, NEW t \in Threads, NEW q \in Queues, recv[t][q] # <<>>,
           recv' = [recv EXCEPT ![t][q] = Tail(recv[t][q])]
    PROVE  RecvRoom'
<1>1. Replaced(recv, recv', t, q, Tail(recv[t][q]))
  BY Taken DEF Stages
<1>2. recv[t][q] \in Seq(Genuine(q)) /\ Len(recv[t][q]) \in Nat /\ Step[t] \in Nat
  BY LengthFacts
<1>3. Len(Tail(recv[t][q])) = Len(recv[t][q]) - 1
  BY <1>2, HeadTailProperties
<1>4. Len(recv[t][q]) <= Step[t]
  BY DEF RecvRoom
<1>5. Len(Tail(recv[t][q])) <= Step[t]
  BY <1>2, <1>3, <1>4
<1>. QED BY <1>1, <1>5, RecvReplaced

LEMMA RecvDequeued ==
    ASSUME Stages, RecvRoom, NEW t \in Threads, NEW q \in Queues, q \in CoarseQueues => t \in Refiners,
           Dequeue(t, q), UNCHANGED capacity
    PROVE  RecvRoom'
<1>1. PICK n \in 1..Len(queue[q]) :
          n <= Step[t] /\ Replaced(recv, recv', t, q, First(n, queue[q]))
  BY Dequeued DEF Stages
<1>2. queue[q] \in Seq(Genuine(q)) /\ Len(queue[q]) \in Nat
  BY LenProperties DEF Stages, QueueOK
<1>3. n \in Nat /\ n <= Len(queue[q])
  BY <1>1, <1>2
<1>4. Len(First(n, queue[q])) = n
  BY <1>2, <1>3, Pieces
<1>. QED BY <1>1, <1>4, RecvReplaced

LEMMA NextRecvRoom == ASSUME Inv, RecvRoom, [Next]_vars PROVE RecvRoom'
<1>0. Stages
  BY DEF Inv
<1>1. CASE UNCHANGED recv
  BY <1>1 DEF RecvRoom
<1>2. CASE UNCHANGED vars
  BY <1>1, <1>2 DEF vars, stages
<1>3. ASSUME NEW t \in Threads \ {Reorderer}, Stage(t), UNCHANGED <<encoder, capacity>>
      PROVE  RecvRoom'
  <2>1. CASE t = Fragmenter /\ Fragment
    BY <1>0, <1>1, <2>1, FragmentCases
  <2>2. CASE Worker(t)
    <3> DEFINE q == Inputs[t][1]
    <3>1. /\ t \in Workers /\ (Receive(t) \/ (\E s \in Seq(Own) : Leave(t, s)) \/ Works(t))
          /\ q \in Queues /\ (q \in CoarseQueues => t \in Refiners)
      BY <2>2, WorkerCases, Wired, Lanes DEF Workers
    <3>2. CASE Receive(t)
      BY <1>0, <1>3, <3>1, <3>2, RecvDequeued DEF Receive
    <3>3. CASE \E s \in Seq(Own) : Leave(t, s)
      BY <1>1, <3>3 DEF Leave
    <3>4. CASE Works(t)
      <4>1. recv' = recv \/ (recv[t][q] # <<>> /\ recv' = [recv EXCEPT ![t][q] = Tail(recv[t][q])])
        BY <3>4, Zenon DEF Works, RefineChunk, DeduplicateChunk, CompressChunk, CrossPop
      <4>. QED BY <1>0, <1>1, <3>1, <4>1, RecvTaken
    <3>. QED BY <3>1, <3>2, <3>3, <3>4
  <2>. QED BY <1>3, <2>1, <2>2 DEF Stage, Worker
<1>4. ASSUME NEW t \in Threads \ {Reorderer}, Thread(t) PROVE RecvRoom'
  <2>1. CASE Stage(t) /\ UNCHANGED <<encoder, capacity, writer, misses>>
    BY <1>3, <2>1
  <2>2. CASE Move(t)
    BY <1>1, <2>2, Zenon DEF Move
  <2>3. CASE Terminate(t)
    BY <1>1, <2>3, Zenon DEF Terminate
  <2>. QED BY <1>4, <2>1, <2>2, <2>3 DEF Thread
<1>5. CASE Read
  <2>1. /\ UNCHANGED capacity /\ Reorderer \in Threads
        /\ \/ \E i \in DOMAIN Inputs[Reorderer] : Takes(Inputs[Reorderer][i])
           \/ Finds
           \/ \E q \in Queues : Accept(q)
    BY <1>0, <1>5, ReadCases, Wired
  <2>2. ASSUME NEW i \in DOMAIN Inputs[Reorderer], Takes(Inputs[Reorderer][i]) PROVE RecvRoom'
    <3>1. Inputs[Reorderer][i] \in Queues /\ Inputs[Reorderer][i] \notin CoarseQueues
      <4>1. Reorderer \in Threads \ Refiners
        BY Wired
      <4>. QED BY <4>1, Wired, Lanes
    <3>. QED BY <1>0, <2>1, <2>2, <3>1, RecvDequeued DEF Takes
  <2>3. CASE Finds
    BY <1>1, <2>3 DEF Finds
  <2>4. ASSUME NEW q \in Queues, Accept(q) PROVE RecvRoom'
    <3>1. /\ recv[Reorderer][q] # <<>>
          /\ recv' = [recv EXCEPT ![Reorderer][q] = Tail(recv[Reorderer][q])]
      BY <2>4, Zenon DEF Accept
    <3>. QED BY <1>0, <2>1, <3>1, RecvTaken
  <2>. QED BY <2>1, <2>2, <2>3, <2>4
<1>6. CASE WriteAndAdvance
  BY <1>1, <1>6 DEF WriteAndAdvance, stages
<1>7. CASE FlushCache
  BY <1>1, <1>7 DEF FlushCache
<1>8. CASE Barrier
  BY <1>1, <1>8 DEF Barrier
<1>. QED BY <1>2, <1>4, <1>5, <1>6, <1>7, <1>8 DEF Next

\* A thread that may add a chunk has a place for it in each of its buffers.
LEMMA Place ==
    ASSUME Stages, SendRoom, NEW t \in Threads, Idle(t), t = Fragmenter => inHand[t] # <<>>
    PROVE  \A q \in Queues : Len(send[t][q]) < Step[t]
<1>1. ASSUME NEW q \in Queues PROVE ~Relieved(t, q)
  <2>1. ~Empties(todo[t], q)
    BY DEF Idle, Empties
  <2>. QED BY <2>1 DEF Relieved, Idle
<1>2. ASSUME NEW q \in Queues PROVE Len(send[t][q]) < Step[t]
  <2>1. Len(send[t][q]) \in Nat /\ Step[t] \in Nat
    BY LengthFacts
  <2>2. Len(send[t][q]) <= Step[t] /\ Len(send[t][q]) # Step[t]
    BY <1>1 DEF SendRoom
  <2>. QED BY <2>1, <2>2
<1>. QED BY <1>2

LEMMA EmptiesConcat ==
    ASSUME NEW s \in Seq(Operations), NEW q \in Queues
    PROVE  Empties(s \o <<Enqueue(q)>>, q)
<1>1. PICK o \in Operations : o = Enqueue(q) /\ o.op = "enqueue" /\ o.from = q
  <2>1. Enqueue(q) \in Operations
    BY OperationFacts DEF Own
  <2>2. Enqueue(q).op = "enqueue" /\ Enqueue(q).from = q
    BY DEF Enqueue, Operation
  <2>. QED BY <2>1, <2>2
<1>2. <<o>> \in Seq(Operations) /\ Len(<<o>>) = 1 /\ <<o>>[1] = o
  OBVIOUS
<1>3. PICK p \in Seq(Operations) : p = <<o>>
  BY <1>2
<1>4. Len(s) \in Nat /\ Len(s \o p) = Len(s) + 1
  BY <1>2, <1>3, LenProperties, ConcatProperties
<1>5. (s \o p)[Len(s) + 1] = o
  <2>1. \A i \in 1..Len(s) + Len(p) : (s \o p)[i] = IF i <= Len(s) THEN s[i] ELSE p[i - Len(s)]
    BY ConcatProperties
  <2>2. Len(s) + 1 \in 1..Len(s) + Len(p) /\ ~(Len(s) + 1 <= Len(s)) /\ Len(s) + 1 - Len(s) = 1
    BY <1>2, <1>3, <1>4
  <2>. QED BY <1>2, <1>3, <2>1, <2>2
<1>6. Len(s) + 1 \in 1..Len(s \o p)
  BY <1>4
<1>7. Empties(s \o p, q)
  BY <1>1, <1>5, <1>6 DEF Empties
<1>. QED BY <1>1, <1>3, <1>7

\* The other threads stand where they stood.
Alone(t) == /\ \A u \in Threads \ {t}, q \in Queues : send'[u][q] = send[u][q]
            /\ \A u \in Threads \ {t} : todo'[u] = todo[u] /\ pc'[u] = pc[u] /\ inHand'[u] = inHand[u]

LEMMA AloneKeeps ==
    ASSUME SendRoom, NEW t \in Threads, Alone(t),
           \A q \in Queues : /\ Len(send'[t][q]) <= Step[t]
                             /\ Len(send'[t][q]) = Step[t] => Relieved(t, q)'
    PROVE  SendRoom'
<1>1. ASSUME NEW u \in Threads \ {t}, NEW q \in Queues
      PROVE  Len(send'[u][q]) <= Step[u] /\ (Len(send'[u][q]) = Step[u] => Relieved(u, q)')
  <2>1. Len(send[u][q]) <= Step[u] /\ (Len(send[u][q]) = Step[u] => Relieved(u, q))
    BY DEF SendRoom
  <2>2. /\ send'[u][q] = send[u][q] /\ todo'[u] = todo[u] /\ pc'[u] = pc[u]
        /\ inHand'[u] = inHand[u]
    BY DEF Alone
  <2>. QED BY <2>1, <2>2 DEF Relieved, Empties
<1>. QED BY <1>1 DEF SendRoom

LEMMA AddedFits ==
    ASSUME Stages, SendRoom, NEW t \in Threads, NEW q \in Queues, NEW x \in Genuine(q),
           NEW before \in Seq(Own), Idle(t), t # Fragmenter,
           Replaced(send, send', t, q, Append(send[t][q], x)),
           todo' = [todo EXCEPT ![t] = before \o IF Len(send[t][q]) + 1 >= Step[t]
                                                 THEN <<Enqueue(q)>> ELSE <<>>],
           pc' = pc, \A u \in Threads \ {t} : inHand'[u] = inHand[u]
    PROVE  SendRoom'
<1>1. \A r \in Queues : Len(send[t][r]) < Step[t]
  BY Place
<1>2. /\ send[t][q] \in Seq(Genuine(q)) /\ Len(send[t][q]) \in Nat /\ Step[t] \in Nat
      /\ todo \in [Threads -> Seq(Operations)]
  BY LengthFacts DEF Stages, PcOK
<1>3. Len(Append(send[t][q], x)) = Len(send[t][q]) + 1
  BY <1>2, AppendProperties
<1>4. Alone(t)
  BY <1>2 DEF Alone, Replaced
<1>5. ASSUME NEW r \in Queues
      PROVE  /\ Len(send'[t][r]) <= Step[t]
             /\ Len(send'[t][r]) = Step[t] => Relieved(t, r)'
  <2>1. CASE r # q
    <3>1. send'[t][r] = send[t][r] /\ Len(send[t][r]) \in Nat
      BY <2>1, LengthFacts DEF Replaced
    <3>. QED BY <1>1, <1>2, <3>1
  <2>2. CASE r = q
    <3>1. Len(send'[t][r]) = Len(send[t][q]) + 1
      BY <1>3, <2>2 DEF Replaced
    <3>2. Len(send'[t][r]) <= Step[t]
      BY <1>1, <1>2, <3>1
    <3>3. ASSUME Len(send'[t][r]) = Step[t] PROVE Relieved(t, r)'
      <4>1. Len(send[t][q]) + 1 >= Step[t]
        BY <1>2, <3>1, <3>3
      <4>2. todo'[t] = before \o <<Enqueue(q)>>
        BY <1>2, <4>1
      <4>3. Empties(todo'[t], q)
        BY <4>2, EmptiesConcat, OperationSequences
      <4>. QED BY <2>2, <4>3 DEF Relieved
    <3>. QED BY <3>2, <3>3
  <2>. QED BY <2>1, <2>2
<1>. QED BY <1>4, <1>5, AloneKeeps

LEMMA FragmentKeepsRoom ==
    ASSUME Stages, SendRoom, Fragment
    PROVE  SendRoom'
<1> DEFINE t == Fragmenter
<1>1. t \in Threads /\ Idle(t) /\ send \in Buffers /\ PcOK /\ HandOK
  BY Wired, FragmentCases DEF Stages, SendOK, Filled
<1>2. ASSUME NEW i \in DOMAIN Outputs[t], NEW s \in Seq(Operations), Fragments(Outputs[t][i], s)
      PROVE  SendRoom'
  <2>1. PICK q \in Queues : q = Outputs[t][i] /\ Genuine(q) = CoarseChunks
    BY <1>1, Wired, Lanes
  <2>2. /\ inHand[t] # <<>> /\ inHand' = [inHand EXCEPT ![t] = Tail(inHand[t])]
        /\ send' = [send EXCEPT ![t][q] = Append(send[t][q], Head(inHand[t]))]
        /\ todo' = [todo EXCEPT ![t] = s] /\ pc' = pc
        /\ Len(send[t][q]) + 1 = Step[t] /\ Len(inHand[t]) > 1 => Empties(s, q)
    BY <1>2, <2>1, Zenon DEF Fragments, Cut
  <2>3. inHand[t] \in Seq(CoarseChunks)
    BY <1>1 DEF HandOK
  <2>4. /\ Head(inHand[t]) \in CoarseChunks /\ Tail(inHand[t]) \in Seq(CoarseChunks)
        /\ Len(Tail(inHand[t])) = Len(inHand[t]) - 1 /\ Len(inHand[t]) \in Nat
    BY <2>2, <2>3, HeadTailProperties, LenProperties
  <2>5. PICK e : e = Append(send[t][q], Head(inHand[t]))
    OBVIOUS
  <2>6. send[t][q] \in Seq(Genuine(q)) /\ Len(send[t][q]) \in Nat /\ Step[t] \in Nat
    BY <1>1, LengthFacts
  <2>7. e \in Seq(Genuine(q)) /\ Len(e) = Len(send[t][q]) + 1
    BY <2>1, <2>4, <2>5, <2>6, AppendProperties
  <2>8. Replaced(send, send', t, q, e)
    <3>1. Filled(send) /\ send' = [send EXCEPT ![t][q] = e]
      BY <2>2, <2>5 DEF Stages, SendOK
    <3>. QED BY <1>1, <2>7, <3>1, BufferUpdate
  <2>9. \A r \in Queues : Len(send[t][r]) < Step[t]
    BY <1>1, <2>2, Place
  <2>10. Alone(t)
    BY <1>1, <2>2, <2>8 DEF Alone, Replaced, PcOK, HandOK
  <2>11. ASSUME NEW r \in Queues
         PROVE  /\ Len(send'[t][r]) <= Step[t]
                /\ Len(send'[t][r]) = Step[t] => Relieved(t, r)'
    <3>1. CASE r # q
      <4>1. send'[t][r] = send[t][r] /\ Len(send[t][r]) \in Nat
        BY <1>1, <2>8, <3>1, LengthFacts DEF Replaced
      <4>. QED BY <2>6, <2>9, <4>1
    <3>2. CASE r = q
      <4>1. Len(send'[t][r]) = Len(send[t][q]) + 1
        BY <1>1, <2>7, <2>8, <3>2 DEF Replaced
      <4>2. Len(send'[t][r]) <= Step[t]
        BY <2>6, <2>9, <4>1
      <4>3. ASSUME Len(send'[t][r]) = Step[t], Len(inHand[t]) > 1 PROVE Relieved(t, r)'
        <5>1. Empties(s, q)
          BY <2>2, <4>1, <4>3
        <5>2. todo'[t] = s
          BY <1>1, <2>2 DEF PcOK
        <5>. QED BY <3>2, <5>1, <5>2 DEF Relieved
      <4>4. ASSUME ~(Len(inHand[t]) > 1) PROVE Relieved(t, r)'
        <5>1. Len(Tail(inHand[t])) = 0
          <6>1. Len(inHand[t]) # 0
            BY <2>2, <2>3, EmptySeq
          <6>2. PICK m, l : m = Len(inHand[t]) /\ l = Len(Tail(inHand[t]))
            OBVIOUS
          <6>3. m \in Nat /\ m # 0 /\ ~(m > 1) /\ l = m - 1
            BY <2>4, <4>4, <6>1, <6>2
          <6>4. l = 0
            BY <6>3
          <6>. QED BY <6>2, <6>4
        <5>2. Tail(inHand[t]) = <<>>
          BY <2>4, <5>1, EmptySeq
        <5>3. inHand'[t] = <<>>
          BY <1>1, <2>2, <5>2 DEF HandOK
        <5>. QED BY <5>3 DEF Relieved
      <4>. QED BY <4>2, <4>3, <4>4
    <3>. QED BY <3>1, <3>2
  <2>. QED BY <1>1, <2>10, <2>11, AloneKeeps
<1>3. ASSUME NEW s \in Seq(Operations), Closes(s) PROVE SendRoom'
  <2>1. /\ inHand[t] = <<>> /\ todo' = [todo EXCEPT ![t] = s] /\ UNCHANGED <<send, inHand>>
        /\ pc' = pc \/ pc' = [pc EXCEPT ![t] = "leave"]
    BY <1>3 DEF Closes
  <2>2. Alone(t)
    BY <1>1, <2>1 DEF Alone, PcOK
  <2>3. \A q \in Queues : Relieved(t, q)' /\ Len(send'[t][q]) <= Step[t]
    BY <1>1, <2>1 DEF Relieved, SendRoom
  <2>. QED BY <1>1, <2>2, <2>3, AloneKeeps
<1>. QED BY <1>2, <1>3, FragmentCases

LEMMA MoveKeepsRoom ==
    ASSUME Stages, SendRoom, NEW t \in Threads, Move(t)
    PROVE  SendRoom'
<1>1. PICK o \in Operations, n \in Nat : o = Head(todo[t]) /\ Moved(t, o, n)
  BY MoveParts
<1>2. o.from \in Queues /\ PcOK
  BY OperationFacts DEF Stages
<1>3. UNCHANGED <<inHand, pc>>
  BY Zenon DEF Move
<1>4. /\ Replaced(send, send', t, o.from, Rest(n, send[t][o.from])) /\ n <= Len(send[t][o.from])
      /\ Len(send[t][o.from]) > 0 => n > 0
      /\ todo' = [todo EXCEPT ![t] = Tail(todo[t])] \/ todo' = todo
  BY <1>1, Zenon DEF Moved
<1>5. todo[t] # <<>> /\ todo[t] \in Seq(Operations)
  BY MoveParts
<1>6. Alone(t)
  BY <1>2, <1>3, <1>4 DEF Alone, Replaced, PcOK
<1>7. ASSUME NEW q \in Queues
      PROVE  /\ Len(send'[t][q]) <= Step[t]
             /\ Len(send'[t][q]) = Step[t] => Relieved(t, q)'
  <2>1. CASE q = o.from
    <3>1. /\ send[t][q] \in Seq(Genuine(q)) /\ Len(send[t][q]) \in Nat /\ Step[t] \in Nat \ {0}
          /\ Len(send[t][q]) <= Step[t]
      BY LengthFacts DEF SendRoom
    <3>2. n <= Len(send[t][q]) /\ (Len(send[t][q]) > 0 => n > 0)
      BY <1>4, <2>1
    <3>3. PICK s \in Seq(Genuine(q)) : s = send[t][q]
      BY <3>1
    <3>4. Len(Rest(n, s)) = Len(s) - n
      BY <3>2, <3>3, Pieces
    <3>5. send'[t][q] = Rest(n, s)
      BY <1>4, <2>1, <3>3 DEF Replaced
    <3>6. Len(s) - n < Step[t]
      BY <3>1, <3>2, <3>3
    <3>7. PICK l, m : l = Len(send'[t][q]) /\ m = Len(s)
      OBVIOUS
    <3>8. l = m - n /\ m - n < Step[t] /\ m \in Nat /\ Step[t] \in Nat
      BY <3>1, <3>3, <3>4, <3>5, <3>6, <3>7
    <3>9. l <= Step[t] /\ l # Step[t]
      BY <3>8
    <3>. QED BY <3>7, <3>9
  <2>2. CASE q # o.from
    <3>1. send'[t][q] = send[t][q] /\ Len(send[t][q]) <= Step[t]
      BY <1>4, <2>2 DEF Replaced, SendRoom
    <3>2. ASSUME Len(send[t][q]) = Step[t] PROVE Relieved(t, q)'
      <4>1. Relieved(t, q)
        BY <3>2 DEF SendRoom
      <4>2. CASE ~Empties(todo[t], q)
        BY <1>3, <4>1, <4>2 DEF Relieved
      <4>3. CASE Empties(todo[t], q)
        <5>1. PICK i \in 1..Len(todo[t]) : todo[t][i].op = "enqueue" /\ todo[t][i].from = q
          BY <4>3 DEF Empties
        <5>2. i # 1
          BY <1>1, <1>5, <2>2, <5>1
        <5>3. Empties(Tail(todo[t]), q)
          <6>1. /\ Len(todo[t]) \in Nat /\ Len(Tail(todo[t])) = Len(todo[t]) - 1
                /\ \A j \in 1..Len(Tail(todo[t])) : Tail(todo[t])[j] = todo[t][j + 1]
            BY <1>5, HeadTailProperties, LenProperties
          <6>2. i - 1 \in 1..Len(Tail(todo[t])) /\ i - 1 + 1 = i
            BY <5>2, <6>1
          <6>3. Tail(todo[t])[i - 1] = todo[t][i]
            BY <6>1, <6>2
          <6>. QED BY <5>1, <6>2, <6>3 DEF Empties
        <5>4. todo'[t] = todo[t] \/ todo'[t] = Tail(todo[t])
          BY <1>2, <1>4 DEF PcOK
        <5>. QED BY <4>3, <5>3, <5>4 DEF Relieved
      <4>. QED BY <4>2, <4>3
    <3>. QED BY <3>1, <3>2
  <2>. QED BY <2>1, <2>2
<1>. QED BY <1>6, <1>7, AloneKeeps

LEMMA TerminateKeepsRoom ==
    ASSUME Stages, SendRoom, NEW t \in Threads, Terminate(t)
    PROVE  SendRoom'
<1>1. /\ todo[t] # <<>> /\ Finished(t) /\ todo' = [todo EXCEPT ![t] = Tail(todo[t])]
      /\ pc' = [pc EXCEPT ![t] = IF Tail(todo[t]) # <<>> THEN pc[t]
                                 ELSE IF Smart /\ t = Fragmenter THEN "barrier" ELSE "done"]
      /\ UNCHANGED <<send, inHand>>
  BY Zenon DEF Terminate
<1>2. PcOK /\ todo[t] \in Seq(Operations)
  BY DEF Stages, PcOK
<1>3. Alone(t)
  BY <1>1, <1>2 DEF Alone, PcOK
<1>4. ASSUME NEW q \in Queues, Relieved(t, q) PROVE Relieved(t, q)'
  <2>1. CASE Empties(todo[t], q)
    <3>1. PICK i \in 1..Len(todo[t]) : todo[t][i].op = "enqueue" /\ todo[t][i].from = q
      BY <2>1 DEF Empties
    <3>2. i # 1
      <4>1. todo[t][1].op # "enqueue"
        BY <1>1 DEF Finished
      <4>. QED BY <3>1, <4>1
    <3>3. /\ Len(todo[t]) \in Nat /\ Len(Tail(todo[t])) = Len(todo[t]) - 1
          /\ \A j \in 1..Len(Tail(todo[t])) : Tail(todo[t])[j] = todo[t][j + 1]
      BY <1>1, <1>2, HeadTailProperties, LenProperties
    <3>4. i - 1 \in 1..Len(Tail(todo[t])) /\ i - 1 + 1 = i
      BY <3>2, <3>3
    <3>5. Empties(Tail(todo[t]), q)
      BY <3>1, <3>3, <3>4 DEF Empties
    <3>6. todo'[t] = Tail(todo[t])
      BY <1>1, <1>2 DEF PcOK
    <3>. QED BY <3>5, <3>6 DEF Relieved
  <2>2. CASE ~Empties(todo[t], q)
    <3>1. pc'[t] \in {pc[t], "done"} \/ (pc'[t] = "barrier" /\ t = Fragmenter)
      BY <1>1, <1>2 DEF PcOK
    <3>2. inHand'[t] = inHand[t]
      BY <1>1
    <3>3. pc[t] \in {"leave", "done"} \/ (t = Fragmenter /\ (pc[t] = "barrier" \/ inHand[t] = <<>>))
      BY <1>4, <2>2 DEF Relieved
    <3>. QED BY <3>1, <3>2, <3>3 DEF Relieved
  <2>. QED BY <2>1, <2>2
<1>5. \A q \in Queues : send'[t][q] = send[t][q]
  BY <1>1
<1>. QED BY <1>3, <1>4, <1>5, AloneKeeps DEF SendRoom

LEMMA BarrierKeepsRoom ==
    ASSUME Stages, SendRoom, Barrier
    PROVE  SendRoom'
<1>1. /\ \A t \in Threads : pc[t] = "barrier"
      /\ pc' = [t \in Threads |-> IF t = Fragmenter THEN "done" ELSE "run"]
      /\ UNCHANGED <<send, todo, inHand>>
  BY DEF Barrier
<1>2. ASSUME NEW t \in Threads, NEW q \in Queues, Relieved(t, q) PROVE Relieved(t, q)'
  BY <1>1, <1>2 DEF Relieved
<1>. QED BY <1>1, <1>2 DEF SendRoom

LEMMA WorkerKeepsRoom ==
    ASSUME Stages, SendRoom, NEW t \in Threads, Worker(t), UNCHANGED <<encoder, capacity>>
    PROVE  SendRoom'
<1>1. /\ t \in Workers /\ Idle(t) /\ t # Fragmenter
      /\ Receive(t) \/ (\E s \in Seq(Own) : Leave(t, s)) \/ Works(t)
  BY WorkerCases, Wired DEF Workers
<1>2. PcOK /\ HandOK
  BY DEF Stages
<1>3. CASE Receive(t)
  BY <1>3 DEF Receive, SendRoom, Relieved
<1>4. ASSUME NEW s \in Seq(Own), Leave(t, s) PROVE SendRoom'
  <2>1. /\ pc' = [pc EXCEPT ![t] = "leave"] /\ todo' = [todo EXCEPT ![t] = s]
        /\ UNCHANGED <<send, inHand>>
    BY <1>4 DEF Leave
  <2>2. Alone(t)
    BY <1>2, <2>1 DEF Alone, PcOK
  <2>3. \A q \in Queues : Relieved(t, q)' /\ Len(send'[t][q]) <= Step[t]
    BY <1>2, <2>1 DEF Relieved, SendRoom, PcOK
  <2>. QED BY <2>2, <2>3, AloneKeeps
<1>5. <<>> \in Seq(Own)
  BY EmptySeq
<1>6. CASE t \in Refiners /\ RefineChunk(t)
  <2>1. PICK q \in Queues : q = Outputs[t][1] /\ Genuine(q) = FineChunks
    BY <1>1, <1>6, Wired, Lanes
  <2>2. PICK x \in FineChunks : Replaced(send, send', t, q, Append(send[t][q], x))
    BY <1>6, <2>1, RefineChunkKeepsStages
  <2>3. /\ todo' = [todo EXCEPT ![t] = <<>> \o IF Len(send[t][q]) + 1 >= Step[t]
                                               THEN <<Enqueue(q)>> ELSE <<>>]
        /\ pc' = pc /\ \E h : inHand' = [inHand EXCEPT ![t] = h]
    BY <1>6, <2>1, Zenon DEF RefineChunk, Put
  <2>4. \A u \in Threads \ {t} : inHand'[u] = inHand[u]
    BY <1>2, <2>3 DEF HandOK
  <2>. QED BY <1>1, <1>5, <2>1, <2>2, <2>3, <2>4, AddedFits
<1>7. ASSUME t \in Dedupers, NEW before \in Seq(Own), DeduplicateChunk(t, before) PROVE SendRoom'
  <2>1. PICK chunk \in FineChunks, dup \in BOOLEAN :
          /\ Put(t, Destination(t, dup), [chunk EXCEPT !.isDuplicate = dup], before)
          /\ Replaced(send, send', t, Destination(t, dup),
                      Append(send[t][Destination(t, dup)], [chunk EXCEPT !.isDuplicate = dup]))
    BY <1>7, DeduplicateChunkKeepsStages
  <2>2. PICK x \in FineChunks : x = [chunk EXCEPT !.isDuplicate = dup]
    BY MarkGenuine
  <2>3. PICK q \in Queues : q = Destination(t, dup) /\ Genuine(q) = FineChunks
    BY <1>1, <1>7, Wired, Lanes DEF Destination
  <2>4. Replaced(send, send', t, q, Append(send[t][q], x)) /\ Put(t, q, x, before)
    BY <2>1, <2>2, <2>3, Zenon
  <2>5. todo' = [todo EXCEPT ![t] = before \o IF Len(send[t][q]) + 1 >= Step[t]
                                              THEN <<Enqueue(q)>> ELSE <<>>]
    BY <2>4, Zenon DEF Put
  <2>6. pc' = pc /\ inHand' = inHand
    BY <1>7, Zenon DEF DeduplicateChunk
  <2>. QED BY <1>1, <2>3, <2>4, <2>5, <2>6, AddedFits
<1>8. CASE t \in Compressors /\ CompressChunk(t)
  <2>1. PICK q \in Queues : q = Outputs[t][1] /\ Genuine(q) = FineChunks
    BY <1>1, <1>8, Wired, Lanes
  <2>2. PICK x \in FineChunks : Replaced(send, send', t, q, Append(send[t][q], x))
    BY <1>8, <2>1, CompressChunkKeepsStages
  <2>3. /\ todo' = [todo EXCEPT ![t] = <<>> \o IF Len(send[t][q]) + 1 >= Step[t]
                                               THEN <<Enqueue(q)>> ELSE <<>>]
        /\ pc' = pc /\ inHand' = inHand
    BY <1>8, <2>1, Zenon DEF CompressChunk, Put
  <2>. QED BY <1>1, <1>5, <2>1, <2>2, <2>3, AddedFits
<1>9. CASE t \in Compressors /\ CrossPop(t)
  <2>1. /\ todo' = [todo EXCEPT ![t] = ForcePush(t, Outputs[t][1])]
        /\ UNCHANGED <<send, inHand, pc>>
    BY <1>9 DEF CrossPop
  <2>2. \A q \in Queues : Len(send[t][q]) < Step[t]
    BY <1>1, Place
  <2>3. \A q \in Queues : Len(send'[t][q]) <= Step[t] /\ Len(send'[t][q]) # Step[t]
    <3>1. \A q \in Queues : Len(send[t][q]) \in Nat /\ Step[t] \in Nat
      BY LengthFacts
    <3>. QED BY <2>1, <2>2, <3>1
  <2>4. Alone(t)
    BY <1>2, <2>1 DEF Alone, PcOK
  <2>. QED BY <2>3, <2>4, AloneKeeps
<1>. QED BY <1>1, <1>3, <1>4, <1>6, <1>7, <1>8, <1>9 DEF Works

LEMMA NextRoom == ASSUME Inv, Room, [Next]_vars PROVE Room'
<1>0. Stages /\ SendRoom /\ RecvRoom
  BY DEF Inv, Room
<1>. SUFFICES SendRoom'
  BY <1>0, NextRecvRoom DEF Room
<1>1. CASE UNCHANGED <<send, todo, pc, inHand>>
  BY <1>0, <1>1 DEF SendRoom, Relieved
<1>2. CASE UNCHANGED <<send, todo, inHand>> /\ PcOK /\ pc[Reorderer] \in {"run", "flush"}
           /\ \A u \in Threads \ {Reorderer} : pc'[u] = pc[u]
  <2>1. Reorderer # Fragmenter
    BY Wired
  <2>2. ASSUME NEW t \in Threads, NEW q \in Queues, Relieved(t, q) PROVE Relieved(t, q)'
    <3>1. CASE t = Reorderer
      <4>1. Empties(todo[t], q)
        BY <1>2, <2>1, <2>2, <3>1 DEF Relieved
      <4>. QED BY <1>2, <4>1 DEF Relieved
    <3>2. CASE t # Reorderer
      BY <1>2, <2>2, <3>2 DEF Relieved
    <3>. QED BY <3>1, <3>2
  <2>. QED BY <1>0, <1>2, <2>2 DEF SendRoom
<1>3. CASE UNCHANGED vars
  BY <1>1, <1>3 DEF vars, stages
<1>4. ASSUME NEW t \in Threads \ {Reorderer}, Thread(t) PROVE SendRoom'
  <2>1. CASE Stage(t) /\ UNCHANGED <<encoder, capacity, writer, misses>>
    <3>1. UNCHANGED <<encoder, capacity>>
      BY <2>1
    <3>2. CASE t = Fragmenter /\ Fragment
      BY <1>0, <3>2, FragmentKeepsRoom
    <3>3. CASE Worker(t)
      BY <1>0, <3>1, <3>3, WorkerKeepsRoom
    <3>. QED BY <2>1, <3>2, <3>3 DEF Stage, Worker
  <2>2. CASE Move(t)
    BY <1>0, <2>2, MoveKeepsRoom
  <2>3. CASE Terminate(t)
    BY <1>0, <2>3, TerminateKeepsRoom
  <2>. QED BY <1>4, <2>1, <2>2, <2>3 DEF Thread
<1>5. CASE Read
  <2>1. /\ UNCHANGED <<send, inHand, todo>> /\ pc[Reorderer] = "run" /\ PcOK
        /\ \/ \E i \in DOMAIN Inputs[Reorderer] : Takes(Inputs[Reorderer][i])
           \/ Finds
           \/ \E q \in Queues : Accept(q)
    BY <1>0, <1>5, ReadCases DEF Stages
  <2>2. \A u \in Threads \ {Reorderer} : pc'[u] = pc[u]
    BY <2>1 DEF Takes, Finds, Accept, PcOK
  <2>. QED BY <1>2, <2>1, <2>2
<1>6. CASE WriteAndAdvance
  BY <1>1, <1>6 DEF WriteAndAdvance, stages
<1>7. CASE FlushCache
  <2>1. /\ UNCHANGED <<send, inHand, todo>> /\ pc[Reorderer] = "flush"
        /\ \E l : pc' = [pc EXCEPT ![Reorderer] = l]
    BY <1>7, Zenon DEF FlushCache
  <2>2. \A u \in Threads \ {Reorderer} : pc'[u] = pc[u]
    BY <1>0, <2>1 DEF Stages, PcOK
  <2>. QED BY <1>0, <1>2, <2>1, <2>2 DEF Stages
<1>8. CASE Barrier
  BY <1>0, <1>8, BarrierKeepsRoom
<1>. QED BY <1>3, <1>4, <1>5, <1>6, <1>7, <1>8 DEF Next

LEMMA InitRoom == ASSUME Init PROVE Room
<1>1. \A t \in Threads, q \in Queues : send[t][q] = <<>> /\ recv[t][q] = <<>>
  BY DEF Init
<1>2. Len(<<>>) = 0
  OBVIOUS
<1>3. \A t \in Threads : 0 <= Step[t] /\ 0 # Step[t]
  BY LengthFacts
<1>. QED BY <1>1, <1>2, <1>3 DEF Room, SendRoom, RecvRoom

\* The local arrays have as many places as a step has chunks: although an enqueue may take only
\* a part of them from a full array, no stage of any encoder ever adds a chunk to a full one.
THEOREM BuffersAlwaysSuffice == Spec => []Room
<1>1. Inv /\ Room /\ [Next]_vars => Room'
  BY NextRoom
<1>. QED BY <1>1, InitRoom, Invariance, PTL DEF Spec

\* What Reorder knows of the coarse chunks is inside its array.
AnchorsFit == /\ maxAnchors \in Nat /\ maxAnchors >= InitAnchors
              /\ \A l1 \in DOMAIN perAnchor : l1 \in Nat /\ l1 < maxAnchors

LEMMA CountFits ==
    ASSUME Len(Cuts) <= 2 * InitAnchors, AnchorsFit, NEW c \in FineChunks, CountAnchor(c)
    PROVE  AnchorsFit'
<1>1. /\ maxAnchors' = IF c.l1 >= maxAnchors THEN 2 * maxAnchors ELSE maxAnchors
      /\ \A l1 \in DOMAIN perAnchor' : l1 \in DOMAIN perAnchor \/ l1 = c.l1
  BY DEF CountAnchor
<1>2. /\ c.l1 \in Nat /\ c.l1 + 1 \in 1..Len(Cuts) /\ Len(Cuts) \in Nat /\ InitAnchors \in Nat \ {0}
      /\ maxAnchors \in Nat /\ maxAnchors >= InitAnchors
  BY FineFacts, CutFacts, SizesAssumption DEF AnchorsFit
<1>3. PICK a : a = c.l1
  OBVIOUS
<1>4. a \in Nat /\ a < 2 * InitAnchors /\ (a >= maxAnchors => a < 2 * maxAnchors)
  BY <1>2, <1>3
<1>5. /\ maxAnchors' \in Nat /\ maxAnchors' >= InitAnchors /\ a < maxAnchors'
      /\ maxAnchors' >= maxAnchors
  BY <1>1, <1>2, <1>3, <1>4
<1>6. ASSUME NEW l1 \in DOMAIN perAnchor' PROVE l1 \in Nat /\ l1 < maxAnchors'
  <2>1. CASE l1 = c.l1
    BY <1>3, <1>4, <1>5, <2>1
  <2>2. CASE l1 \in DOMAIN perAnchor /\ l1 # c.l1
    <3>1. l1 \in Nat /\ l1 < maxAnchors
      BY <2>2 DEF AnchorsFit
    <3>2. CASE maxAnchors' = maxAnchors
      BY <3>1, <3>2
    <3>3. CASE a >= maxAnchors
      <4>. QED BY <1>2, <1>5, <3>1
    <3>. QED BY <1>1, <1>3, <3>2, <3>3
  <2>. QED BY <1>1, <2>1, <2>2
<1>. QED BY <1>5, <1>6 DEF AnchorsFit

\* What Reorder accepts is a fine chunk, and it is counted.
LEMMA AcceptedIsFine ==
    ASSUME Stages, NEW q \in Queues, Accept(q)
    PROVE  \E c \in FineChunks : CountAnchor(c)
<1>1. recv[Reorderer][q] # <<>>
  BY Zenon DEF Accept
<1>2. Reorderer \in Threads /\ Reorderer \notin Refiners
  BY Wired
<1>3. recv' = [recv EXCEPT ![Reorderer][q] = Tail(recv[Reorderer][q])] /\ RecvOK
  BY Zenon DEF Accept, Stages
<1>4. Head(recv[Reorderer][q]) \in Genuine(q)
  BY <1>1, <1>2, <1>3, Taken
<1>5. Genuine(q) = FineChunks
  BY <1>1, <1>2, <1>3 DEF RecvOK, Genuine
<1>6. PICK c \in FineChunks : c = Head(recv[Reorderer][q])
  BY <1>4, <1>5
<1>7. Collect(c) \/ Arrange(c)
  BY <1>6, Zenon DEF Accept
<1>. QED BY <1>7 DEF Collect, Arrange

LEMMA NextAnchors ==
    ASSUME Len(Cuts) <= 2 * InitAnchors, Inv, AnchorsFit, [Next]_vars
    PROVE  AnchorsFit'
<1>1. CASE UNCHANGED <<perAnchor, maxAnchors>>
  BY <1>1 DEF AnchorsFit
<1>2. CASE UNCHANGED vars
  BY <1>1, <1>2 DEF vars, writer
<1>3. ASSUME NEW t \in Threads \ {Reorderer}, Thread(t) PROVE AnchorsFit'
  <2>1. CASE UNCHANGED writer
    BY <1>1, <2>1 DEF writer
  <2>. QED BY <1>3, <2>1, Zenon DEF Thread, Move, Terminate
<1>4. CASE Read
  <2>1. Stages /\ Cache
    BY DEF Inv
  <2>2. ASSUME NEW q \in Queues, Accept(q) PROVE AnchorsFit'
    <3>1. PICK c \in FineChunks : CountAnchor(c)
      BY <2>1, <2>2, AcceptedIsFine
    <3>. QED BY <3>1, CountFits
  <2>3. CASE Finds \/ \E i \in DOMAIN Inputs[Reorderer] : Takes(Inputs[Reorderer][i])
    BY <1>1, <2>3 DEF Finds, Takes
  <2>. QED BY <1>4, <2>1, <2>2, <2>3, ReadCases
<1>5. CASE WriteAndAdvance
  BY <1>1, <1>5 DEF WriteAndAdvance
<1>6. CASE FlushCache
  BY <1>1, <1>6 DEF FlushCache
<1>7. CASE Barrier
  BY <1>1, <1>7 DEF Barrier, writer
<1>. QED BY <1>2, <1>3, <1>4, <1>5, <1>6, <1>7 DEF Next

\* In a file of at most twice as many coarse chunks as the array has places at first (1024 in the
\* code) every number has its place in chunks_per_anchor.
THEOREM AnchorsAlwaysInside ==
    ASSUME Len(Cuts) <= 2 * InitAnchors
    PROVE  Spec => []AnchorsInside
<1>1. ASSUME Init PROVE AnchorsFit
  BY <1>1, SizesAssumption DEF Init, AnchorsFit
<1>2. Inv /\ AnchorsFit /\ [Next]_vars => AnchorsFit'
  BY NextAnchors
<1>3. AnchorsFit => AnchorsInside
  BY DEF AnchorsFit, AnchorsInside
<1>. QED BY <1>1, <1>2, <1>3, Invariance, PTL DEF Spec

\* Reorder goes past a coarse chunk only when it knows the number of its fine chunks.
PassedKnown == /\ maxAnchors \in Nat /\ maxAnchors >= InitAnchors
               /\ \A l1 \in Nat : l1 < next.l1 => l1 \in DOMAIN perAnchor

LEMMA CountInside ==
    ASSUME Inv, PassedKnown, NEW c \in FineChunks, CountAnchor(c), UNCHANGED next
    PROVE  PassedKnown' /\ InsideOrFarAhead
<1>1. /\ maxAnchors' = IF c.l1 >= maxAnchors THEN 2 * maxAnchors ELSE maxAnchors
      /\ \A l1 \in DOMAIN perAnchor' : l1 \in DOMAIN perAnchor \/ l1 = c.l1
      /\ \A l1 \in DOMAIN perAnchor : l1 \in DOMAIN perAnchor'
  BY DEF CountAnchor
<1>2. /\ c.l1 \in Nat /\ InitAnchors \in Nat \ {0} /\ next.l1 \in Nat
      /\ maxAnchors \in Nat /\ maxAnchors >= InitAnchors
  BY FineFacts, SizesAssumption DEF PassedKnown, Inv, Written
<1>3. PICK a, m, n : a = c.l1 /\ m = maxAnchors' /\ n = next.l1
  OBVIOUS
<1>4. a \in Nat /\ n \in Nat /\ m \in Nat /\ m >= maxAnchors /\ (a >= maxAnchors => m = 2 * maxAnchors)
  BY <1>1, <1>2, <1>3
<1>5. PassedKnown'
  <2>1. m >= InitAnchors
    BY <1>2, <1>4
  <2>. QED BY <1>1, <1>3, <1>4, <2>1 DEF PassedKnown
<1>6. ASSUME AnchorsInside, NEW l1 \in DOMAIN perAnchor'
      PROVE  l1 < maxAnchors' \/ (l1 >= 2 * InitAnchors /\ l1 >= 2 * next.l1)
  <2>1. n <= maxAnchors
    <3>1. CASE n = 0
      BY <1>2, <3>1
    <3>2. CASE n > 0
      <4>1. n - 1 \in DOMAIN perAnchor
        BY <1>3, <1>4, <3>2 DEF PassedKnown
      <4>2. n - 1 < maxAnchors
        BY <1>6, <4>1 DEF AnchorsInside
      <4>. QED BY <1>2, <1>4, <4>2
    <3>. QED BY <1>4, <3>1, <3>2
  <2>2. CASE l1 = c.l1
    <3>1. CASE a >= maxAnchors /\ a >= m
      <4>1. a >= 2 * InitAnchors /\ a >= 2 * n
        BY <1>2, <1>4, <2>1, <3>1
      <4>. QED BY <1>3, <2>2, <4>1
    <3>2. CASE a < m
      BY <1>3, <2>2, <3>2
    <3>. QED BY <1>2, <1>4, <3>1, <3>2
  <2>3. CASE l1 \in DOMAIN perAnchor
    <3>1. l1 \in Nat /\ l1 < maxAnchors
      BY <1>6, <2>3 DEF AnchorsInside, Inv, Cache, AnchorsOK
    <3>2. l1 < m
      BY <1>2, <1>4, <3>1
    <3>. QED BY <1>3, <3>2
  <2>. QED BY <1>1, <2>2, <2>3
<1>. QED BY <1>5, <1>6 DEF InsideOrFarAhead

LEMMA NothingCounted ==
    ASSUME Inv, PassedKnown, UNCHANGED <<perAnchor, maxAnchors>>,
           next' = next \/ next' = sequence_inc
    PROVE  PassedKnown' /\ InsideOrFarAhead
<1>1. \A l1 \in Nat : l1 < next'.l1 => l1 < next.l1 \/ l1 \in DOMAIN perAnchor
  <2>0. next \in [l1 : Nat, l2 : Nat]
    BY DEF Inv, Written
  <2>1. CASE next' = next
    BY <2>1
  <2>2. CASE next' = [next EXCEPT !.l2 = @ + 1]
    <3>1. next'.l1 = next.l1
      BY <2>0, <2>2
    <3>. QED BY <3>1
  <2>3. CASE next.l1 \in DOMAIN perAnchor /\ next' = [l1 |-> next.l1 + 1, l2 |-> 0]
    <3>1. next'.l1 = next.l1 + 1 /\ next.l1 \in Nat
      BY <2>0, <2>3
    <3>2. \A l1 \in Nat : l1 < next.l1 + 1 => l1 < next.l1 \/ l1 = next.l1
      BY <3>1
    <3>. QED BY <2>3, <3>1, <3>2
  <2>. QED BY <2>1, <2>2, <2>3 DEF sequence_inc
<1>2. PassedKnown'
  BY <1>1 DEF PassedKnown
<1>. QED BY <1>2 DEF InsideOrFarAhead, AnchorsInside

LEMMA NextInside ==
    ASSUME Inv, PassedKnown, [Next]_vars
    PROVE  PassedKnown' /\ InsideOrFarAhead
<1>1. CASE UNCHANGED <<perAnchor, maxAnchors, next>>
  BY <1>1, NothingCounted
<1>2. CASE UNCHANGED vars
  BY <1>1, <1>2 DEF vars, writer
<1>3. ASSUME NEW t \in Threads \ {Reorderer}, Thread(t) PROVE PassedKnown' /\ InsideOrFarAhead
  <2>1. CASE UNCHANGED writer
    BY <1>1, <2>1 DEF writer
  <2>. QED BY <1>3, <2>1, Zenon DEF Thread, Move, Terminate
<1>4. CASE Read
  <2>1. Stages /\ Cache
    BY DEF Inv
  <2>2. ASSUME NEW q \in Queues, Accept(q) PROVE PassedKnown' /\ InsideOrFarAhead
    <3>1. PICK c \in FineChunks : CountAnchor(c)
      BY <2>1, <2>2, AcceptedIsFine
    <3>2. UNCHANGED next
      BY <2>2 DEF Accept
    <3>. QED BY <3>1, <3>2, CountInside
  <2>3. CASE Finds \/ \E i \in DOMAIN Inputs[Reorderer] : Takes(Inputs[Reorderer][i])
    <3>1. UNCHANGED next
      BY <1>4, <2>1, ReadCases
    <3>. QED BY <1>1, <2>3, <3>1 DEF Finds, Takes
  <2>. QED BY <1>4, <2>1, <2>2, <2>3, ReadCases
<1>5. CASE WriteAndAdvance
  BY <1>5, NothingCounted DEF WriteAndAdvance
<1>6. CASE FlushCache
  BY <1>1, <1>6 DEF FlushCache
<1>7. CASE Barrier
  BY <1>1, <1>7 DEF Barrier, writer
<1>. QED BY <1>2, <1>3, <1>4, <1>5, <1>6, <1>7 DEF Next

\* For any file, any wiring and any order in which the chunks arrive, no stage adds a chunk to a
\* local buffer that is full, and the first number Reorder finds no place for in chunks_per_anchor,
\* if it ever does, is at least twice the one it waits for and twice the first length.
THEOREM ArraysAlwaysSuffice == Spec => ArraysSuffice
<1>1. ASSUME Init PROVE PassedKnown
  BY <1>1, SizesAssumption DEF Init, PassedKnown
<1>2. Inv /\ PassedKnown /\ [Next]_vars => PassedKnown' /\ InsideOrFarAhead
  BY NextInside
<1>3. Spec => [](Inv /\ PassedKnown)
  BY <1>1, <1>2, Invariance, PTL DEF Spec
<1>4. Spec => [][InsideOrFarAhead]_vars
  BY <1>2, <1>3, PTL DEF Spec
<1>5. Room => BuffersSuffice
  BY DEF Room, SendRoom, RecvRoom, BuffersSuffice
<1>. QED BY <1>4, <1>5, BuffersAlwaysSuffice, PTL DEF ArraysSuffice
---------------------------------------------------------------------------------
(* What sequences hold *)

Has(s, A) == \E i \in 1..Len(s) : s[i] \in A

LEMMA ConcatAt ==
    ASSUME NEW S, NEW r \in Seq(S), NEW s \in Seq(S)
    PROVE  /\ r \o s \in Seq(S) /\ Len(r) \in Nat /\ Len(s) \in Nat /\ Len(r \o s) = Len(r) + Len(s)
           /\ \A i \in 1..Len(r) : i \in 1..Len(r \o s) /\ (r \o s)[i] = r[i]
           /\ \A i \in 1..Len(s) : Len(r) + i \in 1..Len(r \o s) /\ (r \o s)[Len(r) + i] = s[i]
           /\ \A i \in 1..Len(r \o s) : i \in 1..Len(r) \/ \E j \in 1..Len(s) : i = Len(r) + j
<1>1. r \o s \in Seq(S) /\ Len(r \o s) = Len(r) + Len(s) /\ Len(r) \in Nat /\ Len(s) \in Nat
  BY ConcatProperties, LenProperties
<1>2. \A i \in 1..Len(r) + Len(s) : (r \o s)[i] = IF i <= Len(r) THEN r[i] ELSE s[i - Len(r)]
  BY ConcatProperties
<1>3. ASSUME NEW i \in 1..Len(s) PROVE Len(r) + i \in 1..Len(r \o s) /\ (r \o s)[Len(r) + i] = s[i]
  <2>1. Len(r) + i \in 1..Len(r) + Len(s) /\ ~(Len(r) + i <= Len(r)) /\ Len(r) + i - Len(r) = i
    BY <1>1
  <2>. QED BY <1>1, <1>2, <2>1
<1>4. ASSUME NEW i \in 1..Len(r) PROVE i \in 1..Len(r \o s) /\ (r \o s)[i] = r[i]
  <2>1. i \in 1..Len(r) + Len(s) /\ i <= Len(r)
    BY <1>1
  <2>. QED BY <1>1, <1>2, <2>1
<1>5. ASSUME NEW i \in 1..Len(r \o s) PROVE i \in 1..Len(r) \/ \E j \in 1..Len(s) : i = Len(r) + j
  <2>1. \A m, n \in Nat : \A k \in 1..m + n : k \in 1..m \/ (k - m \in 1..n /\ k = m + (k - m))
    OBVIOUS
  <2>2. i \in 1..Len(r) \/ (i - Len(r) \in 1..Len(s) /\ i = Len(r) + (i - Len(r)))
    BY <1>1, <2>1
  <2>. QED BY <2>2
<1>. QED BY <1>1, <1>3, <1>4, <1>5

LEMMA AppendAt ==
    ASSUME NEW S, NEW s \in Seq(S), NEW x \in S
    PROVE  /\ Append(s, x) \in Seq(S) /\ Len(s) \in Nat /\ Len(Append(s, x)) = Len(s) + 1
           /\ \A i \in 1..Len(s) : i \in 1..Len(Append(s, x)) /\ Append(s, x)[i] = s[i]
           /\ Len(s) + 1 \in 1..Len(Append(s, x)) /\ Append(s, x)[Len(s) + 1] = x
           /\ \A i \in 1..Len(Append(s, x)) : i \in 1..Len(s) \/ i = Len(s) + 1
<1>1. Append(s, x) \in Seq(S) /\ Len(s) \in Nat /\ Len(Append(s, x)) = Len(s) + 1
  BY AppendProperties, LenProperties
<1>2. (\A i \in 1..Len(s) : Append(s, x)[i] = s[i]) /\ Append(s, x)[Len(s) + 1] = x
  BY AppendProperties
<1>3. \A n \in Nat : /\ \A i \in 1..n : i \in 1..n + 1
                     /\ n + 1 \in 1..n + 1 /\ \A i \in 1..n + 1 : i \in 1..n \/ i = n + 1
  OBVIOUS
<1>. QED BY <1>1, <1>2, <1>3

LEMMA TailAt ==
    ASSUME NEW S, NEW s \in Seq(S), s # <<>>
    PROVE  /\ Tail(s) \in Seq(S) /\ Head(s) \in S /\ Len(s) \in Nat \ {0} /\ Len(Tail(s)) = Len(s) - 1
           /\ Head(s) = s[1] /\ 1 \in 1..Len(s)
           /\ \A i \in 1..Len(Tail(s)) : i + 1 \in 1..Len(s) /\ Tail(s)[i] = s[i + 1]
           /\ \A i \in 1..Len(s) : i = 1 \/ \E j \in 1..Len(Tail(s)) : i = j + 1
<1>1. /\ Tail(s) \in Seq(S) /\ Head(s) \in S /\ Len(s) \in Nat \ {0} /\ Len(Tail(s)) = Len(s) - 1
      /\ Head(s) = s[1] /\ \A i \in 1..Len(Tail(s)) : Tail(s)[i] = s[i + 1]
  BY HeadTailProperties, EmptySeq, LenProperties
<1>2. \A n \in Nat \ {0} : /\ 1 \in 1..n /\ \A i \in 1..n - 1 : i + 1 \in 1..n
                           /\ \A i \in 1..n : i = 1 \/ (i - 1 \in 1..n - 1 /\ i = (i - 1) + 1)
  OBVIOUS
<1>3. ASSUME NEW i \in 1..Len(s) PROVE i = 1 \/ \E j \in 1..Len(Tail(s)) : i = j + 1
  <2>1. i = 1 \/ (i - 1 \in 1..Len(Tail(s)) /\ i = (i - 1) + 1)
    BY <1>1, <1>2
  <2>. QED BY <2>1
<1>. QED BY <1>1, <1>2, <1>3

LEMMA PiecesAt ==
    ASSUME NEW S, NEW s \in Seq(S), NEW n \in Nat, n <= Len(s)
    PROVE  /\ First(n, s) \in Seq(S) /\ Rest(n, s) \in Seq(S) /\ s = First(n, s) \o Rest(n, s)
           /\ Len(First(n, s)) = n /\ Len(Rest(n, s)) = Len(s) - n
<1>1. /\ First(n, s) \in Seq(S) /\ Len(First(n, s)) = n
      /\ \A i \in 1..n : First(n, s)[i] = s[i]
      /\ Rest(n, s) \in Seq(S) /\ Len(Rest(n, s)) = Len(s) - n
      /\ \A i \in 1..Len(s) - n : Rest(n, s)[i] = s[n + i]
  BY Pieces
<1>2. PICK f, r \in Seq(S) : f = First(n, s) /\ r = Rest(n, s)
  BY <1>1
<1>3. /\ f \o r \in Seq(S) /\ Len(f \o r) = Len(f) + Len(r)
      /\ \A i \in 1..Len(f) : (f \o r)[i] = f[i]
      /\ \A i \in 1..Len(r) : (f \o r)[Len(f) + i] = r[i]
      /\ \A i \in 1..Len(f \o r) : i \in 1..Len(f) \/ \E j \in 1..Len(r) : i = Len(f) + j
  BY ConcatAt
<1>4. PICK w \in Seq(S) : w = f \o r
  BY <1>3
<1>5. Len(s) \in Nat /\ Len(w) = Len(s)
  <2>1. Len(s) \in Nat /\ Len(f) = n /\ Len(r) = Len(s) - n /\ Len(w) = Len(f) + Len(r)
    BY <1>1, <1>2, <1>3, <1>4, LenProperties
  <2>. QED BY <2>1
<1>6. ASSUME NEW i \in 1..Len(s) PROVE w[i] = s[i]
  <2>1. CASE i \in 1..Len(f)
    BY <1>1, <1>2, <1>3, <1>4, <2>1
  <2>2. ASSUME NEW j \in 1..Len(r), i = Len(f) + j PROVE w[i] = s[i]
    <3>1. w[i] = r[j]
      BY <1>3, <1>4, <2>2
    <3>2. r[j] = s[n + j] /\ Len(f) = n
      BY <1>1, <1>2
    <3>. QED BY <2>2, <3>1, <3>2
  <2>. QED BY <1>3, <1>4, <1>5, <2>1, <2>2
<1>7. w = s
  BY <1>5, <1>6, SeqEqual
<1>. QED BY <1>1, <1>2, <1>4, <1>7

LEMMA HasConcat ==
    ASSUME NEW S, NEW r \in Seq(S), NEW s \in Seq(S), NEW A
    PROVE  Has(r \o s, A) <=> Has(r, A) \/ Has(s, A)
<1>1. /\ \A i \in 1..Len(r) : i \in 1..Len(r \o s) /\ (r \o s)[i] = r[i]
      /\ \A i \in 1..Len(s) : Len(r) + i \in 1..Len(r \o s) /\ (r \o s)[Len(r) + i] = s[i]
      /\ \A i \in 1..Len(r \o s) : i \in 1..Len(r) \/ \E j \in 1..Len(s) : i = Len(r) + j
  BY ConcatAt
<1>2. Has(r, A) => Has(r \o s, A)
  BY <1>1, Zenon DEF Has
<1>3. Has(s, A) => Has(r \o s, A)
  BY <1>1, Zenon DEF Has
<1>4. ASSUME NEW i \in 1..Len(r \o s), (r \o s)[i] \in A PROVE Has(r, A) \/ Has(s, A)
  BY <1>1, <1>4, Zenon DEF Has
<1>. QED BY <1>2, <1>3, <1>4, Zenon DEF Has

LEMMA HasAppend ==
    ASSUME NEW S, NEW s \in Seq(S), NEW x \in S, NEW A
    PROVE  Has(Append(s, x), A) <=> Has(s, A) \/ x \in A
<1>1. /\ \A i \in 1..Len(s) : i \in 1..Len(Append(s, x)) /\ Append(s, x)[i] = s[i]
      /\ Len(s) + 1 \in 1..Len(Append(s, x)) /\ Append(s, x)[Len(s) + 1] = x
      /\ \A i \in 1..Len(Append(s, x)) : i \in 1..Len(s) \/ i = Len(s) + 1
  BY AppendAt
<1>. QED BY <1>1, Zenon DEF Has

LEMMA HasTail ==
    ASSUME NEW S, NEW s \in Seq(S), s # <<>>, NEW A
    PROVE  Has(s, A) <=> Head(s) \in A \/ Has(Tail(s), A)
<1>1. /\ Head(s) = s[1] /\ 1 \in 1..Len(s)
      /\ \A i \in 1..Len(Tail(s)) : i + 1 \in 1..Len(s) /\ Tail(s)[i] = s[i + 1]
      /\ \A i \in 1..Len(s) : i = 1 \/ \E j \in 1..Len(Tail(s)) : i = j + 1
  BY TailAt
<1>2. ASSUME NEW i \in 1..Len(s), s[i] \in A PROVE Head(s) \in A \/ Has(Tail(s), A)
  BY <1>1, <1>2, Zenon DEF Has
<1>3. Head(s) \in A \/ Has(Tail(s), A) => Has(s, A)
  BY <1>1, Zenon DEF Has
<1>. QED BY <1>2, <1>3, Zenon DEF Has

LEMMA HasEmpty == \A A : ~Has(<<>>, A)
<1>1. \A i \in 1..Len(<<>>) : FALSE
  OBVIOUS
<1>. QED BY <1>1, Zenon DEF Has

LEMMA HasSplit ==
    ASSUME NEW S, NEW s \in Seq(S), NEW n \in Nat, n <= Len(s), NEW A
    PROVE  Has(s, A) <=> Has(First(n, s), A) \/ Has(Rest(n, s), A)
<1>1. PICK f, r \in Seq(S) : f = First(n, s) /\ r = Rest(n, s) /\ s = f \o r
  BY PiecesAt
<1>2. Has(f \o r, A) <=> Has(f, A) \/ Has(r, A)
  BY HasConcat
<1>. QED BY <1>1, <1>2
---------------------------------------------------------------------------------
(* A heap loses nothing when the hole rises or sinks. *)

\* g[i] are the places the hole comes to from i, if it goes from each place of R to step[it].
Chain(g, n, R, step) == g = [i \in 1..n |-> {i} \cup IF i \in R THEN g[step[i]] ELSE {}]

LEMMA ChainExists ==
    ASSUME NEW n \in Nat, NEW R \in SUBSET (1..n), NEW step \in [R -> 1..n]
    PROVE  \E g : Chain(g, n, R, step)
<1> DEFINE Closed(C) == \A a \in C : a \in R => step[a] \in C
           g == [i \in 1..n |-> {k \in 1..n : \A C \in SUBSET (1..n) : i \in C /\ Closed(C) => k \in C}]
<1>1. \A i \in 1..n : i \in g[i] /\ g[i] \in SUBSET (1..n)
  OBVIOUS
<1>2. \A i \in 1..n, C \in SUBSET (1..n) : i \in C /\ Closed(C) => g[i] \subseteq C
  OBVIOUS
<1>3. \A i \in 1..n : Closed(g[i])
  OBVIOUS
<1>4. ASSUME NEW i \in 1..n PROVE g[i] = {i} \cup IF i \in R THEN g[step[i]] ELSE {}
  <2> HIDE DEF g
  <2>1. CASE i \in R
    <3>1. step[i] \in 1..n /\ step[i] \in g[i]
      BY <1>1, <1>3, <2>1
    <3>2. g[step[i]] \subseteq g[i]
      BY <1>1, <1>2, <1>3, <3>1
    <3>3. {i} \cup g[step[i]] \in SUBSET (1..n) /\ Closed({i} \cup g[step[i]])
      BY <1>1, <1>3, <3>1
    <3>4. g[i] \subseteq {i} \cup g[step[i]]
      BY <1>2, <3>3
    <3>. QED BY <1>1, <2>1, <3>2, <3>4
  <2>2. CASE i \notin R
    <3>1. {i} \in SUBSET (1..n) /\ Closed({i})
      BY <2>2
    <3>2. g[i] \subseteq {i}
      BY <1>2, <3>1
    <3>. QED BY <1>1, <2>2, <3>2
  <2>. QED BY <2>1, <2>2
<1>5. g = [i \in 1..n |-> g[i]]
  OBVIOUS
<1> HIDE DEF g
<1>6. Chain(g, n, R, step)
  BY <1>4, <1>5 DEF Chain
<1>. QED BY <1>6

\* From every place of R but i one comes to another one, and to one that is not in R.
Reaches(p, n, R, step, i) ==
    /\ i \in p /\ p \subseteq 1..n
    /\ \A k \in p : k = i \/ \E a \in p : a \in R /\ step[a] = k
    /\ \E a \in p : a \notin R

Sinking(n, R, step) ==
    /\ n \in Nat /\ R \in SUBSET (1..n) /\ step \in [R -> 1..n]
    /\ \E rank \in [1..n -> Nat] : \A i \in R : rank[step[i]] < rank[i]

LEMMA ChainFacts ==
    ASSUME NEW n, NEW R, NEW step, Sinking(n, R, step), NEW g, Chain(g, n, R, step), NEW i \in 1..n
    PROVE  Reaches(g[i], n, R, step, i)
<1>0. PICK rank \in [1..n -> Nat] : \A a \in R : rank[step[a]] < rank[a]
  BY DEF Sinking
<1>a. n \in Nat /\ R \in SUBSET (1..n) /\ step \in [R -> 1..n]
  BY DEF Sinking
<1> DEFINE Good(m) == /\ g[m] \subseteq 1..n
                      /\ \A k \in g[m] : k = m \/ \E a \in g[m] : a \in R /\ step[a] = k
                      /\ \E a \in g[m] : a \notin R
<1>1. \A m \in 1..n : g[m] = {m} \cup IF m \in R THEN g[step[m]] ELSE {}
  BY DEF Chain
<1>2. SUFFICES ASSUME \E m \in 1..n : ~Good(m) PROVE FALSE
  BY <1>1 DEF Reaches
<1> DEFINE bad == {rank[m] : m \in {m \in 1..n : ~Good(m)}}
<1>3. PICK r \in bad : \A x \in bad : r <= x
  <2>1. bad \in SUBSET Nat /\ bad # {}
    BY <1>0, <1>2
  <2> HIDE DEF bad
  <2>. QED BY <2>1, Minimum
<1>4. PICK m \in 1..n : ~Good(m) /\ r = rank[m]
  OBVIOUS
<1>5. CASE m \in R
  <2>1. step[m] \in 1..n /\ rank[step[m]] < rank[m] /\ rank[m] \in Nat /\ rank[step[m]] \in Nat
    BY <1>0, <1>a, <1>5
  <2>2. Good(step[m])
    <3>1. SUFFICES ASSUME ~Good(step[m]) PROVE FALSE
      OBVIOUS
    <3>2. rank[step[m]] \in bad
      BY <2>1, <3>1
    <3>3. rank[m] <= rank[step[m]]
      BY <1>3, <1>4, <3>2, Zenon
    <3>. QED BY <2>1, <3>3
  <2>3. g[m] = {m} \cup g[step[m]] /\ step[m] \in g[step[m]]
    BY <1>1, <1>5, <2>1
  <2>4. Good(m)
    BY <1>5, <2>2, <2>3
  <2>. QED BY <1>4, <2>4
<1>6. CASE m \notin R
  <2>1. g[m] = {m}
    BY <1>1, <1>6
  <2>2. Good(m)
    BY <1>6, <2>1
  <2>. QED BY <1>4, <2>2
<1>. QED BY <1>5, <1>6

LEMMA InsertHas ==
    ASSUME NEW S, NEW h \in Seq(S), NEW x \in S, NEW A, Has(h, A) \/ x \in A
    PROVE  Has(HeapInsert(h, x), A)
<1> DEFINE n == Len(h) + 1
           Rises(i) == i > 1 /\ h[i \div 2].l2 > x.l2
           Path[i \in 1..n] == IF Rises(i) THEN {i \div 2} \cup Path[i \div 2] ELSE {}
           new == [i \in 1..n |-> IF i # n /\ i \notin Path[n] THEN h[i]
                                  ELSE IF Rises(i) THEN h[i \div 2] ELSE x]
<1>1. HeapInsert(h, x) = new
  BY Zenon DEF HeapInsert
<1>2. Len(h) \in Nat /\ n \in Nat \ {0}
  BY LenProperties
<1>3. PICK m \in Nat \ {0} : m = n
  BY <1>2
<1> DEFINE R == {i \in 1..m : Rises(i)}
           step == [i \in R |-> i \div 2]
           rank == [i \in 1..m |-> i]
<1>4. R \in SUBSET (1..m) /\ step \in [R -> 1..m] /\ rank \in [1..m -> Nat] /\ \A i \in R : rank[step[i]] < rank[i]
  <2>1. \A i \in 1..m : i > 1 => i \div 2 \in 1..m /\ i \div 2 < i
    OBVIOUS
  <2>2. \A i \in R : i \in 1..m /\ i > 1 /\ i \div 2 \in 1..m /\ i \div 2 < i
    BY <2>1
  <2>. QED BY <2>2
<1>5. \A i \in R : step[i] = i \div 2
  OBVIOUS
<1>6. \A i \in 1..m : i \in R <=> Rises(i)
  OBVIOUS
<1> HIDE DEF R, step, rank, Rises
<1>7. \E p : p = [i \in 1..n |-> IF Rises(i) THEN {i \div 2} \cup p[i \div 2] ELSE {}]
  <2>1. PICK g : Chain(g, m, R, step)
    BY <1>4, ChainExists
  <2>2. g = [i \in 1..m |-> {i} \cup IF i \in R THEN g[step[i]] ELSE {}]
    BY <2>1 DEF Chain
  <2> DEFINE p == [i \in 1..m |-> IF i \in R THEN g[i \div 2] ELSE {}]
  <2>3. ASSUME NEW i \in 1..m PROVE p[i] = IF Rises(i) THEN {i \div 2} \cup p[i \div 2] ELSE {}
    <3>1. CASE i \in R
      <4>1. step[i] = i \div 2 /\ i \div 2 \in 1..m
        BY <1>4, <1>5, <3>1
      <4>2. g[i \div 2] = {i \div 2} \cup (IF i \div 2 \in R THEN g[step[i \div 2]] ELSE {})
        BY <2>2, <4>1
      <4>3. p[i \div 2] = IF i \div 2 \in R THEN g[step[i \div 2]] ELSE {}
        BY <1>5, <4>1
      <4>. QED BY <1>6, <3>1, <4>2, <4>3
    <3>2. CASE i \notin R
      BY <1>6, <3>2
    <3>. QED BY <3>1, <3>2
  <2>4. p = [i \in 1..m |-> p[i]]
    OBVIOUS
  <2> HIDE DEF p
  <2>5. p = [i \in 1..m |-> IF Rises(i) THEN {i \div 2} \cup p[i \div 2] ELSE {}]
    BY <2>3, <2>4
  <2>. QED BY <1>3, <2>5
<1>8. Path = [i \in 1..n |-> IF Rises(i) THEN {i \div 2} \cup Path[i \div 2] ELSE {}]
  <2>1. Path = CHOOSE p : p = [i \in 1..n |-> IF Rises(i) THEN {i \div 2} \cup p[i \div 2] ELSE {}]
    BY Zenon DEF Rises
  <2> HIDE DEF Path
  <2>. QED BY <1>7, <2>1
<1> HIDE DEF Path
<1> DEFINE g == [i \in 1..m |-> {i} \cup Path[i]]
<1>9. Chain(g, m, R, step)
  <2>1. ASSUME NEW i \in 1..m PROVE g[i] = {i} \cup IF i \in R THEN g[step[i]] ELSE {}
    <3>1. Path[i] = IF Rises(i) THEN {i \div 2} \cup Path[i \div 2] ELSE {}
      BY <1>3, <1>8
    <3>2. CASE i \in R
      <4>1. step[i] = i \div 2 /\ step[i] \in 1..m /\ Rises(i)
        BY <1>4, <1>5, <1>6, <3>2
      <4>. QED BY <3>1, <3>2, <4>1
    <3>3. CASE i \notin R
      BY <1>6, <3>1, <3>3
    <3>. QED BY <3>2, <3>3
  <2>2. g = [i \in 1..m |-> g[i]]
    OBVIOUS
  <2> HIDE DEF g
  <2>. QED BY <2>1, <2>2 DEF Chain
<1>10. g[m] = {m} \cup Path[m] /\ m \in 1..m
  BY <1>3
<1> HIDE DEF g
<1>11. /\ g[m] \subseteq 1..m
       /\ \A k \in g[m] : k = m \/ \E a \in g[m] : a \in R /\ step[a] = k
       /\ \E a \in g[m] : a \notin R
  <2>1. Sinking(m, R, step)
    BY <1>4, Zenon DEF Sinking
  <2>2. Reaches(g[m], m, R, step, m)
    BY <1>9, <1>10, <2>1, ChainFacts, Zenon
  <2>. QED BY <2>2, Zenon DEF Reaches
<1>12. \A i \in 1..m : new[i] = IF i \notin g[m] THEN h[i] ELSE IF i \in R THEN h[i \div 2] ELSE x
  BY <1>3, <1>6, <1>10
<1>13. DOMAIN new = 1..m /\ Len(new) = m
  <2>1. new \in [1..m -> {new[i] : i \in 1..m}]
    BY <1>3
  <2> HIDE DEF new
  <2>2. new \in Seq({new[i] : i \in 1..m})
    BY <2>1, SeqDef
  <2>. QED BY <2>1, <2>2, LenProperties
<1> HIDE DEF new
<1>14. CASE x \in A
  <2>1. PICK a \in 1..m : new[a] = x
    BY <1>11, <1>12
  <2>. QED BY <1>1, <1>13, <1>14, <2>1 DEF Has
<1>15. CASE Has(h, A)
  <2>1. PICK k \in 1..Len(h) : h[k] \in A
    BY <1>15 DEF Has
  <2>2. k \in 1..m /\ k # m
    BY <1>2, <1>3
  <2>3. \E a \in 1..m : new[a] = h[k]
    <3>1. CASE k \notin g[m]
      BY <1>12, <2>2, <3>1
    <3>2. CASE k \in g[m]
      <4>1. PICK a \in g[m] : a \in R /\ step[a] = k
        BY <1>11, <2>2, <3>2
      <4>2. a \in 1..m /\ a \div 2 = k
        BY <1>5, <1>11, <4>1
      <4>3. new[a] = h[k]
        BY <1>12, <4>1, <4>2
      <4>. QED BY <4>2, <4>3
    <3>. QED BY <3>1, <3>2
  <2>. QED BY <1>1, <1>13, <2>1, <2>3 DEF Has
<1>. QED BY <1>14, <1>15

LEMMA DeleteHas ==
    ASSUME NEW S, NEW h \in Seq(S), h # <<>>, NEW A, Has(h, A), h[1] \notin A
    PROVE  Has(HeapDeleteMin(h), A)
<1> DEFINE n == Len(h) - 1
           Child(i) == IF 2 * i # n /\ h[2 * i + 1].l2 < h[2 * i].l2 THEN 2 * i + 1 ELSE 2 * i
           Sinks(i) == 2 * i <= n /\ h[n + 1].l2 > h[Child(i)].l2
           Path[i \in 1..n + 1] == {i} \cup IF Sinks(i) THEN Path[Child(i)] ELSE {}
           new == [i \in 1..n |-> IF i \notin Path[1] THEN h[i]
                                  ELSE IF Sinks(i) THEN h[Child(i)] ELSE h[n + 1]]
<1>1. HeapDeleteMin(h) = new
  BY Zenon DEF HeapDeleteMin
<1>2. Len(h) \in Nat \ {0} /\ n \in Nat
  BY LenProperties, EmptySeq
<1>3. PICK m \in Nat \ {0} : m = Len(h) /\ m = n + 1 /\ n = m - 1
  BY <1>2
<1> DEFINE R == {i \in 1..m : Sinks(i)}
           step == [i \in R |-> Child(i)]
           rank == [i \in 1..m |-> m - i]
<1>4. \A i \in R : i \in 1..n /\ Child(i) \in 1..n /\ Child(i) \in 1..m /\ i < Child(i)
  <2>1. \A i \in R : 2 * i <= n /\ i \in 1..m /\ Child(i) \in {2 * i, 2 * i + 1} /\ (Child(i) = 2 * i + 1 => 2 * i # n)
    OBVIOUS
  <2>2. \A i \in 1..m : 2 * i <= n => /\ i \in 1..n /\ 2 * i \in 1..n /\ 2 * i \in 1..m /\ i < 2 * i
                                      /\ 2 * i # n => 2 * i + 1 \in 1..n /\ 2 * i + 1 \in 1..m /\ i < 2 * i + 1
    BY <1>2, <1>3
  <2> HIDE DEF Child, R
  <2>. QED BY <2>1, <2>2
<1>5. \A i \in R : step[i] = Child(i)
  OBVIOUS
<1>6. \A i \in 1..m : i \in R <=> Sinks(i)
  OBVIOUS
<1>7. Sinking(m, R, step)
  <2>1. R \in SUBSET (1..m) /\ step \in [R -> 1..m]
    <3>1. \A i \in R : Child(i) \in 1..m
      BY <1>4
    <3> HIDE DEF Child, R
    <3>2. step \in [R -> 1..m]
      BY <3>1
    <3>. QED BY <3>2 DEF R
  <2> HIDE DEF step, R, Child
  <2>2. rank \in [1..m -> Nat] /\ \A i \in R : rank[step[i]] < rank[i]
    <3>1. \A i \in 1..m : m - i \in Nat
      OBVIOUS
    <3>2. ASSUME NEW i \in R PROVE m - step[i] < m - i /\ step[i] \in 1..m /\ i \in 1..m
      BY <1>3, <1>4, <1>5, <2>1
    <3>. QED BY <3>1, <3>2
  <2> HIDE DEF rank
  <2>. QED BY <2>1, <2>2 DEF Sinking
<1> HIDE DEF R, step, Sinks, Child
<1>8. Path = [i \in 1..n + 1 |-> {i} \cup IF Sinks(i) THEN Path[Child(i)] ELSE {}]
  <2>1. \E p : p = [i \in 1..n + 1 |-> {i} \cup IF Sinks(i) THEN p[Child(i)] ELSE {}]
    <3>1. PICK g : Chain(g, m, R, step)
      BY <1>7, ChainExists DEF Sinking
    <3>2. g = [i \in 1..m |-> {i} \cup IF i \in R THEN g[step[i]] ELSE {}]
      BY <3>1 DEF Chain
    <3>3. g = [i \in 1..m |-> {i} \cup IF Sinks(i) THEN g[Child(i)] ELSE {}]
      BY <1>5, <1>6, <3>2
    <3>. QED BY <1>3, <3>3
  <2>2. Path = CHOOSE p : p = [i \in 1..n + 1 |-> {i} \cup IF Sinks(i) THEN p[Child(i)] ELSE {}]
    BY Zenon DEF Sinks, Child
  <2> HIDE DEF Path
  <2>. QED BY <2>1, <2>2
<1> HIDE DEF Path
<1>9. Chain(Path, m, R, step)
  <2>1. Path = [i \in 1..m |-> {i} \cup IF i \in R THEN Path[step[i]] ELSE {}]
    BY <1>3, <1>5, <1>6, <1>8
  <2>. QED BY <2>1, Zenon DEF Chain
<1>10. Reaches(Path[1], m, R, step, 1)
  <2>1. 1 \in 1..m
    OBVIOUS
  <2>. QED BY <1>7, <1>9, <2>1, ChainFacts, Zenon
<1>11. /\ Path[1] \subseteq 1..m
       /\ \A k \in Path[1] : k = 1 \/ \E a \in Path[1] : a \in R /\ step[a] = k
       /\ \E a \in Path[1] : a \notin R
  BY <1>10, Zenon DEF Reaches
<1>12. \A i \in 1..n : i \in 1..m /\ new[i] = IF i \notin Path[1] THEN h[i] ELSE IF i \in R THEN h[step[i]] ELSE h[m]
  BY <1>2, <1>3, <1>5, <1>6
<1>13. DOMAIN new = 1..n /\ Len(new) = n
  <2>1. new \in [1..n -> {new[i] : i \in 1..n}]
    OBVIOUS
  <2> HIDE DEF new
  <2>2. new \in Seq({new[i] : i \in 1..n})
    BY <1>2, <2>1, SeqDef
  <2>. QED BY <1>2, <2>1, <2>2, LenProperties
<1>14. PICK k \in 1..m : h[k] \in A
  BY <1>3 DEF Has
<1> HIDE DEF new
<1>15. \E a \in 1..n : new[a] = h[k]
  <2>1. k # 1
    BY <1>14
  <2>2. CASE k \in 1..n /\ k \notin Path[1]
    BY <1>12, <2>2
  <2>3. CASE k \in 1..n /\ k \in Path[1]
    <3>1. PICK a \in Path[1] : a \in R /\ step[a] = k
      BY <1>11, <2>1, <2>3
    <3>. QED BY <1>4, <1>12, <3>1
  <2>4. CASE k = m
    <3>1. PICK a \in Path[1] : a \notin R
      BY <1>11
    <3>2. a \in 1..n
      <4>1. CASE a = 1
        BY <1>3, <2>1, <2>4, <4>1
      <4>2. CASE a # 1
        <5>1. PICK b \in R : step[b] = a
          BY <1>11, <3>1, <4>2
        <5>. QED BY <1>4, <1>5, <5>1
      <4>. QED BY <4>1, <4>2
    <3>. QED BY <1>12, <2>4, <3>1, <3>2
  <2>. QED BY <1>3, <1>14, <2>2, <2>3, <2>4
<1>. QED BY <1>1, <1>13, <1>14, <1>15 DEF Has

\* Some node of the tree holds a chunk of A.
TreeHas(tr, A) == \E l1 \in DOMAIN tr : Has(tr[l1], A)

LEMMA InsertTreeHas ==
    ASSUME NEW tr, TreeOK(tr), NEW c \in FineChunks, NEW A, TreeHas(tr, A) \/ c \in A
    PROVE  TreeHas(TreeInsert(tr, c), A)
<1> DEFINE heap == IF c.l1 \in DOMAIN tr THEN tr[c.l1] ELSE <<>>
<1>1. c \in InNode(c.l1)
  BY FineFacts
<1>2. heap \in Seq(InNode(c.l1))
  BY EmptySeq DEF TreeOK
<1>3. PICK hp \in Seq(InNode(c.l1)) : hp = heap
  BY <1>2
<1>4. TreeInsert(tr, c) = [l1 \in DOMAIN tr \cup {c.l1} |-> IF l1 # c.l1 THEN tr[l1] ELSE HeapInsert(hp, c)]
  BY <1>3 DEF TreeInsert
<1>5. CASE Has(hp, A) \/ c \in A
  <2>1. Has(HeapInsert(hp, c), A)
    BY <1>1, <1>5, InsertHas
  <2>. QED BY <1>4, <2>1 DEF TreeHas
<1>6. CASE \E l1 \in DOMAIN tr : l1 # c.l1 /\ Has(tr[l1], A)
  BY <1>4, <1>6 DEF TreeHas
<1>7. TreeHas(tr, A) => Has(hp, A) \/ \E l1 \in DOMAIN tr : l1 # c.l1 /\ Has(tr[l1], A)
  BY <1>3 DEF TreeHas
<1>. QED BY <1>5, <1>6, <1>7

LEMMA DeleteTreeHas ==
    ASSUME NEW tr, TreeOK(tr), NEW l \in DOMAIN tr, NEW A, TreeHas(tr, A), tr[l][1] \notin A
    PROVE  TreeHas(TreeDelete(tr, l), A)
<1>1. PICK hp \in Seq(InNode(l)) : hp = tr[l] /\ hp # <<>>
  BY DEF TreeOK
<1>2. PICK rest : rest = HeapDeleteMin(hp)
  OBVIOUS
<1>3. TreeDelete(tr, l) = [k \in (IF rest = <<>> THEN DOMAIN tr \ {l} ELSE DOMAIN tr) |->
                             IF k = l THEN rest ELSE tr[k]]
  BY <1>1, <1>2, Zenon DEF TreeDelete
<1>4. CASE Has(hp, A)
  <2>1. Has(rest, A)
    BY <1>1, <1>2, <1>4, DeleteHas
  <2>2. rest # <<>>
    BY <2>1, HasEmpty
  <2>. QED BY <1>3, <2>1, <2>2 DEF TreeHas
<1>5. CASE \E k \in DOMAIN tr : k # l /\ Has(tr[k], A)
  BY <1>3, <1>5 DEF TreeHas
<1>. QED BY <1>1, <1>4, <1>5 DEF TreeHas
---------------------------------------------------------------------------------
(* What a thread is still to do: the operations on its queues *)

\* The queues a thread puts chunks into, those it keeps a buffer for, and those it takes them from
Fills(t) == IF t = Fragmenter THEN CoarseQueues
            ELSE IF t \in Dedupers THEN {Outputs[t][1], Extras[t][1]}
            ELSE IF t \in Workers THEN {Outputs[t][1]} ELSE {}
Loads(t) == IF t = Fragmenter /\ encoder = "default" THEN {Outputs[t][1]} ELSE Fills(t)
Asked(t) == IF t = Reorderer THEN QueuesOf(Inputs, {t})
            ELSE IF t \in Workers THEN {Inputs[t][1]} ELSE {}
Served(q) == \E t \in Threads : q \in Asked(t)

LEMMA Lines ==
    /\ \A t \in Threads : Loads(t) \subseteq Fills(t)
    /\ \A t \in Threads : \A q \in Fills(t) : q \in Queues /\ Feeds(t, q) /\ Served(q)
    /\ \A t \in Workers : Outputs[t][1] \in Loads(t)
    /\ \A t \in Dedupers : Extras[t][1] \in Loads(t)
    /\ \A q : ~Feeds(Reorderer, q)
    /\ Fragmenter \notin Workers /\ Reorderer \notin Workers /\ Workers \subseteq Threads
    /\ Threads = {Fragmenter, Reorderer} \cup Workers
    /\ IsFiniteSet(Threads)
<1>1. Fragmenter \notin Workers /\ Reorderer \notin Workers /\ Workers \subseteq Threads /\ IsFiniteSet(Threads)
  BY WiringAssumption DEF Workers, Threads
<1>2. Threads = {Fragmenter, Reorderer} \cup Workers
  BY DEF Threads, Workers
<1>3. \A q : ~Feeds(Reorderer, q)
  <2>1. Outputs[Reorderer] = <<>> /\ Extras[Reorderer] = <<>>
    BY WiringAssumption, <1>2, Wired
  <2>2. DOMAIN <<>> = {}
    OBVIOUS
  <2>. QED BY <2>1, <2>2 DEF Feeds
<1>4. 1 \in DOMAIN Outputs[Fragmenter] /\ Outputs[Fragmenter][1] \in CoarseQueues
  <2>1. DOMAIN Outputs[Fragmenter] = 1..Len(Outputs[Fragmenter]) /\ Len(Outputs[Fragmenter]) \in Nat
        /\ Len(Outputs[Fragmenter]) > 0
    BY Wired
  <2>2. \A n \in Nat : n > 0 => 1 \in 1..n
    OBVIOUS
  <2>. QED BY <2>1, <2>2 DEF CoarseQueues
<1>5. \A t \in Threads : Loads(t) \subseteq Fills(t)
  BY <1>4 DEF Loads, Fills
<1>6. \A t \in Workers : Outputs[t][1] \in Loads(t)
  BY <1>1 DEF Loads, Fills
<1>7. \A t \in Dedupers : Extras[t][1] \in Loads(t) /\ t \in Workers
  BY <1>1 DEF Loads, Fills, Workers
<1>8. ASSUME NEW q \in CoarseQueues PROVE q \in Queues /\ Feeds(Fragmenter, q) /\ Served(q)
  <2>1. \E t \in Refiners : q = Inputs[t][1]
    BY WiringAssumption
  <2>2. Served(q)
    BY <1>1, <2>1 DEF Served, Asked, Workers
  <2>3. q \in Queues
    BY CoarseFacts
  <2>4. Feeds(Fragmenter, q)
    BY DEF Feeds, CoarseQueues
  <2>. QED BY <2>2, <2>3, <2>4
<1>9. ASSUME NEW t \in Workers
      PROVE  Outputs[t][1] \in Queues /\ Feeds(t, Outputs[t][1]) /\ Served(Outputs[t][1])
  <2>1. t \in Threads /\ 1 \in DOMAIN Outputs[t]
    BY <1>1, Wired DEF Workers
  <2>2. Outputs[t][1] \in Queues /\ Feeds(t, Outputs[t][1])
    BY <2>1, Wired DEF Feeds
  <2>3. CASE t \in Refiners \cup Dedupers
    <3>1. \E u \in Dedupers \cup Compressors : Outputs[t][1] = Inputs[u][1]
      <4>1. /\ {Outputs[u][1] : u \in Refiners} \subseteq {Inputs[u][1] : u \in Dedupers}
            /\ {Outputs[u][1] : u \in Dedupers} \subseteq {Inputs[u][1] : u \in Compressors}
        BY WiringAssumption, Zenon
      <4>. QED BY <2>3, <4>1
    <3>. QED BY <1>1, <2>2, <3>1 DEF Served, Asked, Workers
  <2>4. CASE t \in Compressors
    <3>1. Outputs[t][1] \in QueuesOf(Inputs, {Reorderer})
      BY <2>4, WiringAssumption
    <3>. QED BY <1>2, <2>2, <3>1 DEF Served, Asked
  <2>. QED BY <2>3, <2>4 DEF Workers
<1>10. ASSUME NEW t \in Dedupers
       PROVE  Extras[t][1] \in Queues /\ Feeds(t, Extras[t][1]) /\ Served(Extras[t][1])
  <2>1. t \in Threads /\ 1 \in DOMAIN Extras[t]
    BY Wired
  <2>2. Extras[t][1] \in Queues /\ Feeds(t, Extras[t][1])
    BY <2>1, Wired DEF Feeds
  <2>3. Extras[t][1] \in QueuesOf(Inputs, {Reorderer})
    BY WiringAssumption
  <2>. QED BY <1>2, <2>2, <2>3 DEF Served, Asked
<1>11. \A t \in Threads : \A q \in Fills(t) : q \in Queues /\ Feeds(t, q) /\ Served(q)
  BY <1>7, <1>8, <1>9, <1>10 DEF Fills, Loads
<1>. QED BY <1>1, <1>2, <1>3, <1>5, <1>6, <1>7, <1>11

\* A thread leaves when there is nothing left for it to take; then it closes its queues.
Gone(t, label) == label \in {"leave", "done"} \/ (t = Fragmenter /\ label = "barrier")

OpsOf(t) == {o \in Operations : Feeds(t, o.to) /\ (o.op # "end" => o.to \in Fills(t))}
Enqueues(t) == {o \in OpsOf(t) : o.op = "enqueue"}
Last(o) == o.op \in {"end", "close"}
EndsAt(q) == {o \in Operations : Last(o) /\ o.to = q}
Drains(q) == {o \in Operations : o.op \in {"drain", "close"} /\ o.from = q}

\* Each queue is terminated once, after all that is done to it.
Closing(t, s) ==
    /\ s \in Seq(OpsOf(t))
    /\ \A i \in 1..Len(s) : Has(s, EndsAt(s[i].to))
    /\ \A i, j \in 1..Len(s) : i < j /\ Last(s[i]) => s[j].to # s[i].to

\* So does a thread that leaves; what is left in its buffers goes first.
Final(t, s) == /\ Closing(t, s)
               /\ \A q \in Queues : send[t][q] # <<>> => Has(s, Drains(q))

Duty(t, label, s) ==
    /\ Gone(t, label) => Closing(t, s)
    /\ ~Gone(t, label) => s \in Seq(Enqueues(t))
    /\ label = "done" \/ (t = Fragmenter /\ label = "barrier") => s = <<>>
Duties == \A t \in Threads : Duty(t, pc[t], todo[t])

LEMMA OpsFacts ==
    \A t : /\ OpsOf(t) \subseteq Operations /\ Enqueues(t) \subseteq OpsOf(t)
           /\ Seq(Enqueues(t)) \subseteq Seq(OpsOf(t)) /\ Seq(OpsOf(t)) \subseteq Seq(Operations)
           /\ \A o \in OpsOf(t) : o.op \in {"enqueue", "drain", "close", "end"} /\ o.from \in Queues
                                  /\ o.to \in Queues /\ Feeds(t, o.to)
<1> SUFFICES ASSUME NEW t
             PROVE  /\ OpsOf(t) \subseteq Operations /\ Enqueues(t) \subseteq OpsOf(t)
                    /\ Seq(Enqueues(t)) \subseteq Seq(OpsOf(t)) /\ Seq(OpsOf(t)) \subseteq Seq(Operations)
                    /\ \A o \in OpsOf(t) : o.op \in {"enqueue", "drain", "close", "end"} /\ o.from \in Queues
                                           /\ o.to \in Queues /\ Feeds(t, o.to)
  OBVIOUS
<1>1. OpsOf(t) \subseteq Operations /\ Enqueues(t) \subseteq OpsOf(t)
  BY DEF OpsOf, Enqueues
<1>2. Seq(Enqueues(t)) \subseteq Seq(OpsOf(t)) /\ Seq(OpsOf(t)) \subseteq Seq(Operations)
  BY <1>1, SeqMonotonic
<1>3. \A o \in OpsOf(t) : o \in Operations /\ Feeds(t, o.to)
  BY DEF OpsOf
<1>. QED BY <1>1, <1>2, <1>3, OperationFacts

LEMMA ClosingPair ==
    ASSUME NEW t, NEW d \in Seq(OpsOf(t)), NEW e \in Seq(OpsOf(t)),
           \A i \in 1..Len(d) : ~Last(d[i]) /\ \E j \in 1..Len(e) : e[j].to = d[i].to,
           \A i \in 1..Len(e) : Last(e[i]),
           \A i, j \in 1..Len(e) : e[i].to = e[j].to => i = j
    PROVE  Closing(t, d \o e)
<1>1. /\ d \o e \in Seq(OpsOf(t)) /\ Len(d) \in Nat /\ Len(e) \in Nat
      /\ \A i \in 1..Len(d) : i \in 1..Len(d \o e) /\ (d \o e)[i] = d[i]
      /\ \A i \in 1..Len(e) : Len(d) + i \in 1..Len(d \o e) /\ (d \o e)[Len(d) + i] = e[i]
      /\ \A i \in 1..Len(d \o e) : i \in 1..Len(d) \/ \E j \in 1..Len(e) : i = Len(d) + j
  BY ConcatAt
<1>2. PICK s \in Seq(OpsOf(t)) : s = d \o e
  BY <1>1
<1>3. /\ \A i \in 1..Len(d) : i \in 1..Len(s) /\ s[i] = d[i]
      /\ \A i \in 1..Len(e) : Len(d) + i \in 1..Len(s) /\ s[Len(d) + i] = e[i]
      /\ \A i \in 1..Len(s) : i \in 1..Len(d) \/ \E j \in 1..Len(e) : i = Len(d) + j
  BY <1>1, <1>2
<1>4. \A j \in 1..Len(e) : e[j] \in Operations /\ e[j] \in EndsAt(e[j].to)
  <2>1. \A j \in 1..Len(e) : e[j] \in OpsOf(t)
    BY ElementOfSeq
  <2>. QED BY <2>1, OpsFacts DEF EndsAt
<1>5. ASSUME NEW i \in 1..Len(s) PROVE Has(s, EndsAt(s[i].to))
  <2>1. \E j \in 1..Len(e) : e[j].to = s[i].to
    <3>1. CASE i \in 1..Len(d)
      <4>1. s[i] = d[i]
        BY <1>3, <3>1
      <4>. QED BY <3>1, <4>1, Zenon
    <3>2. ASSUME NEW j \in 1..Len(e), i = Len(d) + j PROVE \E b \in 1..Len(e) : e[b].to = s[i].to
      <4>1. s[i] = e[j]
        BY <1>3, <3>2
      <4>. QED BY <4>1
    <3>. QED BY <1>3, <3>1, <3>2
  <2>2. PICK j \in 1..Len(e) : e[j].to = s[i].to
    BY <2>1
  <2>3. s[Len(d) + j] \in EndsAt(s[i].to) /\ Len(d) + j \in 1..Len(s)
    BY <1>3, <1>4, <2>2
  <2>. QED BY <2>3, Zenon DEF Has
<1>6. ASSUME NEW i \in 1..Len(s), NEW j \in 1..Len(s), i < j, Last(s[i]) PROVE s[j].to # s[i].to
  <2>1. i \notin 1..Len(d)
    BY <1>3, <1>6
  <2>2. PICK a \in 1..Len(e) : i = Len(d) + a
    BY <1>3, <2>1
  <2>3. j \notin 1..Len(d)
    BY <1>1, <1>6, <2>2
  <2>4. PICK b \in 1..Len(e) : j = Len(d) + b
    BY <1>3, <2>3
  <2>5. a # b
    BY <1>6, <2>2, <2>4
  <2>6. s[i] = e[a] /\ s[j] = e[b]
    BY <1>3, <2>2, <2>4
  <2>7. e[a].to # e[b].to
    BY <2>5, Zenon
  <2>. QED BY <2>6, <2>7
<1>7. Closing(t, s)
  BY <1>5, <1>6, Zenon DEF Closing
<1>. QED BY <1>2, <1>7

LEMMA OperationFields ==
    \A q : /\ End(q).op = "end" /\ End(q).from = q /\ End(q).to = q /\ Last(End(q))
           /\ Close(q).op = "close" /\ Close(q).from = q /\ Close(q).to = q /\ Last(Close(q))
           /\ Enqueue(q).op = "enqueue" /\ Enqueue(q).from = q /\ Enqueue(q).to = q /\ ~Last(Enqueue(q))
           /\ Operation("drain", q, q).op = "drain" /\ Operation("drain", q, q).to = q
           /\ Operation("drain", q, q).from = q /\ ~Last(Operation("drain", q, q))
  BY DEF End, Close, Enqueue, Operation, Last

LEMMA OwnOps ==
    ASSUME NEW t \in Threads, NEW q \in Queues
    PROVE  /\ Feeds(t, q) => End(q) \in OpsOf(t)
           /\ q \in Fills(t) => /\ Close(q) \in OpsOf(t) /\ Operation("drain", q, q) \in OpsOf(t)
                                /\ Enqueue(q) \in Enqueues(t)
           /\ Close(q) \in Drains(q) /\ Operation("drain", q, q) \in Drains(q)
<1>1. /\ End(q) \in Operations /\ Close(q) \in Operations /\ Enqueue(q) \in Operations
      /\ Operation("drain", q, q) \in Operations
  BY OperationFacts DEF Own
<1>2. q \in Fills(t) => Feeds(t, q)
  BY Lines
<1>. QED BY <1>1, <1>2, OperationFields DEF OpsOf, Enqueues, Drains

\* A thread drains the buffer of a queue that it will terminate.
LEMMA DrainFacts ==
    ASSUME NEW t \in Threads, NEW q \in Queues, q \in Fills(t)
    PROVE  /\ Drain(t, q) \in Seq(OpsOf(t))
           /\ \A i \in 1..Len(Drain(t, q)) : ~Last(Drain(t, q)[i]) /\ Drain(t, q)[i].to = q
           /\ send[t][q] # <<>> => Has(Drain(t, q), Drains(q))
<1>1. PICK o \in OpsOf(t) : o = Operation("drain", q, q) /\ o \in Drains(q) /\ ~Last(o) /\ o.to = q
  BY OwnOps, OperationFields
<1>2. CASE send[t][q] = <<>>
  <2>1. Drain(t, q) = <<>>
    BY <1>2 DEF Drain
  <2>2. \A i \in 1..Len(<<>>) : FALSE
    OBVIOUS
  <2>. QED BY <1>2, <2>1, <2>2, EmptySeq
<1>3. CASE send[t][q] # <<>>
  <2>1. Drain(t, q) = <<o>>
    BY <1>1, <1>3 DEF Drain
  <2>2. <<o>> \in Seq(OpsOf(t)) /\ 1 \in 1..Len(<<o>>) /\ <<o>>[1] = o /\ \A i \in 1..Len(<<o>>) : i = 1
    OBVIOUS
  <2>3. Has(<<o>>, Drains(q))
    BY <1>1, <2>2 DEF Has
  <2>. QED BY <1>1, <2>1, <2>2, <2>3
<1>. QED BY <1>2, <1>3

LEMMA EndFacts ==
    ASSUME NEW t \in Threads, NEW qs \in {Outputs[t], Extras[t]}
    PROVE  /\ EndAll(qs) \in Seq(OpsOf(t)) /\ Len(EndAll(qs)) = Len(qs) /\ DOMAIN qs = 1..Len(qs)
           /\ \A i \in 1..Len(qs) : Last(EndAll(qs)[i]) /\ EndAll(qs)[i].to = qs[i]
           /\ \A i, j \in 1..Len(qs) : qs[i] = qs[j] => i = j
<1>1. DOMAIN qs = 1..Len(qs) /\ Len(qs) \in Nat /\ \A i \in 1..Len(qs) : qs[i] \in Queues
  BY Wired
<1>2. \A i, j \in 1..Len(qs) : qs[i] = qs[j] => i = j
  <2>1. \A ms \in {Outputs, Extras} : \A i, j \in DOMAIN ms[t] : i # j => ms[t][i] # ms[t][j]
    BY WiringAssumption, Zenon
  <2>. QED BY <1>1, <2>1
<1>3. \A i \in 1..Len(qs) : Feeds(t, qs[i])
  BY <1>1 DEF Feeds
<1>4. \A i \in 1..Len(qs) : EndAll(qs)[i] = End(qs[i]) /\ End(qs[i]) \in OpsOf(t)
  BY <1>1, <1>3, OwnOps DEF EndAll
<1>5. EndAll(qs) \in [1..Len(qs) -> OpsOf(t)]
  BY <1>1, <1>4 DEF EndAll
<1>6. EndAll(qs) \in Seq(OpsOf(t)) /\ Len(EndAll(qs)) = Len(qs)
  <2>1. PICK s \in [1..Len(qs) -> OpsOf(t)] : s = EndAll(qs)
    BY <1>5
  <2>2. s \in Seq(OpsOf(t))
    BY <1>1, SeqDef
  <2>3. Len(s) = Len(qs)
    BY <1>1, <2>2, LenProperties
  <2>. QED BY <2>1, <2>2, <2>3
<1>. QED BY <1>1, <1>2, <1>4, <1>6, OperationFields

LEMMA CloseFacts ==
    ASSUME NEW t \in Threads, NEW q \in Queues, q \in Fills(t)
    PROVE  Closing(t, <<Close(q)>>) /\ Has(<<Close(q)>>, Drains(q))
<1>1. PICK o \in OpsOf(t) : o = Close(q) /\ o \in Drains(q) /\ Last(o) /\ o.to = q
  BY OwnOps, OperationFields
<1>2. <<o>> \in Seq(OpsOf(t)) /\ 1 \in 1..Len(<<o>>) /\ <<o>>[1] = o /\ \A i \in 1..Len(<<o>>) : i = 1
  OBVIOUS
<1>3. Has(<<o>>, Drains(q))
  BY <1>1, <1>2 DEF Has
<1>4. <<>> \in Seq(OpsOf(t)) /\ \A i \in 1..Len(<<>>) : FALSE
  BY EmptySeq
<1>5. Closing(t, <<>> \o <<o>>)
  <2>1. \A i \in 1..Len(<<o>>) : Last(<<o>>[i])
    BY <1>1, <1>2
  <2>2. \A i, j \in 1..Len(<<o>>) : i = j
    BY <1>2
  <2>. QED BY <1>2, <1>4, <2>1, <2>2, ClosingPair
<1>6. <<>> \o <<o>> = <<o>>
  BY <1>2, ConcatEmptySeq
<1>. QED BY <1>1, <1>3, <1>5, <1>6

\* The buffers a thread does not use are empty.
Unused(t) == \A q \in Queues : send[t][q] # <<>> => q \in Loads(t)

LEMMA SingleFinal ==
    ASSUME NEW t \in Workers \ Dedupers, Unused(t)
    PROVE  Final(t, Drain(t, Outputs[t][1]) \o EndAll(Outputs[t])) /\ Final(t, <<Close(Outputs[t][1])>>)
<1>1. /\ t \in Threads /\ Outputs[t][1] \in Fills(t) /\ Outputs[t][1] \in Queues /\ Loads(t) = {Outputs[t][1]}
      /\ 1 \in DOMAIN Outputs[t]
  <2>1. t \in Threads /\ Outputs[t][1] \in Loads(t) /\ Loads(t) = {Outputs[t][1]}
    BY Lines DEF Loads, Fills
  <2>2. 1 \in DOMAIN Outputs[t]
    BY Wired DEF Workers
  <2>. QED BY <2>1, <2>2, Lines
<1>2. PICK q \in Queues : q = Outputs[t][1] /\ q \in Fills(t) /\ Loads(t) = {q}
  BY <1>1
<1>3. PICK d, e \in Seq(OpsOf(t)) : d = Drain(t, q) /\ e = EndAll(Outputs[t])
  BY <1>1, <1>2, DrainFacts, EndFacts
<1>4. /\ \A i \in 1..Len(d) : ~Last(d[i]) /\ d[i].to = q
      /\ send[t][q] # <<>> => Has(d, Drains(q))
  BY <1>1, <1>2, <1>3, DrainFacts
<1>5. /\ \A i \in 1..Len(e) : Last(e[i]) /\ e[i].to = Outputs[t][i]
      /\ \A i, j \in 1..Len(e) : Outputs[t][i] = Outputs[t][j] => i = j
      /\ 1 \in 1..Len(e)
  BY <1>1, <1>3, EndFacts
<1>6. Closing(t, d \o e)
  <2>1. e[1].to = q
    BY <1>2, <1>5
  <2>2. \A i \in 1..Len(d) : ~Last(d[i]) /\ \E j \in 1..Len(e) : e[j].to = d[i].to
    BY <1>4, <1>5, <2>1
  <2>3. \A i, j \in 1..Len(e) : e[i].to = e[j].to => i = j
    BY <1>5
  <2>. QED BY <1>5, <2>2, <2>3, ClosingPair
<1>7. \A r \in Queues : send[t][r] # <<>> => r = q
  BY <1>2 DEF Unused
<1>8. send[t][q] # <<>> => Has(d \o e, Drains(q))
  BY <1>4, HasConcat
<1>9. Final(t, d \o e)
  BY <1>6, <1>7, <1>8, Zenon DEF Final
<1>10. Closing(t, <<Close(q)>>) /\ Has(<<Close(q)>>, Drains(q))
  BY <1>1, <1>2, CloseFacts
<1>11. Final(t, <<Close(q)>>)
  BY <1>7, <1>10, Zenon DEF Final
<1>. QED BY <1>2, <1>3, <1>9, <1>11


LEMMA Regroup ==
    ASSUME NEW S, NEW a \in Seq(S), NEW b \in Seq(S), NEW c \in Seq(S)
    PROVE  (a \o b) \o c = a \o (b \o c)
  BY ConcatAssociative

LEMMA DoubleFinal ==
    ASSUME NEW t \in Dedupers, Unused(t)
    PROVE  /\ Final(t, CloseBoth(t))
           /\ Final(t, Drain(t, Outputs[t][1]) \o Drain(t, Extras[t][1])
                       \o EndAll(Outputs[t]) \o EndAll(Extras[t]))
<1>1. /\ t \in Threads /\ Outputs[t][1] \in Fills(t) /\ Outputs[t][1] \in Queues
      /\ Extras[t][1] \in Fills(t) /\ Extras[t][1] \in Queues
      /\ Loads(t) = {Outputs[t][1], Extras[t][1]} /\ 1 \in DOMAIN Outputs[t] /\ 1 \in DOMAIN Extras[t]
  <2>1. t \in Threads /\ t \in Workers /\ t # Fragmenter
    BY Lines DEF Workers
  <2>2. Outputs[t][1] \in Loads(t) /\ Extras[t][1] \in Loads(t) /\ Loads(t) = {Outputs[t][1], Extras[t][1]}
    BY <2>1 DEF Loads, Fills
  <2>3. 1 \in DOMAIN Outputs[t] /\ 1 \in DOMAIN Extras[t]
    BY Wired
  <2>. QED BY <2>1, <2>2, <2>3, Lines
<1>2. PICK q, p \in Queues : q = Outputs[t][1] /\ p = Extras[t][1] /\ q \in Fills(t) /\ p \in Fills(t)
                             /\ Loads(t) = {q, p}
  BY <1>1
<1>3. /\ \A i \in DOMAIN Outputs[t] : Outputs[t][i] \in ToCompress
      /\ \A i \in DOMAIN Extras[t] : Extras[t][i] \in ToReorder
      /\ ToCompress \cap ToReorder = {}
  <2>1. Between[3] \cap Between[4] = {}
    BY WiringAssumption
  <2>2. ToCompress \cap ToReorder = {}
    BY <2>1 DEF Between
  <2>. QED BY <2>2 DEF ToCompress, ToReorder, QueuesOf
<1>4. \A r \in Queues : send[t][r] # <<>> => r = q \/ r = p
  BY <1>2 DEF Unused
<1>5. PICK d, c, e, f \in Seq(OpsOf(t)) : /\ d = Drain(t, q) /\ c = Drain(t, p)
                                          /\ e = EndAll(Outputs[t]) /\ f = EndAll(Extras[t])
  BY <1>1, <1>2, DrainFacts, EndFacts
<1>6. /\ \A i \in 1..Len(d) : ~Last(d[i]) /\ d[i].to = q
      /\ send[t][q] # <<>> => Has(d, Drains(q))
      /\ \A i \in 1..Len(c) : ~Last(c[i]) /\ c[i].to = p
      /\ send[t][p] # <<>> => Has(c, Drains(p))
  BY <1>1, <1>2, <1>5, DrainFacts
<1>7. /\ \A i \in 1..Len(e) : Last(e[i]) /\ e[i].to = Outputs[t][i]
      /\ \A i, j \in 1..Len(e) : Outputs[t][i] = Outputs[t][j] => i = j
      /\ 1 \in 1..Len(e) /\ \A i \in 1..Len(e) : i \in DOMAIN Outputs[t]
  BY <1>1, <1>5, EndFacts
<1>8. /\ \A i \in 1..Len(f) : Last(f[i]) /\ f[i].to = Extras[t][i]
      /\ \A i, j \in 1..Len(f) : Extras[t][i] = Extras[t][j] => i = j
      /\ 1 \in 1..Len(f) /\ \A i \in 1..Len(f) : i \in DOMAIN Extras[t]
  BY <1>1, <1>5, EndFacts
<1>9. PICK b \in Seq(OpsOf(t)) : b = d \o c
  BY <1>5, ConcatProperties
<1>10. PICK g \in Seq(OpsOf(t)) : g = e \o f
  BY <1>5, ConcatProperties
<1>11. /\ \A i \in 1..Len(b) : ~Last(b[i]) /\ b[i].to \in {q, p}
       /\ send[t][q] # <<>> => Has(b, Drains(q))
       /\ send[t][p] # <<>> => Has(b, Drains(p))
  <2>1. /\ \A i \in 1..Len(d) : (d \o c)[i] = d[i]
        /\ \A i \in 1..Len(c) : (d \o c)[Len(d) + i] = c[i]
        /\ \A i \in 1..Len(d \o c) : i \in 1..Len(d) \/ \E j \in 1..Len(c) : i = Len(d) + j
    BY ConcatAt
  <2>2. \A i \in 1..Len(b) : (\E j \in 1..Len(d) : b[i] = d[j]) \/ \E j \in 1..Len(c) : b[i] = c[j]
    BY <1>9, <2>1, Zenon
  <2>. QED BY <1>6, <1>9, <2>2, HasConcat
<1>13. /\ \A i \in 1..Len(g) : \/ \E j \in 1..Len(e) : i = j /\ g[i] = e[j]
                               \/ \E j \in 1..Len(f) : i = Len(e) + j /\ g[i] = f[j]
       /\ \A j \in 1..Len(e) : j \in 1..Len(g) /\ g[j] = e[j]
       /\ \A j \in 1..Len(f) : Len(e) + j \in 1..Len(g) /\ g[Len(e) + j] = f[j]
  BY <1>10, ConcatAt
<1>14. \A i \in 1..Len(g) : Last(g[i])
  BY <1>7, <1>8, <1>13
<1>15. ASSUME NEW i \in 1..Len(g), NEW j \in 1..Len(g), g[i].to = g[j].to PROVE i = j
  <2>1. \A a \in 1..Len(e), n \in 1..Len(f) : e[a].to # f[n].to
    BY <1>3, <1>7, <1>8
  <2>2. \A a, n \in 1..Len(e) : e[a].to = e[n].to => a = n
    BY <1>7
  <2>3. \A a, n \in 1..Len(f) : f[a].to = f[n].to => a = n
    BY <1>8
  <2>4. ASSUME NEW a \in 1..Len(e), i = a, g[i] = e[a] PROVE i = j
    <3>1. \A n \in 1..Len(f) : g[j] # f[n]
      BY <1>15, <2>1, <2>4
    <3>2. PICK n \in 1..Len(e) : j = n /\ g[j] = e[n]
      BY <1>13, <3>1
    <3>. QED BY <1>15, <2>2, <2>4, <3>2
  <2>5. ASSUME NEW a \in 1..Len(f), i = Len(e) + a, g[i] = f[a] PROVE i = j
    <3>1. \A n \in 1..Len(e) : g[j] # e[n]
      BY <1>15, <2>1, <2>5
    <3>2. PICK n \in 1..Len(f) : j = Len(e) + n /\ g[j] = f[n]
      BY <1>13, <3>1
    <3>. QED BY <1>15, <2>3, <2>5, <3>2
  <2>. QED BY <1>13, <2>4, <2>5
<1>16. Closing(t, b \o g)
  <2>1. e[1].to = q /\ f[1].to = p
    BY <1>2, <1>7, <1>8
  <2>2. (\E j \in 1..Len(g) : g[j].to = q) /\ \E j \in 1..Len(g) : g[j].to = p
    BY <1>7, <1>8, <1>13, <2>1
  <2>3. \A i \in 1..Len(b) : ~Last(b[i]) /\ \E j \in 1..Len(g) : g[j].to = b[i].to
    BY <1>11, <2>2
  <2>. QED BY <1>14, <1>15, <2>3, ClosingPair
<1>17. Final(t, b \o g)
  <2>1. (send[t][q] # <<>> => Has(b \o g, Drains(q))) /\ (send[t][p] # <<>> => Has(b \o g, Drains(p)))
    BY <1>11, HasConcat
  <2>. QED BY <1>4, <1>16, <2>1, Zenon DEF Final
<1>18. b \o g = Drain(t, Outputs[t][1]) \o Drain(t, Extras[t][1]) \o EndAll(Outputs[t]) \o EndAll(Extras[t])
  <2>1. b \o (e \o f) = (b \o e) \o f
    <3>1. (b \o e) \o f = b \o (e \o f)
      BY ONLY b \in Seq(OpsOf(t)), e \in Seq(OpsOf(t)), f \in Seq(OpsOf(t)), Regroup
    <3>. QED BY <3>1, Zenon
  <2>. QED BY <1>2, <1>5, <1>9, <1>10, <2>1
<1>19. Final(t, CloseBoth(t))
  <2>1. PICK x, y \in OpsOf(t) : /\ x = Close(q) /\ y = Close(p) /\ x \in Drains(q) /\ y \in Drains(p)
                                 /\ Last(x) /\ Last(y) /\ x.to = q /\ y.to = p
    BY <1>1, <1>2, OwnOps, OperationFields
  <2>2. q # p
    BY <1>1, <1>2, <1>3
  <2>3. /\ <<x, y>> \in Seq(OpsOf(t)) /\ 1 \in 1..Len(<<x, y>>) /\ 2 \in 1..Len(<<x, y>>)
        /\ <<x, y>>[1] = x /\ <<x, y>>[2] = y /\ \A i \in 1..Len(<<x, y>>) : i = 1 \/ i = 2
    OBVIOUS
  <2>4. PICK s \in Seq(OpsOf(t)) : s = <<x, y>>
    BY <2>3
  <2>5. 1 \in 1..Len(s) /\ 2 \in 1..Len(s) /\ s[1] = x /\ s[2] = y /\ \A i \in 1..Len(s) : i = 1 \/ i = 2
    BY <2>3, <2>4
  <2>6. <<>> \in Seq(OpsOf(t)) /\ \A i \in 1..Len(<<>>) : FALSE
    BY EmptySeq
  <2>7. Closing(t, <<>> \o s)
    <3>1. \A i \in 1..Len(s) : Last(s[i])
      BY <2>1, <2>5
    <3>2. \A i, j \in 1..Len(s) : s[i].to = s[j].to => i = j
      BY <2>1, <2>2, <2>5
    <3>. QED BY <2>6, <3>1, <3>2, ClosingPair
  <2>8. <<>> \o s = s
    BY ConcatEmptySeq
  <2>9. Has(s, Drains(q)) /\ Has(s, Drains(p))
    BY <2>1, <2>5 DEF Has
  <2>10. Final(t, s)
    BY <1>4, <2>7, <2>8, <2>9 DEF Final
  <2>. QED BY <1>2, <2>1, <2>4, <2>10 DEF CloseBoth
<1>. QED BY <1>17, <1>18, <1>19

LEMMA FragmentFinal ==
    ASSUME Unused(Fragmenter)
    PROVE  LET t == Fragmenter IN
           /\ encoder = "default" /\ send[t][Outputs[t][1]] = <<>> => Final(t, EndAll(Outputs[t]))
           /\ encoder # "default" => Final(t, [i \in DOMAIN Outputs[t] |-> Close(Outputs[t][i])])
<1> DEFINE t == Fragmenter
           closes == [i \in DOMAIN Outputs[t] |-> Close(Outputs[t][i])]
<1>1. t \in Threads /\ Fills(t) = CoarseQueues /\ DOMAIN Outputs[t] = 1..Len(Outputs[t]) /\ Len(Outputs[t]) \in Nat
  BY Wired DEF Fills
<1>2. <<>> \in Seq(OpsOf(t)) /\ \A i \in 1..Len(<<>>) : FALSE
  BY EmptySeq
<1>3. /\ EndAll(Outputs[t]) \in Seq(OpsOf(t)) /\ Len(EndAll(Outputs[t])) = Len(Outputs[t])
      /\ \A i \in 1..Len(Outputs[t]) : Last(EndAll(Outputs[t])[i]) /\ EndAll(Outputs[t])[i].to = Outputs[t][i]
      /\ \A i, j \in 1..Len(Outputs[t]) : Outputs[t][i] = Outputs[t][j] => i = j
  BY <1>1, EndFacts
<1>4. ASSUME encoder = "default" /\ send[t][Outputs[t][1]] = <<>> PROVE Final(t, EndAll(Outputs[t]))
  <2>1. \A q \in Queues : send[t][q] = <<>>
    BY <1>4 DEF Unused, Loads, Fills
  <2>2. PICK e \in Seq(OpsOf(t)) : e = EndAll(Outputs[t])
    BY <1>3
  <2>3. (\A i \in 1..Len(e) : Last(e[i])) /\ \A i, j \in 1..Len(e) : e[i].to = e[j].to => i = j
    BY <1>3, <2>2
  <2>4. Closing(t, <<>> \o e)
    BY <1>2, <2>3, ClosingPair
  <2>5. <<>> \o e = e
    BY ConcatEmptySeq
  <2>. QED BY <2>1, <2>2, <2>4, <2>5 DEF Final
<1>5. ASSUME encoder # "default" PROVE Final(t, closes)
  <2>1. \A i \in 1..Len(Outputs[t]) : Outputs[t][i] \in CoarseQueues /\ Outputs[t][i] \in Queues
    BY <1>1, CoarseFacts DEF CoarseQueues
  <2>2. \A i \in 1..Len(Outputs[t]) : /\ Close(Outputs[t][i]) \in OpsOf(t)
                                      /\ Close(Outputs[t][i]) \in Drains(Outputs[t][i])
    BY <1>1, <2>1, OwnOps
  <2>3. closes \in [1..Len(Outputs[t]) -> OpsOf(t)]
    BY <1>1, <2>2
  <2>4. PICK e \in [1..Len(Outputs[t]) -> OpsOf(t)] : e = closes
    BY <2>3
  <2>5. e \in Seq(OpsOf(t)) /\ Len(e) = Len(Outputs[t])
    <3>1. e \in Seq(OpsOf(t))
      BY <1>1, SeqDef
    <3>. QED BY <1>1, <3>1, LenProperties
  <2>6. \A i \in 1..Len(e) : e[i] = Close(Outputs[t][i])
    BY <1>1, <2>4, <2>5
  <2>7. (\A i \in 1..Len(e) : Last(e[i])) /\ \A i, j \in 1..Len(e) : e[i].to = e[j].to => i = j
    BY <1>3, <2>5, <2>6, OperationFields
  <2>8. Closing(t, <<>> \o e)
    BY <1>2, <2>5, <2>7, ClosingPair
  <2>9. <<>> \o e = e
    BY <2>5, ConcatEmptySeq
  <2>10. ASSUME NEW q \in Queues, send[t][q] # <<>> PROVE Has(e, Drains(q))
    <3>1. q \in CoarseQueues
      BY <1>5, <2>10 DEF Unused, Loads, Fills
    <3>2. PICK i \in 1..Len(Outputs[t]) : q = Outputs[t][i]
      BY <1>1, <3>1 DEF CoarseQueues
    <3>3. e[i] \in Drains(q) /\ i \in 1..Len(e)
      BY <2>2, <2>5, <2>6, <3>2
    <3>. QED BY <3>3, Zenon DEF Has
  <2>. QED BY <2>4, <2>8, <2>9, <2>10, Zenon DEF Final
<1>. QED BY <1>4, <1>5

\* What Fragment does to its operations and buffers
LEMMA FragmentDuty ==
    ASSUME Stages, Unused(Fragmenter), Fragment
    PROVE  LET t == Fragmenter IN
           /\ \/ pc' = pc /\ todo'[t] \in Seq(Enqueues(t))
              \/ /\ inHand[t] = <<>> /\ Final(t, todo'[t])
                 /\ pc' = [pc EXCEPT ![t] = "leave"] /\ UNCHANGED <<send, inHand>>
           /\ \A q \in Queues : send'[t][q] = send[t][q] \/ q \in Loads(t)
<1> DEFINE t == Fragmenter
           q == Outputs[t][turn[t]]
           from == Outputs[t][1]
           goal == /\ \/ pc' = pc /\ todo'[t] \in Seq(Enqueues(t))
                      \/ /\ inHand[t] = <<>> /\ Final(t, todo'[t])
                         /\ pc' = [pc EXCEPT ![t] = "leave"] /\ UNCHANGED <<send, inHand>>
                   /\ \A r \in Queues : send'[t][r] = send[t][r] \/ r \in Loads(t)
<1>1. /\ t \in Threads /\ q \in Queues /\ q \in Fills(t) /\ from \in Queues /\ from \in Fills(t)
      /\ from \in CoarseQueues /\ q \in CoarseQueues
  <2>1. turn[t] \in DOMAIN Outputs[t] /\ DOMAIN Outputs[t] = 1..Len(Outputs[t]) /\ t \in Threads
        /\ Len(Outputs[t]) \in Nat /\ Len(Outputs[t]) > 0
    BY Wired DEF Stages, TurnOK
  <2>2. \A n \in Nat : n > 0 => 1 \in 1..n
    OBVIOUS
  <2>3. q \in CoarseQueues /\ from \in CoarseQueues
    BY <2>1, <2>2 DEF CoarseQueues
  <2>. QED BY <2>1, <2>3, CoarseFacts DEF Fills
<1>2. todo \in [Threads -> Seq(Operations)] /\ \A u \in Threads : DOMAIN send[u] = Queues /\ DOMAIN send = Threads
  BY DEF Stages, PcOK, SendOK, Filled, Buffers
<1>3. \A s : todo' = [todo EXCEPT ![t] = s] => todo'[t] = s
  BY <1>1, <1>2
<1>4. \A p \in Queues : \A x : send' = [send EXCEPT ![t][p] = x] =>
          \A r \in Queues : send'[t][r] = send[t][r] \/ r = p
  BY <1>1, <1>2
<1>5. <<>> \in Seq(Enqueues(t)) /\ <<Enqueue(q)>> \in Seq(Enqueues(t))
  <2>1. Enqueue(q) \in Enqueues(t)
    BY <1>1, OwnOps
  <2>. QED BY <2>1
<1>6. encoder # "default" => Loads(t) = CoarseQueues
  BY DEF Loads, Fills
<1>7. ASSUME encoder # "default", CloseQueues PROVE goal
  <2>1. inHand[t] = <<>> /\ todo'[t] = [i \in DOMAIN Outputs[t] |-> Close(Outputs[t][i])]
        /\ pc' = [pc EXCEPT ![t] = "leave"] /\ UNCHANGED <<send, inHand>>
    BY <1>3, <1>7 DEF CloseQueues
  <2>. QED BY <1>7, <2>1, FragmentFinal
<1>8. ASSUME encoder # "default", SendNext PROVE goal
  <2>1. Put(t, q, Head(inHand[t]), <<>>) /\ pc' = pc
    BY <1>8 DEF SendNext
  <2>2. PICK s : s = (IF Len(send[t][q]) + 1 >= Step[t] THEN <<Enqueue(q)>> ELSE <<>>)
                 /\ s \in Seq(Enqueues(t))
    BY <1>5
  <2>3. <<>> \o s = s
    BY <2>2, ConcatEmptySeq
  <2>4. todo'[t] = s
    BY <1>3, <2>1, <2>2, <2>3 DEF Put
  <2>5. \A r \in Queues : send'[t][r] = send[t][r] \/ r = q
    BY <1>1, <1>4, <2>1 DEF Put
  <2>. QED BY <1>1, <1>6, <1>8, <2>1, <2>2, <2>4, <2>5
<1>9. CASE FragmentDefault
  <2> DEFINE f == <<Operation("enqueue", from, q)>>
  <2>1. encoder = "default" /\ todo[t] = <<>>
    BY <1>9 DEF FragmentDefault, Idle
  <2>2. \/ /\ send' = [send EXCEPT ![t][from] = Append(send[t][from], Head(inHand[t]))]
           /\ todo' = [todo EXCEPT ![t] = f] \/ todo' = todo
           /\ UNCHANGED pc
        \/ todo' = [todo EXCEPT ![t] = f] /\ UNCHANGED <<send, inHand, pc>>
        \/ /\ inHand[t] = <<>> /\ send[t][from] = <<>>
           /\ todo' = [todo EXCEPT ![t] = EndAll(Outputs[t])]
           /\ pc' = [pc EXCEPT ![t] = "leave"]
           /\ UNCHANGED <<send, inHand, turn>>
    BY <1>9, Zenon DEF FragmentDefault
  <2>3. f \in Seq(Enqueues(t))
    <3>1. PICK o : o = Operation("enqueue", from, q)
      OBVIOUS
    <3>2. o \in Operations
      BY <1>1, <3>1, OperationFacts
    <3>3. o.op = "enqueue" /\ o.to = q
      BY <3>1 DEF Operation
    <3>4. o \in Enqueues(t)
      BY <1>1, <3>2, <3>3, Lines DEF Enqueues, OpsOf
    <3>. QED BY <3>1, <3>4
  <2>4. Loads(t) = {from}
    BY <2>1 DEF Loads, Fills
  <2> HIDE DEF f
  <2>5. CASE /\ send' = [send EXCEPT ![t][from] = Append(send[t][from], Head(inHand[t]))]
             /\ todo' = [todo EXCEPT ![t] = f] \/ todo' = todo
             /\ UNCHANGED pc
    <3>1. todo'[t] \in Seq(Enqueues(t))
      BY <1>3, <1>5, <2>1, <2>3, <2>5
    <3>2. \A r \in Queues : send'[t][r] = send[t][r] \/ r = from
      BY <1>1, <1>4, <2>5
    <3>. QED BY <2>4, <2>5, <3>1, <3>2
  <2>6. CASE todo' = [todo EXCEPT ![t] = f] /\ UNCHANGED <<send, inHand, pc>>
    BY <1>3, <2>3, <2>6
  <2>7. CASE /\ inHand[t] = <<>> /\ send[t][from] = <<>>
             /\ todo' = [todo EXCEPT ![t] = EndAll(Outputs[t])]
             /\ pc' = [pc EXCEPT ![t] = "leave"]
             /\ UNCHANGED <<send, inHand, turn>>
    BY <1>3, <2>1, <2>7, FragmentFinal
  <2>. QED BY <2>2, <2>5, <2>6, <2>7
<1>10. CASE ~FragmentDefault
  <2>1. encoder # "default" /\ (SendNext \/ CloseQueues)
    BY <1>10, Zenon DEF Fragment, FragmentNaiveQueue, FragmentSmart, FragmentFifo, Smart
  <2>. QED BY <1>7, <1>8, <2>1
<1>. QED BY <1>9, <1>10

\* What a stage between Fragment and Reorder does to its operations and buffers
LEMMA WorkerDuty ==
    ASSUME Stages, NEW t, Worker(t), Unused(t)
    PROVE  /\ \/ pc' = pc /\ todo'[t] \in Seq(Enqueues(t))
              \/ /\ inHand[t] = <<>> /\ recv[t][Inputs[t][1]] = <<>> /\ Ended(Inputs[t][1])
                 /\ Final(t, todo'[t]) /\ pc' = [pc EXCEPT ![t] = "leave"]
                 /\ UNCHANGED <<queue, open, send, recv, inHand>>
           /\ \A q \in Queues : send'[t][q] = send[t][q] \/ q \in Loads(t)
           /\ open' = open /\ \A u \in Threads \ {t} : todo'[u] = todo[u] /\ send'[u] = send[u]
<1> DEFINE result == /\ pc' = pc /\ todo'[t] \in Seq(Enqueues(t))
                     /\ \A q \in Queues : send'[t][q] = send[t][q] \/ q \in Loads(t)
                     /\ open' = open /\ \A u \in Threads \ {t} : todo'[u] = todo[u] /\ send'[u] = send[u]
           left == /\ inHand[t] = <<>> /\ recv[t][Inputs[t][1]] = <<>> /\ Ended(Inputs[t][1])
                   /\ Final(t, todo'[t]) /\ pc' = [pc EXCEPT ![t] = "leave"]
                   /\ UNCHANGED <<queue, open, send, recv, inHand>>
                   /\ \A u \in Threads \ {t} : todo'[u] = todo[u]
<1>1. /\ t \in Workers /\ t \in Threads /\ Idle(t)
      /\ todo \in [Threads -> Seq(Operations)]
      /\ \A u \in Threads : DOMAIN send[u] = Queues /\ DOMAIN send = Threads
  BY WorkerCases DEF Stages, PcOK, SendOK, Filled, Buffers
<1>2. todo[t] = <<>> /\ <<>> \in Seq(Enqueues(t))
  BY <1>1, EmptySeq DEF Idle
<1>3. \A s : todo' = [todo EXCEPT ![t] = s] => todo'[t] = s /\ \A u \in Threads \ {t} : todo'[u] = todo[u]
  BY <1>1
<1>4. \A p \in Queues : \A x : send' = [send EXCEPT ![t][p] = x] =>
          /\ \A r \in Queues : send'[t][r] = send[t][r] \/ r = p
          /\ \A u \in Threads \ {t} : send'[u] = send[u]
  BY <1>1
<1>5. Receive(t) => result
  BY <1>1, <1>2 DEF Receive
<1>6. \A s : Leave(t, s) /\ Final(t, s) => left
  BY <1>3 DEF Leave
<1>7. ASSUME NEW q \in Loads(t), NEW x, NEW before \in Seq(Enqueues(t)), Put(t, q, x, before),
             UNCHANGED <<open, pc>>
      PROVE  result
  <2>1. q \in Queues /\ q \in Fills(t)
    BY <1>1, Lines
  <2>2. <<Enqueue(q)>> \in Seq(Enqueues(t))
    <3>1. Enqueue(q) \in Enqueues(t)
      BY <1>1, <2>1, OwnOps
    <3>. QED BY <3>1
  <2>3. PICK s \in Seq(Enqueues(t)) : s = IF Len(send[t][q]) + 1 >= Step[t] THEN <<Enqueue(q)>> ELSE <<>>
    BY <1>2, <2>2
  <2>4. before \o s \in Seq(Enqueues(t))
    BY ConcatProperties
  <2>5. todo' = [todo EXCEPT ![t] = before \o s] /\ send' = [send EXCEPT ![t][q] = Append(send[t][q], x)]
    BY <1>7, <2>3 DEF Put
  <2>6. todo'[t] \in Seq(Enqueues(t)) /\ \A u \in Threads \ {t} : todo'[u] = todo[u]
    BY <1>3, <2>4, <2>5
  <2>7. /\ \A r \in Queues : send'[t][r] = send[t][r] \/ r \in Loads(t)
        /\ \A u \in Threads \ {t} : send'[u] = send[u]
    BY <1>4, <2>1, <2>5
  <2>. QED BY <1>7, <2>6, <2>7
<1>8. CASE t \in Refiners /\ Refine(t)
  <2>1. \/ Receive(t) \/ RefineChunk(t)
        \/ Leave(t, Drain(t, Outputs[t][1]) \o EndAll(Outputs[t]))
        \/ Leave(t, <<Close(Outputs[t][1])>>)
    BY <1>8, Zenon DEF Refine, FragmentRefineDefault, RefineNaiveQueue, RefineSmart, RefineFifo
  <2>2. t \in Workers \ Dedupers /\ Outputs[t][1] \in Loads(t)
    BY <1>1, <1>8, Lines, Wired
  <2>3. RefineChunk(t) => result
    <3>1. ASSUME RefineChunk(t)
          PROVE  (\E x : Put(t, Outputs[t][1], x, <<>>)) /\ UNCHANGED <<open, pc>>
      BY <3>1, Zenon DEF RefineChunk
    <3>. QED BY <1>2, <1>7, <2>2, <3>1
  <2>. QED BY <1>5, <1>6, <2>1, <2>2, <2>3, SingleFinal
<1>9. CASE t \in Compressors /\ Compress(t)
  <2>1. \/ Receive(t) \/ CompressChunk(t) \/ CrossPop(t)
        \/ Leave(t, Drain(t, Outputs[t][1]) \o EndAll(Outputs[t]))
        \/ Leave(t, <<Close(Outputs[t][1])>>)
    BY <1>9, Zenon DEF Compress, CompressDefault, CompressNaiveQueue, CompressSmart, CompressFifo
  <2>2. t \in Workers \ Dedupers /\ Outputs[t][1] \in Loads(t)
    BY <1>1, <1>9, Lines, Wired
  <2>3. CompressChunk(t) => result
    <3>1. ASSUME CompressChunk(t)
          PROVE  (\E x : Put(t, Outputs[t][1], x, <<>>)) /\ UNCHANGED <<open, pc>>
      BY <3>1, Zenon DEF CompressChunk
    <3>. QED BY <1>2, <1>7, <2>2, <3>1
  <2>4. CrossPop(t) => result
    <3> SUFFICES ASSUME CrossPop(t) PROVE result
      OBVIOUS
    <3>1. todo' = [todo EXCEPT ![t] = ForcePush(t, Outputs[t][1])] /\ UNCHANGED <<open, send, pc>>
      BY Zenon DEF CrossPop
    <3>2. ForcePush(t, Outputs[t][1]) \in Seq(Enqueues(t))
      <4>1. Enqueue(Outputs[t][1]) \in Enqueues(t)
        BY <1>1, <2>2, Lines, OwnOps
      <4>. QED BY <1>2, <4>1 DEF ForcePush
    <3>. QED BY <1>3, <3>1, <3>2
  <2>. QED BY <1>5, <1>6, <2>1, <2>2, <2>3, <2>4, SingleFinal
<1>10. CASE t \in Dedupers /\ Deduplicate(t)
  <2>1. \A b \in BOOLEAN : Destination(t, b) \in Loads(t) /\ ForcePush(t, Destination(t, b)) \in Seq(Enqueues(t))
    <3>1. \A b \in BOOLEAN : Destination(t, b) \in Loads(t)
      BY <1>1, <1>10, Lines DEF Destination
    <3>2. \A b \in BOOLEAN : Enqueue(Destination(t, b)) \in Enqueues(t)
      BY <1>1, <3>1, Lines, OwnOps
    <3>. QED BY <1>2, <3>1, <3>2 DEF ForcePush
  <2>2. ASSUME NEW before \in Seq(Enqueues(t)), DeduplicateChunk(t, before) PROVE result
    <3>1. (\E b \in BOOLEAN : \E x : Put(t, Destination(t, b), x, before)) /\ UNCHANGED <<open, pc>>
      BY <2>2, Zenon DEF DeduplicateChunk
    <3>. QED BY <1>7, <2>1, <3>1
  <2>3. CASE DeduplicateNaiveQueue(t)
    <3> DEFINE dup == state[Head(recv[t][Inputs[t][1]]).data] # "absent"
               n == IF row[t].compressed = ~dup THEN row[t].n + 1 ELSE 1
               idle == row[t].compressed = ~dup /\ n = RowLimit
               other == IF idle THEN ForcePush(t, Destination(t, ~dup)) ELSE <<>>
    <3>1. Receive(t) \/ DeduplicateChunk(t, other) \/ Leave(t, CloseBoth(t))
      BY <2>3, Zenon DEF DeduplicateNaiveQueue
    <3>2. other \in Seq(Enqueues(t))
      BY <1>2, <2>1
    <3> HIDE DEF other
    <3>. QED BY <1>5, <1>6, <1>10, <2>2, <3>1, <3>2, DoubleFinal
  <2>4. CASE DeduplicateDefault(t) \/ DeduplicateSmart(t) \/ DeduplicateFifo(t)
    <3>1. \/ Receive(t) \/ DeduplicateChunk(t, <<>>) \/ Leave(t, CloseBoth(t))
          \/ Leave(t, Drain(t, Outputs[t][1]) \o Drain(t, Extras[t][1])
                      \o EndAll(Outputs[t]) \o EndAll(Extras[t]))
      BY <2>4, Zenon DEF DeduplicateDefault, DeduplicateSmart, DeduplicateFifo
    <3>. QED BY <1>2, <1>5, <1>6, <1>10, <2>2, <3>1, DoubleFinal
  <2>. QED BY <1>10, <2>3, <2>4 DEF Deduplicate
<1>. QED BY <1>8, <1>9, <1>10 DEF Worker

LEMMA ClosingTail ==
    ASSUME NEW t, NEW s, Closing(t, s), s # <<>>
    PROVE  /\ Closing(t, Tail(s)) /\ Head(s) \in OpsOf(t)
           /\ Last(Head(s)) => ~Has(Tail(s), EndsAt(Head(s).to)) /\ Head(s) \in EndsAt(Head(s).to)
<1>1. /\ s \in Seq(OpsOf(t)) /\ \A i \in 1..Len(s) : Has(s, EndsAt(s[i].to))
      /\ \A i, j \in 1..Len(s) : i < j /\ Last(s[i]) => s[j].to # s[i].to
  BY Zenon DEF Closing
<1>2. /\ Tail(s) \in Seq(OpsOf(t)) /\ Head(s) \in OpsOf(t) /\ Head(s) = s[1] /\ 1 \in 1..Len(s)
      /\ \A i \in 1..Len(Tail(s)) : i + 1 \in 1..Len(s) /\ Tail(s)[i] = s[i + 1]
  BY <1>1, TailAt
<1>3. PICK r \in Seq(OpsOf(t)), o \in OpsOf(t) : r = Tail(s) /\ o = Head(s)
  BY <1>2
<1>4. \A i \in 1..Len(r) : r[i] = s[i + 1] /\ (Last(o) => r[i].to # o.to)
  <2>1. \A i \in 1..Len(r) : 1 < i + 1 /\ i + 1 \in 1..Len(s) /\ r[i] = s[i + 1]
    BY <1>2, <1>3
  <2>. QED BY <1>1, <1>2, <1>3, <2>1
<1>5. \A A : Has(s, A) => o \in A \/ Has(r, A)
  BY <1>1, <1>3, HasTail
<1>6. ASSUME NEW i \in 1..Len(r) PROVE Has(r, EndsAt(r[i].to))
  <2>1. Has(s, EndsAt(r[i].to))
    BY <1>1, <1>2, <1>3, <1>4
  <2>2. o \notin EndsAt(r[i].to)
    BY <1>4 DEF EndsAt
  <2>. QED BY <1>5, <2>1, <2>2
<1>7. ASSUME NEW i \in 1..Len(r), NEW j \in 1..Len(r), i < j, Last(r[i]) PROVE r[j].to # r[i].to
  <2>1. i + 1 \in 1..Len(s) /\ j + 1 \in 1..Len(s) /\ i + 1 < j + 1
    BY <1>2, <1>3, <1>7
  <2>. QED BY <1>1, <1>4, <1>7, <2>1
<1>8. Closing(t, r)
  BY <1>6, <1>7, Zenon DEF Closing
<1>9. Last(o) => ~Has(r, EndsAt(o.to)) /\ o \in EndsAt(o.to)
  <2>1. o \in Operations
    BY OpsFacts
  <2>. QED BY <1>4, <2>1 DEF Has, EndsAt
<1>. QED BY <1>3, <1>8, <1>9

LEMMA MoveUnfinished == ASSUME NEW t, Move(t) PROVE ~Finished(t)
  BY Zenon DEF Move

LEMMA MoveDuty ==
    ASSUME Stages, NEW t \in Threads, Move(t)
    PROVE  LET o == Head(todo[t]) IN
           /\ todo[t] # <<>> /\ o \in Operations /\ pc' = pc /\ open' = open
           /\ \A u \in Threads \ {t} : todo'[u] = todo[u] /\ \A q \in Queues : send'[u][q] = send[u][q]
           /\ \/ todo' = todo
              \/ todo'[t] = Tail(todo[t]) /\ (o \in Drains(o.from) => send'[t][o.from] = <<>>)
           /\ \A q \in Queues : send'[t][q] # <<>> => send[t][q] # <<>>
           /\ \A q \in Queues : q # o.to => queue'[q] = queue[q]
           /\ UNCHANGED <<encoder, capacity, recv, inHand, turn, row, state, writer, misses>>
<1>1. /\ todo[t] # <<>> /\ Head(todo[t]) \in Operations
      /\ \E n \in Nat : Moved(t, Head(todo[t]), n)
  BY MoveParts
<1>2. PICK o \in Operations, n \in Nat : o = Head(todo[t]) /\ Moved(t, o, n)
  BY <1>1
<1>3. /\ n <= Len(send[t][o.from])
      /\ Replaced(send, send', t, o.from, Rest(n, send[t][o.from]))
      /\ queue' = [queue EXCEPT ![o.to] = queue[o.to] \o First(n, send[t][o.from])]
      /\ todo' = [todo EXCEPT ![t] = Tail(todo[t])] \/ todo' = todo
      /\ todo' # todo /\ o.op = "drain" => n = Len(send[t][o.from])
  BY <1>2, Zenon DEF Moved
<1>4. /\ UNCHANGED <<encoder, capacity, open, recv, inHand, turn, row, pc, state, writer, misses>>
      /\ o.op = "close" => todo' = [todo EXCEPT ![t] = todo[t]]
  <2>1. /\ UNCHANGED <<encoder, capacity, open, recv, inHand, turn, row, pc, state, writer, misses>>
        /\ todo' = [todo EXCEPT ![t] = IF o.op = "close" \/ (o.op = "drain" /\ 
                       Least(Step[t], Least(Len(send[t][o.from]), capacity - Len(queue[o.to]))) < Len(send[t][o.from]))
                                       THEN todo[t] ELSE Tail(todo[t])]
    BY <1>2, Zenon DEF Move
  <2>. QED BY <2>1
<1>5. todo \in [Threads -> Seq(Operations)] /\ queue \in [Queues -> Buffer] /\ o.from \in Queues /\ o.to \in Queues
  BY OperationFacts DEF Stages, PcOK, QueueOK
<1>6. /\ send[t][o.from] \in Seq(Genuine(o.from))
      /\ n = Len(send[t][o.from]) \/ send[t][o.from] = <<>> => Rest(n, send[t][o.from]) = <<>>
  <2>1. PICK s \in Seq(Genuine(o.from)) : s = send[t][o.from]
    BY <1>5 DEF Stages, SendOK, Filled
  <2>2. n <= Len(s) /\ Len(s) \in Nat
    BY <1>3, <2>1, LenProperties
  <2>3. Rest(n, s) \in Seq(Genuine(o.from)) /\ Len(Rest(n, s)) = Len(s) - n
    BY <2>2, Pieces
  <2>4. s = <<>> => Len(s) = 0
    BY EmptySeq
  <2>5. n = Len(s) \/ s = <<>> => Len(Rest(n, s)) = 0
    BY <2>2, <2>3, <2>4
  <2>6. n = Len(s) \/ s = <<>> => Rest(n, s) = <<>>
    BY <2>3, <2>5, EmptySeq
  <2>. QED BY <2>1, <2>6
<1>7. /\ \A u \in Threads \ {t} : \A q \in Queues : send'[u][q] = send[u][q]
      /\ \A q \in Queues : send'[t][q] = IF q = o.from THEN Rest(n, send[t][o.from]) ELSE send[t][q]
  BY <1>3 DEF Replaced
<1>8. \A u \in Threads \ {t} : todo'[u] = todo[u]
  BY <1>3, <1>5
<1>9. \A q \in Queues : send'[t][q] # <<>> => send[t][q] # <<>>
  BY <1>6, <1>7
<1>10. \/ todo' = todo
       \/ todo'[t] = Tail(todo[t]) /\ (o \in Drains(o.from) => send'[t][o.from] = <<>>)
  <2>1. CASE todo' # todo
    <3>1. todo'[t] = Tail(todo[t])
      BY <1>3, <1>5, <2>1
    <3>2. o.op # "close"
      BY <1>4, <1>5, <2>1
    <3>3. o \in Drains(o.from) => o.op = "drain"
      BY <3>2 DEF Drains
    <3>4. o.op = "drain" => send'[t][o.from] = <<>>
      BY <1>3, <1>5, <1>6, <1>7, <2>1
    <3>. QED BY <3>1, <3>3, <3>4
  <2>. QED BY <2>1
<1>11. \A q \in Queues : q # o.to => queue'[q] = queue[q]
  BY <1>3, <1>5
<1>. QED BY <1>1, <1>2, <1>4, <1>7, <1>8, <1>9, <1>10, <1>11, Zenon
---------------------------------------------------------------------------------
(* Every thread does its duties, and a queue is open as long as one has not terminated it. *)

Unclosed(t, q) == Feeds(t, q) /\ (Gone(t, pc[t]) => Has(todo[t], EndsAt(q)))
Counted == /\ open \in [Queues -> Int]
           /\ \A q \in Queues : open[q] >= Cardinality({t \in Threads : Unclosed(t, q)})

\* What thread t does concerns no other thread.
Apart(t) == \A u \in Threads \ {t} : pc'[u] = pc[u] /\ todo'[u] = todo[u]

LEMMA ApartDuties ==
    ASSUME Duties, NEW t \in Threads, Apart(t), Duty(t, pc'[t], todo'[t])
    PROVE  Duties'
<1>1. ASSUME NEW u \in Threads PROVE Duty(u, pc'[u], todo'[u])
  <2>1. CASE u = t
    BY <2>1
  <2>2. CASE u # t
    <3>1. pc'[u] = pc[u] /\ todo'[u] = todo[u] /\ Duty(u, pc[u], todo[u])
      BY <2>2 DEF Apart, Duties
    <3>. QED BY <3>1
  <2>. QED BY <2>1, <2>2
<1>. QED BY <1>1 DEF Duties

LEMMA FewerOpen ==
    ASSUME NEW T \in SUBSET Threads, NEW U \in SUBSET Threads, T \subseteq U
    PROVE  Cardinality(T) \in Nat /\ Cardinality(U) \in Nat /\ Cardinality(T) <= Cardinality(U)
<1>1. IsFiniteSet(U)
  BY Lines, FS_Subset
<1>. QED BY <1>1, FS_Subset, FS_CardinalityType

LEMMA KeepsCounted ==
    ASSUME Counted, open' = open,
           \A t \in Threads, q \in Queues : Unclosed(t, q)' => Unclosed(t, q)
    PROVE  Counted'
<1>1. ASSUME NEW q \in Queues PROVE open'[q] >= Cardinality({u \in Threads : Unclosed(u, q)'})
  <2>1. \A u \in Threads : Unclosed(u, q)' => Unclosed(u, q)
    OBVIOUS
  <2>2. PICK T, U \in SUBSET Threads : /\ T = {u \in Threads : Unclosed(u, q)'} /\ T \subseteq U
                                       /\ U = {u \in Threads : Unclosed(u, q)}
    BY <2>1
  <2>3. Cardinality(T) \in Nat /\ Cardinality(U) \in Nat /\ Cardinality(T) <= Cardinality(U)
    BY <2>2, FewerOpen
  <2>4. open[q] >= Cardinality(U) /\ open[q] \in Int
    BY <2>2 DEF Counted
  <2>. QED BY <2>2, <2>3, <2>4
<1>. QED BY <1>1 DEF Counted

LEMMA ApartUnclosed ==
    ASSUME NEW t, Apart(t), NEW u \in Threads \ {t}, NEW q
    PROVE  Unclosed(u, q)' <=> Unclosed(u, q)
  BY DEF Apart, Unclosed

LEMMA ApartCounted ==
    ASSUME Counted, NEW t \in Threads, Apart(t), open' = open,
           \A q \in Queues : Unclosed(t, q)' => Unclosed(t, q)
    PROVE  Counted'
<1>1. \A u \in Threads, q \in Queues : Unclosed(u, q)' => Unclosed(u, q)
  BY ApartUnclosed
<1>. QED BY <1>1, KeepsCounted

\* A queue that a thread has not terminated is open.
LEMMA OpenWhileFed ==
    ASSUME Counted, NEW t \in Threads, NEW q \in Queues, Unclosed(t, q)
    PROVE  open[q] # 0
<1> DEFINE feeding == {u \in Threads : Unclosed(u, q)}
<1>0. feeding \in SUBSET Threads /\ t \in feeding
  OBVIOUS
<1>1. PICK T \in SUBSET Threads : T = feeding /\ t \in T
  BY <1>0
<1>2. IsFiniteSet(T)
  BY Lines, FS_Subset
<1>3. Cardinality(T) \in Nat /\ Cardinality(T) # 0
  BY <1>1, <1>2, FS_EmptySet, FS_CardinalityType
<1>4. open[q] >= Cardinality(T) /\ open[q] \in Int
  BY <1>1 DEF Counted
<1>. QED BY <1>3, <1>4

LEMMA IdleUnclosed ==
    ASSUME NEW t \in Threads, pc[t] = "run"
    PROVE  ~Gone(t, pc[t]) /\ \A q \in Queues : Unclosed(t, q)' => Unclosed(t, q)
  BY DEF Gone, Unclosed

\* What Fragment and the stages between it and Reorder do
LEMMA StageDuty ==
    ASSUME Stages, NEW t \in Threads \ {Reorderer}, Stage(t), UNCHANGED <<encoder, capacity, writer, misses>>,
           Unused(t)
    PROVE  /\ pc[t] = "run" /\ open' = open /\ Apart(t)
           /\ \/ pc'[t] = "run" /\ todo'[t] \in Seq(Enqueues(t))
              \/ /\ pc'[t] = "leave" /\ inHand[t] = <<>> /\ Final(t, todo'[t])
                 /\ UNCHANGED <<queue, send, recv, inHand>>
                 /\ t \in Workers => recv[t][Inputs[t][1]] = <<>> /\ Ended(Inputs[t][1])
           /\ \A q \in Queues : send'[t][q] = send[t][q] \/ q \in Loads(t)
           /\ \A u \in Threads \ {t} : \A q \in Queues : send'[u][q] = send[u][q]
<1>1. pc \in [Threads -> Label] /\ todo \in [Threads -> Seq(Operations)] /\ send \in Buffers
  BY DEF Stages, PcOK, SendOK, Filled
<1>2. CASE t = Fragmenter /\ Fragment
  <2>1. Idle(t) /\ UNCHANGED <<queue, open, recv, row, state>>
    BY <1>2, FragmentCases
  <2>2. /\ \/ pc' = pc /\ todo'[t] \in Seq(Enqueues(t))
           \/ /\ inHand[t] = <<>> /\ Final(t, todo'[t])
              /\ pc' = [pc EXCEPT ![t] = "leave"] /\ UNCHANGED <<send, inHand>>
        /\ \A q \in Queues : send'[t][q] = send[t][q] \/ q \in Loads(t)
    BY <1>2, FragmentDuty
  <2>3. (\E s : todo' = [todo EXCEPT ![t] = s]) /\ (send' = send \/ \E q, s : send' = [send EXCEPT ![t][q] = s])
    <3>1. CASE \E i \in DOMAIN Outputs[Fragmenter], s \in Seq(Operations) : Fragments(Outputs[Fragmenter][i], s)
      BY <1>2, <3>1, Zenon DEF Fragments
    <3>2. CASE \E s \in Seq(Operations) : Closes(s)
      BY <1>2, <3>2, Zenon DEF Closes
    <3>. QED BY <1>2, <3>1, <3>2, FragmentCases
  <2>4. \A u \in Threads \ {t} : todo'[u] = todo[u] /\ send'[u] = send[u]
    BY <1>1, <2>3 DEF Buffers
  <2>. QED BY <1>1, <1>2, <2>1, <2>2, <2>4, Lines DEF Apart, Idle
<1>3. CASE Worker(t)
  <2>1. t \in Workers /\ Idle(t)
    BY <1>3, WorkerCases
  <2>2. /\ \/ pc' = pc /\ todo'[t] \in Seq(Enqueues(t))
           \/ /\ inHand[t] = <<>> /\ recv[t][Inputs[t][1]] = <<>> /\ Ended(Inputs[t][1])
              /\ Final(t, todo'[t]) /\ pc' = [pc EXCEPT ![t] = "leave"]
              /\ UNCHANGED <<queue, open, send, recv, inHand>>
        /\ \A q \in Queues : send'[t][q] = send[t][q] \/ q \in Loads(t)
        /\ open' = open /\ \A u \in Threads \ {t} : todo'[u] = todo[u] /\ send'[u] = send[u]
    BY <1>3, WorkerDuty
  <2>. QED BY <1>1, <2>1, <2>2 DEF Apart, Idle
<1>. QED BY <1>2, <1>3, Zenon DEF Stage, Worker

LEMMA EnqueueFacts ==
    ASSUME NEW t, NEW s \in Seq(Enqueues(t)), s # <<>>
    PROVE  Head(s).op = "enqueue" /\ Head(s) \in OpsOf(t) /\ Tail(s) \in Seq(Enqueues(t))
<1>1. Head(s) \in Enqueues(t) /\ Tail(s) \in Seq(Enqueues(t))
  BY TailAt
<1>. QED BY <1>1 DEF Enqueues

\* What a thread is to do next is for a queue it has not terminated, and only leaving terminates one.
LEMMA NextOperation ==
    ASSUME Duties, NEW t \in Threads, todo[t] # <<>>
    PROVE  LET o == Head(todo[t]) IN
           /\ o \in OpsOf(t) /\ Unclosed(t, o.to)
           /\ t # Reorderer
           /\ pc[t] # "done" /\ ~(t = Fragmenter /\ pc[t] = "barrier")
           /\ Last(o) => Gone(t, pc[t]) /\ Closing(t, todo[t])
           /\ Gone(t, pc[t]) => Closing(t, todo[t]) /\ Closing(t, Tail(todo[t]))
           /\ ~Gone(t, pc[t]) => todo[t] \in Seq(Enqueues(t)) /\ Tail(todo[t]) \in Seq(Enqueues(t))
<1> DEFINE o == Head(todo[t])
<1>1. Duty(t, pc[t], todo[t])
  BY DEF Duties
<1>2. pc[t] # "done" /\ ~(t = Fragmenter /\ pc[t] = "barrier")
  BY <1>1 DEF Duty
<1>3. CASE Gone(t, pc[t])
  <2>1. Closing(t, todo[t])
    BY <1>1, <1>3 DEF Duty
  <2>2. Closing(t, Tail(todo[t])) /\ o \in OpsOf(t)
    BY <2>1, ClosingTail
  <2>3. Has(todo[t], EndsAt(o.to))
    <3>1. 1 \in 1..Len(todo[t]) /\ Head(todo[t]) = todo[t][1]
      BY <2>1, TailAt DEF Closing
    <3>. QED BY <2>1, <3>1, Zenon DEF Closing
  <2>4. Feeds(t, o.to)
    BY <2>2, OpsFacts
  <2>. QED BY <1>2, <1>3, <2>1, <2>2, <2>3, <2>4, Lines DEF Unclosed
<1>4. CASE ~Gone(t, pc[t])
  <2>1. todo[t] \in Seq(Enqueues(t))
    BY <1>1, <1>4 DEF Duty
  <2>2. o.op = "enqueue" /\ o \in OpsOf(t) /\ Tail(todo[t]) \in Seq(Enqueues(t))
    BY <2>1, EnqueueFacts
  <2>3. Feeds(t, o.to) /\ ~Last(o)
    BY <2>2, OpsFacts DEF Last
  <2>. QED BY <1>2, <1>4, <2>1, <2>2, <2>3, Lines DEF Unclosed
<1>. QED BY <1>3, <1>4

Steps == Duties /\ Counted

LEMMA StageKeepsSteps ==
    ASSUME Stages, Steps, NEW t \in Threads \ {Reorderer}, Stage(t),
           UNCHANGED <<encoder, capacity, writer, misses>>, Unused(t)
    PROVE  Steps'
<1>1. /\ pc[t] = "run" /\ open' = open /\ Apart(t)
      /\ \/ pc'[t] = "run" /\ todo'[t] \in Seq(Enqueues(t))
         \/ pc'[t] = "leave" /\ Final(t, todo'[t])
  BY StageDuty
<1>2. Duty(t, pc'[t], todo'[t])
  BY <1>1 DEF Duty, Gone, Final
<1>. QED BY <1>1, <1>2, ApartDuties, ApartCounted, IdleUnclosed DEF Steps

LEMMA MoveKeepsSteps ==
    ASSUME Stages, Steps, NEW t \in Threads, Move(t)
    PROVE  Steps'
<1>1. /\ todo[t] # <<>> /\ pc' = pc /\ open' = open
      /\ \A u \in Threads \ {t} : todo'[u] = todo[u]
      /\ todo' = todo \/ todo'[t] = Tail(todo[t])
  BY MoveDuty, Zenon
<1>2. Apart(t)
  BY <1>1 DEF Apart
<1>3. CASE todo' = todo
  <2>1. Duties' /\ Counted'
    <3>1. \A u \in Threads : Duty(u, pc'[u], todo'[u])
      BY <1>1, <1>3 DEF Steps, Duties
    <3>2. \A q \in Queues : Unclosed(t, q)' => Unclosed(t, q)
      BY <1>1, <1>3 DEF Unclosed
    <3>. QED BY <1>1, <1>2, <3>1, <3>2, ApartCounted DEF Steps, Duties
  <2>. QED BY <2>1 DEF Steps
<1>4. CASE todo'[t] = Tail(todo[t])
  <2>1. Duty(t, pc'[t], todo'[t])
    <3>1. /\ pc[t] # "done" /\ ~(t = Fragmenter /\ pc[t] = "barrier")
          /\ Gone(t, pc[t]) => Closing(t, Tail(todo[t]))
          /\ ~Gone(t, pc[t]) => Tail(todo[t]) \in Seq(Enqueues(t))
      BY <1>1, NextOperation DEF Steps
    <3>. QED BY <1>1, <1>4, <3>1 DEF Duty
  <2>2. \A A : Has(todo'[t], A) => Has(todo[t], A)
    <3>1. todo[t] \in Seq(Operations)
      BY DEF Stages, PcOK
    <3>. QED BY <1>1, <1>4, <3>1, HasTail
  <2>3. \A q \in Queues : Unclosed(t, q)' => Unclosed(t, q)
    BY <1>1, <2>2 DEF Unclosed
  <2>. QED BY <1>1, <1>2, <2>1, <2>3, ApartDuties, ApartCounted DEF Steps
<1>. QED BY <1>1, <1>3, <1>4

LEMMA TerminateKeepsSteps ==
    ASSUME Stages, Steps, NEW t \in Threads, Terminate(t)
    PROVE  /\ Steps' /\ Gone(t, pc[t]) /\ Gone(t, pc'[t]) /\ Apart(t)
           /\ todo[t] # <<>> /\ todo'[t] = Tail(todo[t]) /\ Head(todo[t]) \in OpsOf(t)
           /\ Head(todo[t]).op = "end" \/ send[t][Head(todo[t]).from] = <<>>
<1> DEFINE o == Head(todo[t])
<1>1. /\ todo[t] # <<>> /\ Last(o) /\ (o.op = "end" \/ send[t][o.from] = <<>>)
      /\ open' = [open EXCEPT ![o.to] = open[o.to] - 1]
      /\ todo' = [todo EXCEPT ![t] = Tail(todo[t])]
      /\ \E l \in {pc[t], "barrier", "done"} :
            /\ pc' = [pc EXCEPT ![t] = l]
            /\ l # pc[t] => Tail(todo[t]) = <<>> /\ (l = "barrier" => t = Fragmenter)
  BY DEF Terminate, Finished, Last
<1>2. pc \in [Threads -> Label] /\ todo \in [Threads -> Seq(Operations)] /\ o.to \in Queues
  BY <1>1, NextOperation, OpsFacts DEF Stages, PcOK, Steps
<1>3. PICK l \in {pc[t], "barrier", "done"} :
          /\ pc' = [pc EXCEPT ![t] = l]
          /\ l # pc[t] => Tail(todo[t]) = <<>> /\ (l = "barrier" => t = Fragmenter)
  BY <1>1
<1>4. Apart(t) /\ pc'[t] = l /\ todo'[t] = Tail(todo[t])
  BY <1>1, <1>2, <1>3 DEF Apart
<1>5. /\ o \in OpsOf(t) /\ Unclosed(t, o.to) /\ Gone(t, pc[t])
      /\ pc[t] # "done" /\ ~(t = Fragmenter /\ pc[t] = "barrier")
      /\ Closing(t, todo[t]) /\ Closing(t, Tail(todo[t]))
  BY <1>1, NextOperation DEF Steps
<1>6. Gone(t, l)
  BY <1>3, <1>5 DEF Gone
<1>7. Duty(t, l, Tail(todo[t]))
  BY <1>3, <1>5, <1>6 DEF Duty
<1>8. Duties'
  BY <1>4, <1>7, ApartDuties DEF Steps
<1>a. PICK to \in Queues : to = o.to
  BY <1>2
<1>9. ~Unclosed(t, to)' /\ \A q \in Queues : Unclosed(t, q)' => Unclosed(t, q)
  <2>1. ~Has(Tail(todo[t]), EndsAt(to))
    BY <1>1, <1>5, <1>a, ClosingTail
  <2>2. \A A : Has(Tail(todo[t]), A) => Has(todo[t], A)
    BY <1>1, <1>2, HasTail
  <2>3. \A q : Unclosed(t, q)' <=> Feeds(t, q) /\ Has(Tail(todo[t]), EndsAt(q))
    <3>1. \A q : Unclosed(t, q)' <=> Feeds(t, q) /\ (Gone(t, pc'[t]) => Has(todo'[t], EndsAt(q)))
      BY DEF Unclosed
    <3>. QED BY <1>4, <1>6, <3>1
  <2>. QED BY <2>1, <2>2, <2>3 DEF Unclosed
<1>10. Counted'
  <2>1. open \in [Queues -> Int] /\ \A q \in Queues : open[q] >= Cardinality({u \in Threads : Unclosed(u, q)})
    BY DEF Steps, Counted
  <2>2. \A u \in Threads, q \in Queues : Unclosed(u, q)' => Unclosed(u, q)
    BY <1>4, <1>9, ApartUnclosed
  <2>3. ASSUME NEW q \in Queues PROVE open'[q] >= Cardinality({u \in Threads : Unclosed(u, q)'})
    <3> DEFINE before == {u \in Threads : Unclosed(u, q)}
               after == {u \in Threads : Unclosed(u, q)'}
    <3>0. /\ before \in SUBSET Threads /\ after \in SUBSET Threads /\ after \subseteq before
          /\ q = to => t \in before /\ t \notin after
      BY <1>5, <1>9, <1>a, <2>2
    <3>1. PICK T, U \in SUBSET Threads : T = after /\ T \subseteq U /\ U = before
                                         /\ (q = to => t \in U /\ t \notin T)
      BY <3>0
    <3>2. Cardinality(T) \in Nat /\ Cardinality(U) \in Nat /\ Cardinality(T) <= Cardinality(U)
      BY <3>1, FewerOpen
    <3>3. open[q] >= Cardinality(U) /\ open[q] \in Int
      BY <2>1, <3>1
    <3>4. CASE q # to
      <4>1. open'[q] = open[q]
        BY <1>1, <1>a, <2>1, <3>4
      <4>. QED BY <3>1, <3>2, <3>3, <4>1
    <3>5. CASE q = to
      <4>1. open'[q] = open[q] - 1
        BY <1>1, <1>a, <2>1, <3>5
      <4>2. T \subseteq U \ {t} /\ U \ {t} \in SUBSET Threads /\ IsFiniteSet(U) /\ t \in U
        BY <3>1, <3>5, Lines, FS_Subset
      <4>3. Cardinality(U \ {t}) = Cardinality(U) - 1
        BY <4>2, FS_RemoveElement
      <4>4. Cardinality(T) <= Cardinality(U \ {t}) /\ Cardinality(U \ {t}) \in Nat
        BY <4>2, FewerOpen
      <4>. QED BY <3>1, <3>2, <3>3, <4>1, <4>3, <4>4
    <3>. QED BY <3>4, <3>5
  <2>4. open' \in [Queues -> Int]
    BY <1>1, <1>2, <2>1
  <2>. QED BY <2>3, <2>4 DEF Counted
<1>. QED BY <1>1, <1>4, <1>5, <1>6, <1>8, <1>10 DEF Steps

LEMMA EmptyClosing == \A t : Closing(t, <<>>) /\ <<>> \in Seq(Enqueues(t))
<1>1. \A S : <<>> \in Seq(S) /\ \A i \in 1..Len(<<>>) : FALSE
  BY EmptySeq
<1>. QED BY <1>1 DEF Closing

LEMMA BarrierKeepsSteps ==
    ASSUME Stages, Steps, Barrier
    PROVE  Steps' /\ \A t \in Threads : Gone(t, pc'[t]) <=> Gone(t, pc[t])
<1>1. /\ \A t \in Threads : pc[t] = "barrier" /\ pc'[t] = IF t = Fragmenter THEN "done" ELSE "run"
      /\ UNCHANGED <<todo, open>>
  BY DEF Barrier
<1>2. \A t \in Threads : Gone(t, pc'[t]) <=> Gone(t, pc[t])
  BY <1>1 DEF Gone
<1>3. ASSUME NEW t \in Threads PROVE Duty(t, pc'[t], todo'[t])
  <2>1. Duty(t, pc[t], todo[t])
    BY DEF Steps, Duties
  <2>. QED BY <1>1, <1>2, <2>1 DEF Duty
<1>4. \A t \in Threads, q \in Queues : Unclosed(t, q)' => Unclosed(t, q)
  BY <1>1, <1>2 DEF Unclosed
<1>. QED BY <1>1, <1>2, <1>3, <1>4, KeepsCounted DEF Steps, Duties

\* Reorder has no queue to fill.
LEMMA ReorderKeepsSteps ==
    ASSUME Stages, Steps, NEW l, pc' = [pc EXCEPT ![Reorderer] = l], UNCHANGED <<todo, open>>
    PROVE  Steps' /\ \A t \in Threads \ {Reorderer} : pc'[t] = pc[t]
<1>1. Reorderer \in Threads /\ pc \in [Threads -> Label]
  BY Wired DEF Stages, PcOK
<1>2. todo[Reorderer] = <<>>
  BY <1>1, NextOperation DEF Steps
<1>3. Duty(Reorderer, l, <<>>)
  BY EmptyClosing DEF Duty
<1>4. Apart(Reorderer) /\ pc'[Reorderer] = l /\ todo'[Reorderer] = <<>>
  BY <1>1, <1>2 DEF Apart
<1>5. \A q \in Queues : ~Unclosed(Reorderer, q)'
  BY Lines DEF Unclosed
<1>6. Duties' /\ Counted'
  BY <1>1, <1>3, <1>4, <1>5, ApartDuties, ApartCounted DEF Steps
<1>. QED BY <1>4, <1>6 DEF Steps, Apart
---------------------------------------------------------------------------------
(* Who holds chunks: a thread that left has none, and a queue it took them from has ended. *)

SendHeld == \A t \in Threads, q \in Queues :
                send[t][q] # <<>> => q \in Loads(t) /\ (Gone(t, pc[t]) => Has(todo[t], Drains(q)))
RecvHeld == \A t \in Threads, q \in Queues :
                recv[t][q] # <<>> => q \in Asked(t) /\ (t # Reorderer => ~Gone(t, pc[t]))
HandHeld == \A t \in Threads :
                inHand[t] # <<>> => t \in {Fragmenter} \cup Refiners /\ ~Gone(t, pc[t])
Drained == /\ \A q \in Queues : queue[q] # <<>> => Served(q)
           /\ \A t \in Workers : Gone(t, pc[t]) => Ended(Inputs[t][1])

\* How many times Reorder has asked another queue since it asked its i-th one
Ago(i) == IF i < turn[Reorderer] THEN turn[Reorderer] - i ELSE turn[Reorderer] - i + Len(Inputs[Reorderer])

Missed == /\ misses \in Nat
          /\ IF pc[Reorderer] \in {"run", "barrier"} THEN misses < Len(Inputs[Reorderer])
             ELSE misses = Len(Inputs[Reorderer])
          /\ \A i \in DOMAIN Inputs[Reorderer] :
                Ago(i) <= misses => Ended(Inputs[Reorderer][i]) /\ recv[Reorderer][Inputs[Reorderer][i]] = <<>>
          /\ pc[Reorderer] = "done" => tree = TreeMakeEmpty /\ hold = <<>>

Flow == SendHeld /\ RecvHeld /\ HandHeld /\ Drained

LEMMA InputFacts ==
    /\ \A t \in Workers : Inputs[t][1] \in Queues /\ Asked(t) = {Inputs[t][1]}
    /\ \A i \in DOMAIN Inputs[Reorderer] : Inputs[Reorderer][i] \in Queues
    /\ Asked(Reorderer) = {Inputs[Reorderer][i] : i \in DOMAIN Inputs[Reorderer]}
    /\ Asked(Fragmenter) = {}
<1>1. \A t \in Workers : Inputs[t][1] \in Queues /\ t \in Threads
  BY Wired DEF Workers
<1>2. \A i \in DOMAIN Inputs[Reorderer] : Inputs[Reorderer][i] \in Queues
  BY Wired
<1>. QED BY <1>1, <1>2, Lines, Wired DEF Asked, QueuesOf

\* What the stages receive and hold
LEMMA StageTakes ==
    ASSUME Stages, NEW t \in Threads \ {Reorderer}, Stage(t)
    PROVE  /\ \A u \in Threads, q \in Queues :
                 recv'[u][q] = recv[u][q] \/ (u = t /\ t \in Workers /\ q = Inputs[t][1])
           /\ \A u \in Threads : inHand'[u] = inHand[u] \/ (u = t /\ t \in {Fragmenter} \cup Refiners)
           /\ \A q \in Queues : queue'[q] = queue[q] \/ queue[q] # <<>>
<1> DEFINE in == Inputs[t][1]
           goal == /\ \A u \in Threads, q \in Queues :
                         recv'[u][q] = recv[u][q] \/ (u = t /\ t \in Workers /\ q = Inputs[t][1])
                   /\ \A u \in Threads : inHand'[u] = inHand[u] \/ (u = t /\ t \in {Fragmenter} \cup Refiners)
                   /\ \A q \in Queues : queue'[q] = queue[q] \/ queue[q] # <<>>
<1>1. /\ recv \in Buffers /\ inHand \in [Threads -> Buffer] /\ queue \in [Queues -> Buffer]
      /\ \A f, u, q, e : f \in Buffers => \A v \in Threads, r \in Queues :
            [f EXCEPT ![u][q] = e][v][r] = f[v][r] \/ (v = u /\ r = q)
  BY DEF Stages, RecvOK, Filled, HandOK, QueueOK, Buffers
<1>2. CASE t = Fragmenter /\ Fragment
  <2>1. UNCHANGED <<queue, recv>> /\ (UNCHANGED inHand \/ \E s : inHand' = [inHand EXCEPT ![t] = s])
    <3>1. CASE \E i \in DOMAIN Outputs[Fragmenter], s \in Seq(Operations) : Fragments(Outputs[Fragmenter][i], s)
      BY <1>2, <3>1, FragmentCases DEF Fragments, Cut
    <3>2. CASE \E s \in Seq(Operations) : Closes(s)
      BY <1>2, <3>2, FragmentCases DEF Closes
    <3>. QED BY <1>2, <3>1, <3>2, FragmentCases
  <2>. QED BY <1>1, <1>2, <2>1
<1>3. CASE Worker(t)
  <2>1. t \in Workers /\ (Receive(t) \/ (\E s \in Seq(Own) : Leave(t, s)) \/ Works(t))
    BY <1>3, WorkerCases
  <2>2. CASE Receive(t)
    <3>1. PICK q, x, y : /\ q = in /\ queue[q] # <<>> /\ queue' = [queue EXCEPT ![q] = x]
                         /\ recv' = [recv EXCEPT ![t][q] = y] /\ inHand' = inHand
      BY <2>2, Zenon DEF Receive, Dequeue
    <3>2. \A r \in Queues : queue'[r] = queue[r] \/ queue[r] # <<>>
      BY <1>1, <3>1
    <3>3. \A v \in Threads, r \in Queues : recv'[v][r] = recv[v][r] \/ (v = t /\ r = q)
      BY <1>1, <3>1
    <3>. QED BY <2>1, <3>1, <3>2, <3>3
  <2>3. CASE \E s \in Seq(Own) : Leave(t, s)
    BY <2>3 DEF Leave
  <2>4. CASE Works(t)
    <3>1. /\ queue' = queue
          /\ recv' = recv \/ recv' = [recv EXCEPT ![t][in] = Tail(recv[t][in])]
          /\ inHand' = inHand \/ (t \in Refiners /\ \E s : inHand' = [inHand EXCEPT ![t] = s])
      BY <2>4, Zenon DEF Works, RefineChunk, DeduplicateChunk, CompressChunk, CrossPop
    <3>2. PICK q, y : q = in /\ (recv' = recv \/ recv' = [recv EXCEPT ![t][q] = y])
      BY <3>1
    <3>3. \A v \in Threads, r \in Queues : recv'[v][r] = recv[v][r] \/ (v = t /\ r = q)
      <4>1. ASSUME recv' = [recv EXCEPT ![t][q] = y]
            PROVE  \A v \in Threads, r \in Queues : recv'[v][r] = recv[v][r] \/ (v = t /\ r = q)
        BY <1>1, <4>1
      <4>. QED BY <3>2, <4>1
    <3>4. \A u \in Threads : inHand'[u] = inHand[u] \/ (u = t /\ t \in {Fragmenter} \cup Refiners)
      BY <1>1, <3>1
    <3>. QED BY <2>1, <3>1, <3>2, <3>3, <3>4
  <2>. QED BY <2>1, <2>2, <2>3, <2>4
<1>. QED BY <1>2, <1>3, Zenon DEF Stage, Worker

\* A queue that has ended gets no more chunks.
LEMMA EndedStays ==
    ASSUME Counted,
           \A q \in Queues : \/ queue'[q] = queue[q] /\ open'[q] = open[q]
                             \/ queue[q] # <<>>
                             \/ \E t \in Threads : Unclosed(t, q)
    PROVE  \A q \in Queues : Ended(q) => Ended(q)'
  BY OpenWhileFed DEF Ended

LEMMA StageKeepsFlow ==
    ASSUME Stages, Steps, Flow, NEW t \in Threads \ {Reorderer}, Stage(t),
           UNCHANGED <<encoder, capacity, writer, misses>>
    PROVE  Flow' /\ Unused(t) /\ \A q \in Queues : Ended(q) => Ended(q)'
<1>1. Unused(t)
  BY DEF Flow, SendHeld, Unused
<1>2. /\ pc[t] = "run" /\ open' = open /\ Apart(t)
      /\ \/ pc'[t] = "run"
         \/ /\ pc'[t] = "leave" /\ inHand[t] = <<>> /\ Final(t, todo'[t])
            /\ UNCHANGED <<queue, send, recv, inHand>>
            /\ t \in Workers => recv[t][Inputs[t][1]] = <<>> /\ Ended(Inputs[t][1])
      /\ \A q \in Queues : send'[t][q] = send[t][q] \/ q \in Loads(t)
      /\ \A u \in Threads \ {t} : \A q \in Queues : send'[u][q] = send[u][q]
  BY <1>1, StageDuty
<1>3. /\ \A u \in Threads, q \in Queues :
            recv'[u][q] = recv[u][q] \/ (u = t /\ t \in Workers /\ q = Inputs[t][1])
      /\ \A u \in Threads : inHand'[u] = inHand[u] \/ (u = t /\ t \in {Fragmenter} \cup Refiners)
      /\ \A q \in Queues : queue'[q] = queue[q] \/ queue[q] # <<>>
  BY StageTakes
<1>4. \A q \in Queues : Ended(q) => Ended(q)'
  BY <1>2, <1>3, EndedStays DEF Steps
<1>5. \A u \in Threads : Loads(u)' = Loads(u)
  BY DEF Loads
<1>6. ASSUME NEW u \in Threads \ {t} PROVE pc'[u] = pc[u] /\ todo'[u] = todo[u]
  BY <1>2 DEF Apart
<1>7. pc'[t] = "run" => ~Gone(t, pc'[t])
  BY DEF Gone
<1>8. SendHeld'
  <2>1. ASSUME NEW u \in Threads, NEW q \in Queues, send'[u][q] # <<>>
        PROVE  q \in Loads(u) /\ (Gone(u, pc'[u]) => Has(todo'[u], Drains(q)))
    <3>1. CASE u # t
      BY <1>2, <1>6, <2>1, <3>1 DEF Flow, SendHeld
    <3>2. CASE u = t /\ pc'[t] = "run"
      BY <1>1, <1>2, <1>7, <2>1, <3>2 DEF Unused
    <3>3. CASE u = t /\ Final(t, todo'[t]) /\ send' = send
      BY <1>1, <2>1, <3>3 DEF Unused, Final
    <3>. QED BY <1>2, <3>1, <3>2, <3>3
  <2>. QED BY <1>5, <2>1 DEF SendHeld
<1>9. RecvHeld'
  <2>1. ASSUME NEW u \in Threads, NEW q \in Queues, recv'[u][q] # <<>>
        PROVE  q \in Asked(u) /\ (u # Reorderer => ~Gone(u, pc'[u]))
    <3>1. CASE u # t
      BY <1>3, <1>6, <2>1, <3>1 DEF Flow, RecvHeld
    <3>2. CASE u = t /\ pc'[t] = "run"
      BY <1>3, <1>7, <2>1, <3>2, InputFacts DEF Flow, RecvHeld
    <3>3. CASE u = t /\ recv' = recv /\ (t \in Workers => recv[t][Inputs[t][1]] = <<>>)
      <4>1. q \in Asked(t)
        BY <2>1, <3>3 DEF Flow, RecvHeld
      <4>2. t \in Workers \/ t = Fragmenter
        BY Lines
      <4>. QED BY <2>1, <3>3, <4>1, <4>2, InputFacts
    <3>. QED BY <1>2, <3>1, <3>2, <3>3
  <2>. QED BY <2>1 DEF RecvHeld
<1>10. HandHeld'
  <2>1. ASSUME NEW u \in Threads, inHand'[u] # <<>>
        PROVE  u \in {Fragmenter} \cup Refiners /\ ~Gone(u, pc'[u])
    <3>1. CASE u # t
      BY <1>3, <1>6, <2>1, <3>1 DEF Flow, HandHeld
    <3>2. CASE u = t /\ pc'[t] = "run"
      BY <1>3, <1>7, <2>1, <3>2 DEF Flow, HandHeld
    <3>. QED BY <1>2, <2>1, <3>1, <3>2
  <2>. QED BY <2>1 DEF HandHeld
<1>11. Drained'
  <2>1. \A q \in Queues : queue'[q] # <<>> => Served(q)
    BY <1>3 DEF Flow, Drained
  <2>2. ASSUME NEW u \in Workers, Gone(u, pc'[u]) PROVE Ended(Inputs[u][1])'
    <3>1. u \in Threads /\ Inputs[u][1] \in Queues
      BY Lines, InputFacts
    <3>2. Ended(Inputs[u][1])
      <4>1. CASE u # t
        BY <1>6, <2>2, <3>1, <4>1 DEF Flow, Drained
      <4>2. CASE u = t
        BY <1>2, <1>7, <2>2, <4>2
      <4>. QED BY <4>1, <4>2
    <3>. QED BY <1>4, <3>1, <3>2
  <2>. QED BY <2>1, <2>2 DEF Drained, Served
<1>. QED BY <1>1, <1>4, <1>8, <1>9, <1>10, <1>11 DEF Flow

LEMMA MoveKeepsFlow ==
    ASSUME Stages, Steps, Flow, NEW t \in Threads, Move(t)
    PROVE  Flow' /\ Apart(t) /\ \A q \in Queues : Ended(q) => Ended(q)'
<1>1. PICK o \in Operations :
          /\ o = Head(todo[t]) /\ todo[t] # <<>> /\ pc' = pc /\ open' = open
          /\ \A u \in Threads \ {t} : todo'[u] = todo[u] /\ \A q \in Queues : send'[u][q] = send[u][q]
          /\ \/ todo' = todo
             \/ todo'[t] = Tail(todo[t]) /\ (o \in Drains(o.from) => send'[t][o.from] = <<>>)
          /\ \A q \in Queues : send'[t][q] # <<>> => send[t][q] # <<>>
          /\ \A q \in Queues : q # o.to => queue'[q] = queue[q]
          /\ UNCHANGED <<encoder, capacity, recv, inHand, turn, row, state, writer, misses>>
  BY MoveDuty, Zenon
<1>2. /\ o \in OpsOf(t) /\ Unclosed(t, o.to)
      /\ todo[t] \in Seq(Operations)
  BY <1>1, NextOperation DEF Steps, Stages, PcOK
<1>3. Apart(t)
  BY <1>1 DEF Apart
<1>4. \A q \in Queues : Ended(q) => Ended(q)'
  <2>1. \A q \in Queues : (queue'[q] = queue[q] /\ open'[q] = open[q]) \/ Unclosed(t, q)
    BY <1>1, <1>2
  <2>. QED BY <2>1, EndedStays DEF Steps
<1>5. \A u \in Threads : Loads(u)' = Loads(u)
  BY <1>1 DEF Loads
<1>6. SendHeld'
  <2>1. ASSUME NEW u \in Threads, NEW q \in Queues, send'[u][q] # <<>>
        PROVE  q \in Loads(u) /\ (Gone(u, pc'[u]) => Has(todo'[u], Drains(q)))
    <3>1. CASE u # t
      BY <1>1, <2>1, <3>1 DEF Flow, SendHeld
    <3>2. CASE u = t
      <4>1. q \in Loads(t) /\ (Gone(t, pc'[t]) => Has(todo[t], Drains(q)))
        BY <1>1, <2>1, <3>2 DEF Flow, SendHeld
      <4>2. CASE todo' = todo
        BY <3>2, <4>1, <4>2
      <4>3. CASE todo'[t] = Tail(todo[t]) /\ (o \in Drains(o.from) => send'[t][o.from] = <<>>)
        <5>1. o \notin Drains(q)
          <6>1. o \in Drains(q) => o.from = q
            BY DEF Drains
          <6>. QED BY <2>1, <3>2, <4>3, <6>1
        <5>2. Has(todo[t], Drains(q)) => Has(Tail(todo[t]), Drains(q))
          BY <1>1, <1>2, <5>1, HasTail
        <5>. QED BY <3>2, <4>1, <4>3, <5>2
      <4>. QED BY <1>1, <4>2, <4>3
    <3>. QED BY <3>1, <3>2
  <2>. QED BY <1>5, <2>1 DEF SendHeld
<1>7. RecvHeld' /\ HandHeld'
  BY <1>1 DEF Flow, RecvHeld, HandHeld, Asked
<1>8. Served(o.to)
  <2>1. o.op # "end"
    <3>1. ~Finished(t)
      BY MoveUnfinished, Zenon
    <3>. QED BY ONLY <1>1, <3>1, Zenon DEF Finished
  <2>2. o.to \in Fills(t)
    BY <1>2, <2>1 DEF OpsOf
  <2>. QED BY <2>2, Lines
<1>9. Drained'
  <2>1. \A q \in Queues : queue'[q] # <<>> => Served(q)
    BY <1>1, <1>8 DEF Flow, Drained
  <2>2. ASSUME NEW u \in Workers, Gone(u, pc'[u]) PROVE Ended(Inputs[u][1])'
    <3>1. Inputs[u][1] \in Queues /\ Ended(Inputs[u][1])
      BY <1>1, <2>2, InputFacts DEF Flow, Drained
    <3>. QED BY <1>4, <3>1
  <2>. QED BY <2>1, <2>2 DEF Drained, Served
<1>. QED BY <1>3, <1>4, <1>6, <1>7, <1>9 DEF Flow

LEMMA TerminateKeepsFlow ==
    ASSUME Stages, Steps, Flow, NEW t \in Threads, Terminate(t)
    PROVE  Flow' /\ \A q \in Queues : Ended(q) => Ended(q)'
<1>1. PICK o \in OpsOf(t) :
          /\ o = Head(todo[t]) /\ Gone(t, pc[t]) /\ Gone(t, pc'[t]) /\ Apart(t)
          /\ todo[t] # <<>> /\ todo'[t] = Tail(todo[t])
          /\ o.op = "end" \/ send[t][o.from] = <<>>
  BY TerminateKeepsSteps
<1>2. /\ UNCHANGED <<encoder, capacity, queue, send, recv, inHand, turn, row, state, writer, misses>>
      /\ open' = [open EXCEPT ![o.to] = open[o.to] - 1]
  BY <1>1 DEF Terminate
<1>3. Unclosed(t, o.to) /\ todo[t] \in Seq(Operations) /\ open \in [Queues -> Int]
  BY <1>1, NextOperation DEF Steps, Counted, Stages, PcOK
<1>4. \A q \in Queues : Ended(q) => Ended(q)'
  <2>1. \A q \in Queues : (queue'[q] = queue[q] /\ open'[q] = open[q]) \/ Unclosed(t, q)
    BY <1>2, <1>3
  <2>. QED BY <2>1, EndedStays DEF Steps
<1>5. \A u \in Threads \ {t} : pc'[u] = pc[u] /\ todo'[u] = todo[u]
  BY <1>1 DEF Apart
<1>6. \A u \in Threads : Gone(u, pc'[u]) <=> Gone(u, pc[u])
  BY <1>1, <1>5
<1>7. ASSUME NEW u \in Threads, NEW q \in Queues, send'[u][q] # <<>>
      PROVE  q \in Loads(u)' /\ (Gone(u, pc'[u]) => Has(todo'[u], Drains(q)))
  <2>1. q \in Loads(u) /\ (Gone(u, pc[u]) => Has(todo[u], Drains(q))) /\ Loads(u)' = Loads(u)
    BY <1>2, <1>7 DEF Flow, SendHeld, Loads
  <2>2. CASE u = t
    <3>1. o \notin Drains(q)
      BY <1>1, <1>2, <1>7, <2>2 DEF Drains
    <3>2. Has(todo[t], Drains(q)) => Has(Tail(todo[t]), Drains(q))
      BY <1>1, <1>3, <3>1, HasTail
    <3>. QED BY <1>1, <2>1, <2>2, <3>2
  <2>. QED BY <1>5, <1>6, <2>1, <2>2
<1>8. SendHeld'
  BY <1>7 DEF SendHeld
<1>9. RecvHeld' /\ HandHeld'
  BY <1>2, <1>6 DEF Flow, RecvHeld, HandHeld, Asked
<1>10. ASSUME NEW u \in Workers, Gone(u, pc'[u]) PROVE Ended(Inputs[u][1])'
  <2>1. Inputs[u][1] \in Queues /\ u \in Threads
    BY InputFacts, Lines
  <2>2. Ended(Inputs[u][1])
    BY <1>6, <1>10, <2>1 DEF Flow, Drained
  <2>. QED BY <1>4, <2>1, <2>2
<1>11. Drained'
  BY <1>2, <1>10 DEF Flow, Drained, Served
<1>. QED BY <1>4, <1>8, <1>9, <1>11 DEF Flow

LEMMA BarrierKeepsFlow ==
    ASSUME Stages, Steps, Flow, Barrier
    PROVE  Flow' /\ \A q \in Queues : Ended(q) => Ended(q)'
<1>1. \A u \in Threads : Gone(u, pc'[u]) <=> Gone(u, pc[u])
  BY BarrierKeepsSteps
<1>2. UNCHANGED <<encoder, queue, open, send, recv, inHand, todo>>
  BY DEF Barrier
<1>3. \A u \in Threads : Loads(u)' = Loads(u)
  BY <1>2 DEF Loads
<1>4. SendHeld' /\ RecvHeld' /\ HandHeld'
  <2>1. SendHeld /\ RecvHeld /\ HandHeld
    BY DEF Flow
  <2>2. SendHeld'
    BY <1>1, <1>2, <1>3, <2>1 DEF SendHeld
  <2>3. RecvHeld'
    BY <1>1, <1>2, <2>1 DEF RecvHeld, Asked
  <2>4. HandHeld'
    BY <1>1, <1>2, <2>1 DEF HandHeld
  <2>. QED BY <2>2, <2>3, <2>4
<1>5. \A q \in Queues : Ended(q)' <=> Ended(q)
  BY <1>2 DEF Ended
<1>6. ASSUME NEW u \in Workers, Gone(u, pc'[u]) PROVE Ended(Inputs[u][1])'
  <2>1. Inputs[u][1] \in Queues /\ u \in Threads
    BY InputFacts, Lines
  <2>. QED BY <1>1, <1>5, <1>6, <2>1 DEF Flow, Drained
<1>7. Drained'
  BY <1>2, <1>6 DEF Flow, Drained, Served
<1>. QED BY <1>4, <1>5, <1>7 DEF Flow

\* What Reorder does to the stages: it takes chunks of queues it asks.
LEMMA ReorderKeepsFlow ==
    ASSUME Flow, NEW l, pc \in [Threads -> Label], pc' = [pc EXCEPT ![Reorderer] = l],
           UNCHANGED <<encoder, todo, open, send, inHand>>,
           \A u \in Threads, q \in Queues :
               recv'[u][q] = recv[u][q] \/ recv'[u][q] = <<>> \/ (u = Reorderer /\ q \in Asked(Reorderer)),
           \A q \in Queues : queue'[q] = queue[q] \/ queue[q] # <<>>
    PROVE  Flow' /\ \A q \in Queues : Ended(q) => Ended(q)'
<1>1. \A u \in Threads \ {Reorderer} : pc'[u] = pc[u]
  OBVIOUS
<1>2. \A u \in Threads : Loads(u)' = Loads(u)
  BY DEF Loads
<1>3. \A q \in Queues : Ended(q) => Ended(q)'
  BY DEF Ended
<1>4. Loads(Reorderer) = {} /\ Reorderer \notin {Fragmenter} \cup Refiners
  BY Lines, Wired DEF Loads, Fills, Workers
<1>5. SendHeld' /\ HandHeld'
  BY <1>1, <1>2, <1>4 DEF Flow, SendHeld, HandHeld
<1>6. RecvHeld'
  BY <1>1 DEF Flow, RecvHeld, Asked
<1>7. ASSUME NEW u \in Workers, Gone(u, pc'[u]) PROVE Ended(Inputs[u][1])'
  <2>1. Inputs[u][1] \in Queues /\ u \in Threads \ {Reorderer}
    BY InputFacts, Lines
  <2>. QED BY <1>1, <1>3, <1>7, <2>1 DEF Flow, Drained
<1>8. Drained'
  BY <1>7 DEF Flow, Drained, Served
<1>. QED BY <1>3, <1>5, <1>6, <1>8 DEF Flow
---------------------------------------------------------------------------------
(* Reorder stops asking when all its queues have ended, and then it has what was in them. *)

\* Only Fragment and Reorder have a turn.
LEMMA StageTurn ==
    ASSUME Stages, NEW t \in Threads, Stage(t)
    PROVE  turn'[Reorderer] = turn[Reorderer]
<1>1. DOMAIN turn = {Fragmenter, Reorderer} /\ Fragmenter # Reorderer
  BY Wired DEF Stages, TurnOK
<1>2. CASE t = Fragmenter /\ Fragment
  <2>1. turn' = turn \/ \E j : turn' = [turn EXCEPT ![Fragmenter] = j]
    BY <1>2, Zenon DEF Fragment, FragmentDefault, FragmentNaiveQueue, FragmentSmart, FragmentFifo,
                       SendNext, TurnInSteps, CloseQueues
  <2>. QED BY <1>1, <2>1
<1>3. CASE Worker(t)
  <2>1. Receive(t) \/ (\E s \in Seq(Own) : Leave(t, s)) \/ Works(t)
    BY <1>3, WorkerCases
  <2>. QED BY <2>1, Zenon DEF Receive, Leave, Works, RefineChunk, DeduplicateChunk, CompressChunk, CrossPop
<1>. QED BY <1>2, <1>3, Zenon DEF Stage, Worker

\* The queue in turn, and the next one
LEMMA TurnFacts ==
    ASSUME TurnOK
    PROVE  /\ Inputs[Reorderer][turn[Reorderer]] \in Queues
           /\ turn[Reorderer] \in DOMAIN Inputs[Reorderer]
           /\ Len(Inputs[Reorderer]) \in Nat \ {0}
           /\ DOMAIN Inputs[Reorderer] = 1..Len(Inputs[Reorderer])
           /\ turn \in [{Fragmenter, Reorderer} -> Nat]
  BY InputFacts, Wired DEF TurnOK

\* A dequeue, an ended queue, or a chunk
LEMMA ReadDuty ==
    ASSUME Stages, Read
    PROVE  LET i == turn[Reorderer]
               n == Len(Inputs[Reorderer])
           IN /\ pc[Reorderer] = "run" /\ hold = <<>> /\ TurnOK'
              /\ UNCHANGED <<encoder, capacity, open, send, inHand, todo, state, next, archive>>
              /\ \/ \E j \in DOMAIN Inputs[Reorderer] :
                       /\ Takes(Inputs[Reorderer][j]) /\ recv[Reorderer][Inputs[Reorderer][j]] = <<>>
                       /\ misses' = 0 \/ UNCHANGED <<misses, turn>>
                 \/ /\ Finds /\ Ended(Inputs[Reorderer][i]) /\ recv[Reorderer][Inputs[Reorderer][i]] = <<>>
                    /\ misses' = misses + 1
                    /\ turn' = [turn EXCEPT ![Reorderer] = (i % n) + 1]
                    /\ pc' = [pc EXCEPT ![Reorderer] = IF misses' = n THEN "flush" ELSE pc[Reorderer]]
                 \/ misses' = 0 /\ UNCHANGED pc /\ \E q \in Queues : Accept(q)
<1> DEFINE i == turn[Reorderer]
           q == Inputs[Reorderer][i]
           n == Len(Inputs[Reorderer])
<1>1. /\ pc[Reorderer] = "run" /\ hold = <<>> /\ TurnOK'
      /\ UNCHANGED <<encoder, capacity, open, send, inHand, todo, state, next, archive>>
  BY ReadCases
<1>2. \/ recv[Reorderer][q] = <<>> /\ Ask
      \/ \E r \in Queues : Accept(r)
      \/ /\ recv[Reorderer][q] = <<>>
         /\ Dequeue(Reorderer, q)
         /\ UNCHANGED <<open, send, inHand, turn, row, pc, todo, state, writer, misses>>
  <2>1. q \in Queues
    BY TurnFacts DEF Stages
  <2>2. (EmptyHanded /\ Ask) \/ (\E r \in Queues : Accept(r)) \/ PopInTurn
    BY Zenon DEF Read, Reorder, ReorderDefault, ReorderNaiveQueue, ReorderSmartAhead, ReorderSmart,
                 ReorderFifo
  <2>3. EmptyHanded => recv[Reorderer][q] = <<>>
    BY <2>1 DEF EmptyHanded
  <2>4. PopInTurn => \/ recv[Reorderer][q] = <<>> /\ Ask
                     \/ Accept(q)
                     \/ /\ recv[Reorderer][q] = <<>>
                        /\ Dequeue(Reorderer, q)
                        /\ UNCHANGED <<open, send, inHand, turn, row, pc, todo, state, writer, misses>>
    BY Zenon DEF PopInTurn
  <2>. QED BY <2>1, <2>2, <2>3, <2>4
<1>3. i \in DOMAIN Inputs[Reorderer]
  BY TurnFacts DEF Stages
<1>4. CASE recv[Reorderer][q] = <<>> /\ Ask
  <2>1. /\ turn' = [turn EXCEPT ![Reorderer] = (i % n) + 1]
        /\ UNCHANGED <<tree, perAnchor, maxAnchors, hold>>
        /\ \/ Dequeue(Reorderer, q) /\ misses' = 0 /\ UNCHANGED pc
           \/ /\ Ended(q)
              /\ misses' = misses + 1
              /\ pc' = [pc EXCEPT ![Reorderer] = IF misses' = n THEN "flush" ELSE pc[Reorderer]]
              /\ UNCHANGED <<queue, recv>>
    BY <1>4 DEF Ask
  <2>2. CASE Dequeue(Reorderer, q) /\ misses' = 0 /\ UNCHANGED pc
    <3>1. Takes(q)
      BY <2>1, <2>2 DEF Takes
    <3>. QED BY <1>1, <1>3, <1>4, <2>2, <3>1
  <2>3. CASE /\ Ended(q)
             /\ misses' = misses + 1
             /\ pc' = [pc EXCEPT ![Reorderer] = IF misses' = n THEN "flush" ELSE pc[Reorderer]]
             /\ UNCHANGED <<queue, recv>>
    <3>1. pc' = [pc EXCEPT ![Reorderer] = pc[Reorderer]] \/ pc' = [pc EXCEPT ![Reorderer] = "flush"]
      BY <2>3
    <3>2. Finds
      BY <2>1, <2>3, <3>1 DEF Finds
    <3>. QED BY <1>1, <1>4, <2>1, <2>3, <3>2
  <2>. QED BY <2>1, <2>2, <2>3
<1>5. CASE \E r \in Queues : Accept(r)
  <2>1. misses' = 0 /\ UNCHANGED pc
    BY <1>5 DEF Accept
  <2>. QED BY <1>1, <1>5, <2>1
<1>6. CASE /\ recv[Reorderer][q] = <<>>
           /\ Dequeue(Reorderer, q)
           /\ UNCHANGED <<open, send, inHand, turn, row, pc, todo, state, writer, misses>>
  <2>1. Takes(q)
    BY <1>6 DEF Takes, writer
  <2>. QED BY <1>1, <1>3, <1>6, <2>1
<1>. QED BY <1>2, <1>4, <1>5, <1>6

LEMMA NoMissKeepsMissed ==
    ASSUME TurnOK, TurnOK', misses' = 0, pc'[Reorderer] = "run"
    PROVE  Missed'
<1>1. /\ turn'[Reorderer] \in 1..Len(Inputs[Reorderer]) /\ Len(Inputs[Reorderer]) \in Nat \ {0}
      /\ DOMAIN Inputs[Reorderer] = 1..Len(Inputs[Reorderer])
  BY TurnFacts, Wired DEF TurnOK
<1>2. \A i \in DOMAIN Inputs[Reorderer] : Ago(i)' > 0
  BY <1>1 DEF Ago
<1>3. \A i \in DOMAIN Inputs[Reorderer] : ~(Ago(i)' <= 0)
  BY <1>1, <1>2 DEF Ago
<1>. QED BY <1>1, <1>3 DEF Missed

\* What the stages do does not concern Reorder.
LEMMA OthersKeepMissed ==
    ASSUME Stages, Missed, misses' = misses, turn'[Reorderer] = turn[Reorderer],
           \/ pc'[Reorderer] = pc[Reorderer]
           \/ pc[Reorderer] = "barrier" /\ pc'[Reorderer] = "run"
           \/ /\ pc[Reorderer] = "flush" /\ pc'[Reorderer] \notin {"barrier", "run"}
              /\ pc'[Reorderer] = "done" => tree' = TreeMakeEmpty /\ hold' = <<>>,
           pc[Reorderer] = "done" => tree' = tree /\ hold' = hold,
           \A q \in Queues : Ended(q) => Ended(q)',
           \A q \in Queues : recv[Reorderer][q] = <<>> => recv'[Reorderer][q] = <<>> \/ queue[q] # <<>>
    PROVE  Missed'
<1>1. \A i \in DOMAIN Inputs[Reorderer] : Inputs[Reorderer][i] \in Queues
  BY InputFacts
<1>2. \A i \in DOMAIN Inputs[Reorderer] : Ago(i)' = Ago(i)
  BY DEF Ago
<1>3. \A i \in DOMAIN Inputs[Reorderer] :
          Ago(i)' <= misses' => Ended(Inputs[Reorderer][i])' /\ recv'[Reorderer][Inputs[Reorderer][i]] = <<>>
  BY <1>1, <1>2 DEF Missed, Ended
<1>. QED BY <1>3 DEF Missed

LEMMA ReadKeepsMissed ==
    ASSUME Stages, Missed, Read, \A q \in Queues : Ended(q) => Ended(q)'
    PROVE  Missed'
<1> DEFINE i == turn[Reorderer]
           n == Len(Inputs[Reorderer])
<1>1. /\ i \in 1..n /\ n \in Nat \ {0} /\ DOMAIN Inputs[Reorderer] = 1..n
      /\ turn \in [{Fragmenter, Reorderer} -> Nat] /\ TurnOK
      /\ pc \in [Threads -> Label] /\ Reorderer \in Threads /\ recv \in Buffers
  BY TurnFacts, Wired DEF Stages, PcOK, RecvOK, Filled
<1>2. /\ pc[Reorderer] = "run" /\ hold = <<>> /\ TurnOK'
      /\ \/ \E j \in DOMAIN Inputs[Reorderer] :
               /\ Takes(Inputs[Reorderer][j]) /\ recv[Reorderer][Inputs[Reorderer][j]] = <<>>
               /\ misses' = 0 \/ UNCHANGED <<misses, turn>>
         \/ /\ Finds /\ Ended(Inputs[Reorderer][i]) /\ recv[Reorderer][Inputs[Reorderer][i]] = <<>>
            /\ misses' = misses + 1
            /\ turn' = [turn EXCEPT ![Reorderer] = (i % n) + 1]
            /\ pc' = [pc EXCEPT ![Reorderer] = IF misses' = n THEN "flush" ELSE pc[Reorderer]]
         \/ misses' = 0 /\ UNCHANGED pc /\ \E q \in Queues : Accept(q)
  BY ReadDuty
<1>3. CASE misses' = 0 /\ UNCHANGED pc
  BY <1>1, <1>2, <1>3, NoMissKeepsMissed
<1>4. ASSUME NEW j \in DOMAIN Inputs[Reorderer], Takes(Inputs[Reorderer][j]),
             recv[Reorderer][Inputs[Reorderer][j]] = <<>>, UNCHANGED <<misses, turn>>
      PROVE  Missed'
  <2>1. PICK q, y : q \in Queues /\ q = Inputs[Reorderer][j] /\ queue[q] # <<>> /\ recv' = [recv EXCEPT ![Reorderer][q] = y]
    BY <1>4, InputFacts, Zenon DEF Takes, Dequeue
  <2>2. UNCHANGED <<pc, tree, hold>>
    BY <1>4 DEF Takes
  <2>3. \A r \in Queues : recv'[Reorderer][r] = recv[Reorderer][r] \/ queue[r] # <<>>
    BY <1>1, <2>1 DEF Buffers
  <2>. QED BY <1>4, <2>2, <2>3, OthersKeepMissed
<1>5. ASSUME Finds, Ended(Inputs[Reorderer][i]), recv[Reorderer][Inputs[Reorderer][i]] = <<>>,
             misses' = misses + 1,
             turn' = [turn EXCEPT ![Reorderer] = (i % n) + 1],
             pc' = [pc EXCEPT ![Reorderer] = IF misses' = n THEN "flush" ELSE pc[Reorderer]]
      PROVE  Missed'
  <2>1. misses \in Nat /\ misses < n
    BY <1>2 DEF Missed
  <2>2. pc'[Reorderer] = IF misses' = n THEN "flush" ELSE "run"
    BY <1>1, <1>2, <1>5
  <2>3. misses' \in Nat /\ IF pc'[Reorderer] \in {"run", "barrier"} THEN misses' < n ELSE misses' = n
    BY <1>1, <1>5, <2>1, <2>2
  <2>4. turn'[Reorderer] = IF i = n THEN 1 ELSE i + 1
    <3>1. turn'[Reorderer] = (i % n) + 1
      BY <1>1, <1>5
    <3>2. \A k \in Nat \ {0} : \A m \in 1..k : m % k = IF m = k THEN 0 ELSE m
      OBVIOUS
    <3>3. i % n = IF i = n THEN 0 ELSE i
      BY <1>1, <3>2
    <3>. QED BY <1>1, <3>1, <3>3
  <2>5. \A j \in 1..n : Ago(j)' = IF j = i THEN 1 ELSE Ago(j) + 1
    BY <1>1, <2>4 DEF Ago
  <2>6. \A j \in 1..n : Ago(j) \in Int
    BY <1>1 DEF Ago
  <2>7. recv' = recv
    BY <1>5 DEF Finds
  <2>8. ASSUME NEW j \in DOMAIN Inputs[Reorderer], Ago(j)' <= misses'
        PROVE  Ended(Inputs[Reorderer][j])' /\ recv'[Reorderer][Inputs[Reorderer][j]] = <<>>
    <3>1. Inputs[Reorderer][j] \in Queues
      BY InputFacts
    <3>2. j = i \/ Ago(j) <= misses
      BY <1>1, <1>5, <2>1, <2>5, <2>6, <2>8
    <3>3. Ended(Inputs[Reorderer][j]) /\ recv[Reorderer][Inputs[Reorderer][j]] = <<>>
      BY <1>5, <3>2 DEF Missed
    <3>. QED BY <2>7, <3>1, <3>3
  <2>. QED BY <2>2, <2>3, <2>8 DEF Missed
<1>6. ASSUME NEW j \in DOMAIN Inputs[Reorderer], Takes(Inputs[Reorderer][j]), misses' = 0 PROVE Missed'
  BY <1>3, <1>6 DEF Takes
<1>. QED BY <1>2, <1>3, <1>4, <1>5, <1>6
---------------------------------------------------------------------------------
(* Nothing is lost: what is not written yet is somewhere in the pipeline. *)

\* The place of a fine chunk in the file, what stands for it, and whether it has been written
InCut(l1, l2) == /\ l1 \in Nat /\ l1 + 1 \in 1..Len(Cuts)
                 /\ l2 \in Nat /\ l2 + 1 \in 1..FineIn(l1)
Spot(l1, l2) == {c \in CoarseChunks : c.l1 = l1} \cup {c \in FineChunks : c.l1 = l1 /\ c.l2 = l2}
Passed(l1, l2) == l1 < next.l1 \/ (l1 = next.l1 /\ l2 < next.l2)

Among(f, S, A) == \E x \in S : Has(f[x], A)
Buffered(f, A) == \E t \in Threads, q \in Queues : Has(f[t][q], A)
Around(A) == \/ Among(inHand, Threads, A) \/ Buffered(send, A) \/ Buffered(recv, A)
             \/ Among(queue, Queues, A) \/ TreeHas(tree, A) \/ Has(hold, A)
Kept == \A l1, l2 : InCut(l1, l2) => Passed(l1, l2) \/ Around(Spot(l1, l2))

LEMMA SpotFacts ==
    ASSUME NEW l1, NEW l2, InCut(l1, l2)
    PROVE  /\ \A c \in CoarseChunks : c \in Spot(l1, l2) => Has(RefineNumbers(c), Spot(l1, l2))
           /\ \A c \in FineChunks : c \in Spot(l1, l2) <=> c.l1 = l1 /\ c.l2 = l2
           /\ \A c \in FineChunks, b \in BOOLEAN :
                 c \in Spot(l1, l2) => [c EXCEPT !.isDuplicate = b] \in Spot(l1, l2)
<1>1. CoarseChunks \cap FineChunks = {}
  <2>1. \A c \in Coarse : DOMAIN c = {"l1", "data"}
    BY DEF Coarse
  <2>2. \A c \in Fine : DOMAIN c = {"l1", "l2", "last", "data", "isDuplicate"}
    BY DEF Fine
  <2>3. {"l1", "data"} # {"l1", "l2", "last", "data", "isDuplicate"}
    OBVIOUS
  <2>. QED BY <2>1, <2>2, <2>3, Kinds
<1>2. \A c \in FineChunks : c \in Spot(l1, l2) <=> c.l1 = l1 /\ c.l2 = l2
  BY <1>1 DEF Spot
<1>3. ASSUME NEW c \in FineChunks, NEW b \in BOOLEAN, c \in Spot(l1, l2)
      PROVE  [c EXCEPT !.isDuplicate = b] \in Spot(l1, l2)
  <2>1. PICK d \in FineChunks : d = [c EXCEPT !.isDuplicate = b]
    BY MarkGenuine
  <2>2. d.l1 = c.l1 /\ d.l2 = c.l2
    BY <2>1, Kinds DEF Fine
  <2>. QED BY <1>2, <1>3, <2>1, <2>2
<1>4. ASSUME NEW c \in CoarseChunks, c \in Spot(l1, l2) PROVE Has(RefineNumbers(c), Spot(l1, l2))
  <2>1. c.l1 = l1 /\ c = Cuts[l1 + 1] /\ FineIn(l1) = Len(c.data)
    <3>1. PICK k \in 1..Len(Cuts) : c = Cuts[k]
      BY DEF CoarseChunks
    <3>2. c.l1 = k - 1 /\ k \in Nat
      BY <3>1, CutFacts
    <3>3. c.l1 = l1
      BY <1>1, <1>4 DEF Spot
    <3>4. k = l1 + 1
      BY <3>2, <3>3
    <3>. QED BY <3>1, <3>3, <3>4 DEF FineIn
  <2>2. PICK s \in Seq(FineChunks) : s = RefineNumbers(c)
    BY RefineGenuine
  <2>3. l2 + 1 \in 1..Len(c.data) /\ l2 \in Nat
    BY <2>1 DEF InCut
  <2>4. /\ DOMAIN s = 1..Len(c.data)
        /\ \A i \in 1..Len(c.data) : s[i].l1 = c.l1 /\ s[i].l2 = i - 1
    BY <2>2 DEF RefineNumbers
  <2>5. s[l2 + 1].l1 = l1 /\ s[l2 + 1].l2 = l2
    BY <2>1, <2>3, <2>4
  <2>6. l2 + 1 \in 1..Len(s) /\ s[l2 + 1] \in FineChunks
    BY <2>2, <2>3, <2>4, LenProperties, ElementOfSeq
  <2>7. s[l2 + 1] \in Spot(l1, l2)
    BY <1>2, <2>5, <2>6
  <2>. QED BY <2>2, <2>6, <2>7 DEF Has
<1>. QED BY <1>2, <1>3, <1>4

LEMMA ReplacedHas ==
    ASSUME NEW f, NEW g, NEW t \in Threads, NEW q \in Queues, NEW e, NEW A, Replaced(f, g, t, q, e)
    PROVE  /\ Has(e, A) => Buffered(g, A)
           /\ Buffered(f, A) => Buffered(g, A) \/ Has(f[t][q], A)
  BY DEF Replaced, Buffered

\* A thread takes chunks of a queue into a buffer that is empty.
LEMMA DequeueKeepsAround ==
    ASSUME QueueOK, RecvOK, NEW t \in Threads, NEW q \in Queues, q \in CoarseQueues => t \in Refiners,
           Dequeue(t, q), recv[t][q] = <<>>, UNCHANGED <<capacity, send, inHand, tree, hold>>,
           NEW A, Around(A)
    PROVE  Around(A)'
<1>1. PICK n \in 1..Len(queue[q]) :
          /\ Replaced(recv, recv', t, q, First(n, queue[q]))
          /\ \A r \in Queues : queue'[r] = IF r = q THEN Rest(n, queue[q]) ELSE queue[r]
  BY Dequeued
<1>2. queue[q] \in Seq(Genuine(q)) /\ Len(queue[q]) \in Nat
  BY LenProperties DEF QueueOK
<1>3. n \in Nat /\ n <= Len(queue[q])
  BY <1>2
<1>4. Has(queue[q], A) <=> Has(First(n, queue[q]), A) \/ Has(Rest(n, queue[q]), A)
  BY <1>2, <1>3, HasSplit
<1>5. Buffered(recv, A) => Buffered(recv', A)
  BY <1>1, HasEmpty, ReplacedHas
<1>6. Has(First(n, queue[q]), A) => Buffered(recv', A)
  BY <1>1, ReplacedHas
<1>7. Among(queue, Queues, A) => Among(queue', Queues, A) \/ Has(First(n, queue[q]), A)
  BY <1>1, <1>4 DEF Among
<1>. QED BY <1>5, <1>6, <1>7 DEF Around

\* The first chunk of a sequence is put to a buffer as something that stands for the same place.
LEMMA PutKeepsHas ==
    ASSUME SendOK, NEW t \in Threads, NEW q \in Queues, NEW chunk \in Genuine(q),
           Replaced(send, send', t, q, Append(send[t][q], chunk)), NEW A
    PROVE  /\ Buffered(send, A) => Buffered(send', A)
           /\ chunk \in A => Buffered(send', A)
<1>1. send[t][q] \in Seq(Genuine(q))
  BY DEF SendOK, Filled
<1>2. Has(Append(send[t][q], chunk), A) <=> Has(send[t][q], A) \/ chunk \in A
  BY <1>1, HasAppend
<1>. QED BY <1>2, ReplacedHas

LEMMA PopKeepsHas ==
    ASSUME RecvOK, NEW t \in Threads, NEW q \in Queues, recv[t][q] # <<>>,
           recv' = [recv EXCEPT ![t][q] = Tail(recv[t][q])], NEW A
    PROVE  Buffered(recv, A) => Buffered(recv', A) \/ Head(recv[t][q]) \in A
<1>1. recv[t][q] \in Seq(Genuine(q)) /\ Replaced(recv, recv', t, q, Tail(recv[t][q]))
  BY Taken DEF RecvOK, Filled
<1>2. Has(recv[t][q], A) => Head(recv[t][q]) \in A \/ Has(Tail(recv[t][q]), A)
  BY <1>1, HasTail
<1>. QED BY <1>1, <1>2, ReplacedHas

\* Taking the first of what a thread has in hand
LEMMA HandKeepsHas ==
    ASSUME HandOK, NEW t \in Threads, inHand[t] # <<>>,
           inHand' = [inHand EXCEPT ![t] = Tail(inHand[t])], NEW A
    PROVE  Among(inHand, Threads, A) => Among(inHand', Threads, A) \/ Head(inHand[t]) \in A
<1>1. PICK S : inHand[t] \in Seq(S)
  BY DEF HandOK
<1>2. Has(inHand[t], A) => Head(inHand[t]) \in A \/ Has(Tail(inHand[t]), A)
  BY <1>1, HasTail
<1>3. \A u \in Threads : inHand'[u] = IF u = t THEN Tail(inHand[t]) ELSE inHand[u]
  BY DEF HandOK
<1>. QED BY <1>2, <1>3 DEF Among

LEMMA FragmentKeepsAround ==
    ASSUME Stages, Fragment, UNCHANGED <<tree, hold>>, NEW A, Around(A)
    PROVE  Around(A)'
<1> DEFINE t == Fragmenter
<1>1. UNCHANGED <<queue, recv>>
  BY FragmentCases
<1>2. ASSUME NEW i \in DOMAIN Outputs[t], NEW s, Fragments(Outputs[t][i], s) PROVE Around(A)'
  <2>1. PICK q \in Queues : q = Outputs[t][i] /\ q \in CoarseQueues
    BY CoarseFacts DEF CoarseQueues
  <2>2. /\ inHand[t] # <<>> /\ inHand' = [inHand EXCEPT ![t] = Tail(inHand[t])]
        /\ send' = [send EXCEPT ![t][q] = Append(send[t][q], Head(inHand[t]))]
    BY <1>2, <2>1 DEF Fragments, Cut
  <2>3. t \in Threads /\ Genuine(q) = CoarseChunks /\ inHand[t] \in Seq(CoarseChunks)
    BY <2>1, Wired DEF Genuine, Stages, HandOK
  <2>4. PICK c \in Genuine(q) : c = Head(inHand[t])
    BY <2>2, <2>3, HeadTailProperties
  <2>5. Replaced(send, send', t, q, Append(send[t][q], c))
    <3>1. send[t][q] \in Seq(Genuine(q)) /\ Filled(send)
      BY <2>3 DEF Stages, SendOK, Filled
    <3>2. PICK e \in Seq(Genuine(q)) : e = Append(send[t][q], c)
      BY <3>1, AppendProperties
    <3>. QED BY <2>2, <2>3, <2>4, <3>1, <3>2, BufferUpdate
  <2>6. Buffered(send, A) \/ c \in A => Buffered(send', A)
    BY <2>3, <2>5, PutKeepsHas DEF Stages
  <2>7. Among(inHand, Threads, A) => Among(inHand', Threads, A) \/ c \in A
    BY <2>2, <2>3, <2>4, HandKeepsHas DEF Stages
  <2>. QED BY <1>1, <2>6, <2>7 DEF Around
<1>3. ASSUME NEW s, Closes(s) PROVE Around(A)'
  BY <1>1, <1>3 DEF Closes, Around
<1>. QED BY <1>2, <1>3, FragmentCases

LEMMA RefineKeepsAround ==
    ASSUME Stages, NEW t \in Refiners, RefineChunk(t), UNCHANGED <<encoder, capacity, tree, hold>>,
           NEW l1, NEW l2, InCut(l1, l2), NEW A, A = Spot(l1, l2), Around(A)
    PROVE  Around(A)'
<1>1. /\ t \in Threads /\ t # Fragmenter /\ Inputs[t][1] \in Queues /\ Inputs[t][1] \in CoarseQueues
      /\ Outputs[t][1] \in Queues /\ Genuine(Outputs[t][1]) = FineChunks
  BY Wired, Lanes, Routes
<1>2. PICK in, out \in Queues : in = Inputs[t][1] /\ out = Outputs[t][1]
  BY <1>1
<1>3. PICK fine : fine = IF inHand[t] # <<>> THEN inHand[t] ELSE RefineNumbers(Head(recv[t][in]))
  OBVIOUS
<1>4. /\ inHand[t] # <<>> \/ recv[t][in] # <<>>
      /\ recv' = IF inHand[t] # <<>> THEN recv ELSE [recv EXCEPT ![t][in] = Tail(recv[t][in])]
      /\ inHand' = [inHand EXCEPT ![t] = Tail(fine)]
      /\ Put(t, out, Head(fine), <<>>)
      /\ queue' = queue
  BY <1>2, <1>3, Zenon DEF RefineChunk
<1>5. Genuine(in) = CoarseChunks /\ Genuine(out) = FineChunks /\ inHand[t] \in Seq(FineChunks)
      /\ DOMAIN inHand = Threads
  BY <1>1, <1>2 DEF Genuine, Stages, HandOK
<1>6. inHand[t] = <<>> => /\ Head(recv[t][in]) \in CoarseChunks
                          /\ Buffered(recv, A) => Buffered(recv', A) \/ Head(recv[t][in]) \in A
  <2> SUFFICES ASSUME inHand[t] = <<>>
               PROVE  /\ Head(recv[t][in]) \in CoarseChunks
                      /\ Buffered(recv, A) => Buffered(recv', A) \/ Head(recv[t][in]) \in A
    OBVIOUS
  <2>1. recv[t][in] # <<>> /\ recv' = [recv EXCEPT ![t][in] = Tail(recv[t][in])] /\ RecvOK
    BY <1>4 DEF Stages
  <2>2. Head(recv[t][in]) \in CoarseChunks
    BY <1>1, <1>5, <2>1, Taken
  <2>. QED BY <1>1, <2>1, <2>2, PopKeepsHas
<1>7. fine \in Seq(FineChunks) /\ fine # <<>>
  BY <1>3, <1>5, <1>6, RefineGenuine
<1>8. PICK c \in Genuine(out) : c = Head(fine)
  BY <1>5, <1>7, HeadTailProperties
<1>9. Buffered(send, A) \/ c \in A => Buffered(send', A)
  <2>1. Replaced(send, send', t, out, Append(send[t][out], c)) /\ SendOK
    <3>1. <<>> \in Seq(Operations)
      BY EmptySeq
    <3>. QED BY <1>1, <1>4, <1>8, <3>1, Added DEF Stages
  <2>. QED BY <1>1, <2>1, PutKeepsHas
<1>10. Has(fine, A) => c \in A \/ Has(Tail(fine), A)
  BY <1>7, <1>8, HasTail
<1>11. Has(Tail(fine), A) => Among(inHand', Threads, A)
  <2>1. inHand'[t] = Tail(fine)
    BY <1>1, <1>4, <1>5
  <2>. QED BY <1>1, <2>1 DEF Among
<1>12. Has(fine, A) => Around(A)'
  BY <1>9, <1>10, <1>11 DEF Around
<1>13. Among(inHand, Threads, A) => Among(inHand', Threads, A) \/ Has(inHand[t], A)
  BY <1>4, <1>5 DEF Among
<1>14. CASE inHand[t] # <<>>
  <2>1. recv' = recv /\ fine = inHand[t]
    BY <1>3, <1>4, <1>14
  <2>. QED BY <1>4, <1>9, <1>12, <1>13, <2>1 DEF Around
<1>15. CASE inHand[t] = <<>>
  <2>1. Head(recv[t][in]) \in A => Has(fine, A)
    BY <1>3, <1>6, <1>15, SpotFacts
  <2>2. ~Has(inHand[t], A)
    BY <1>15, HasEmpty
  <2>. QED BY <1>4, <1>6, <1>9, <1>12, <1>13, <1>15, <2>1, <2>2 DEF Around
<1>. QED BY <1>14, <1>15

LEMMA DeduplicateKeepsAround ==
    ASSUME Stages, NEW t \in Dedupers, NEW before \in Seq(Own), DeduplicateChunk(t, before),
           UNCHANGED <<encoder, capacity, tree, hold>>,
           NEW l1, NEW l2, InCut(l1, l2), NEW A, A = Spot(l1, l2), Around(A)
    PROVE  Around(A)'
<1>1. /\ t \in Threads /\ Inputs[t][1] \in Queues
      /\ \A b \in BOOLEAN : Destination(t, b) \in Queues /\ Genuine(Destination(t, b)) = FineChunks
  BY Wired, Lanes DEF Destination
<1>2. PICK in \in Queues : in = Inputs[t][1]
  BY <1>1
<1>3. PICK c \in FineChunks, dup \in BOOLEAN :
         /\ c = Head(recv[t][in])
         /\ Replaced(send, send', t, Destination(t, dup),
                     Append(send[t][Destination(t, dup)], [c EXCEPT !.isDuplicate = dup]))
  BY <1>2, DeduplicateChunkKeepsStages, Zenon
<1>a. PICK out \in Queues : out = Destination(t, dup) /\ Genuine(out) = FineChunks
  BY <1>1
<1>4. PICK d \in Genuine(out) : d = [c EXCEPT !.isDuplicate = dup]
  BY <1>a, MarkGenuine
<1>5. Buffered(send, A) \/ d \in A => Buffered(send', A)
  <2>1. Replaced(send, send', t, out, Append(send[t][out], d)) /\ SendOK
    BY <1>3, <1>4, <1>a, Zenon DEF Stages
  <2>. QED BY <1>1, <2>1, PutKeepsHas
<1>6. /\ recv[t][in] # <<>> /\ recv' = [recv EXCEPT ![t][in] = Tail(recv[t][in])]
      /\ UNCHANGED <<queue, inHand>>
  BY <1>2, Zenon DEF DeduplicateChunk
<1>7. Buffered(recv, A) => Buffered(recv', A) \/ c \in A
  BY <1>1, <1>3, <1>6, PopKeepsHas DEF Stages
<1>8. c \in A => d \in A
  BY <1>4, SpotFacts
<1>. QED BY <1>5, <1>6, <1>7, <1>8 DEF Around

LEMMA CompressKeepsAround ==
    ASSUME Stages, NEW t \in Compressors, CompressChunk(t),
           UNCHANGED <<encoder, capacity, tree, hold>>, NEW A, Around(A)
    PROVE  Around(A)'
<1>1. /\ t \in Threads /\ Inputs[t][1] \in Queues
      /\ Outputs[t][1] \in Queues /\ Genuine(Outputs[t][1]) = FineChunks
  BY Wired, Lanes
<1>2. PICK in, out \in Queues : in = Inputs[t][1] /\ out = Outputs[t][1]
  BY <1>1
<1>3. PICK c \in FineChunks :
         c = Head(recv[t][in]) /\ Replaced(send, send', t, out, Append(send[t][out], c))
  BY <1>2, CompressChunkKeepsStages, Zenon
<1>4. Buffered(send, A) \/ c \in A => Buffered(send', A)
  BY <1>1, <1>2, <1>3, PutKeepsHas DEF Stages
<1>5. /\ recv[t][in] # <<>> /\ recv' = [recv EXCEPT ![t][in] = Tail(recv[t][in])]
      /\ UNCHANGED <<queue, inHand>>
  BY <1>2, Zenon DEF CompressChunk
<1>6. Buffered(recv, A) => Buffered(recv', A) \/ c \in A
  BY <1>1, <1>3, <1>5, PopKeepsHas DEF Stages
<1>. QED BY <1>4, <1>5, <1>6 DEF Around

LEMMA StageKeepsAround ==
    ASSUME Stages, NEW t \in Threads, Stage(t), UNCHANGED <<encoder, capacity, writer, misses>>,
           NEW l1, NEW l2, InCut(l1, l2), NEW A, A = Spot(l1, l2), Around(A)
    PROVE  Around(A)'
<1>1. UNCHANGED <<encoder, capacity, tree, hold>>
  BY DEF writer
<1>2. CASE t = Fragmenter /\ Fragment
  BY <1>1, <1>2, FragmentKeepsAround
<1>3. CASE Worker(t)
  <2>1. t \in Workers /\ (Receive(t) \/ (\E s \in Seq(Own) : Leave(t, s)) \/ Works(t))
    BY <1>3, WorkerCases
  <2>2. CASE Receive(t)
    <3>1. Inputs[t][1] \in Queues /\ (Inputs[t][1] \in CoarseQueues => t \in Refiners)
      BY <2>1, Wired, Lanes DEF Workers
    <3>2. /\ Dequeue(t, Inputs[t][1]) /\ recv[t][Inputs[t][1]] = <<>> /\ UNCHANGED <<send, inHand>>
      BY <2>2, Zenon DEF Receive
    <3>3. QueueOK /\ RecvOK
      BY DEF Stages
    <3>. QED BY <1>1, <3>1, <3>2, <3>3, DequeueKeepsAround
  <2>3. CASE \E s \in Seq(Own) : Leave(t, s)
    <3>1. UNCHANGED <<queue, send, recv, inHand>>
      BY <2>3 DEF Leave
    <3>. QED BY <1>1, <3>1 DEF Around
  <2>4. CASE t \in Refiners /\ RefineChunk(t)
    BY <1>1, <2>4, RefineKeepsAround
  <2>5. CASE t \in Dedupers /\ \E before \in Seq(Own) : DeduplicateChunk(t, before)
    BY <1>1, <2>5, DeduplicateKeepsAround
  <2>6. CASE t \in Compressors /\ CompressChunk(t)
    BY <1>1, <2>6, CompressKeepsAround
  <2>7. CASE t \in Compressors /\ CrossPop(t)
    <3>1. UNCHANGED <<queue, send, recv, inHand>>
      BY <2>7 DEF CrossPop
    <3>. QED BY <1>1, <3>1 DEF Around
  <2>. QED BY <2>1, <2>2, <2>3, <2>4, <2>5, <2>6, <2>7 DEF Works
<1>. QED BY <1>2, <1>3, Zenon DEF Stage, Worker

LEMMA MoveKeepsAround ==
    ASSUME Stages, NEW t \in Threads, Move(t), NEW A, Around(A)
    PROVE  Around(A)'
<1>1. PICK o \in Operations, n \in Nat :
          /\ n <= Len(send[t][o.from])
          /\ Replaced(send, send', t, o.from, Rest(n, send[t][o.from]))
          /\ queue' = [queue EXCEPT ![o.to] = queue[o.to] \o First(n, send[t][o.from])]
  BY MoveParts, Zenon DEF Moved
<1>2. UNCHANGED <<recv, inHand, tree, hold>>
  <2>1. UNCHANGED <<recv, inHand, writer>>
    BY Zenon DEF Move
  <2>. QED BY <2>1 DEF writer
<1>3. PICK from, to \in Queues : from = o.from /\ to = o.to /\ Genuine(from) = Genuine(to)
  BY OperationFacts
<1>4. PICK s, r \in Seq(Genuine(to)) : s = send[t][from] /\ r = queue[to]
  BY <1>3 DEF Stages, SendOK, Filled, QueueOK
<1>5. PICK f, e \in Seq(Genuine(to)) : f = First(n, s) /\ e = Rest(n, s)
  BY <1>1, <1>3, <1>4, PiecesAt
<1>6. Has(s, A) <=> Has(f, A) \/ Has(e, A)
  BY <1>1, <1>3, <1>4, <1>5, HasSplit
<1>7. Has(r \o f, A) <=> Has(r, A) \/ Has(f, A)
  BY HasConcat
<1>8. \A q \in Queues : queue'[q] = IF q = to THEN r \o f ELSE queue[q]
  BY <1>1, <1>3, <1>4, <1>5 DEF Stages, QueueOK
<1>9. Among(queue, Queues, A) \/ Has(f, A) => Among(queue', Queues, A)
  BY <1>4, <1>7, <1>8 DEF Among
<1>10. Buffered(send, A) => Buffered(send', A) \/ Has(f, A)
  <2>1. Replaced(send, send', t, from, e)
    BY <1>1, <1>3, <1>4, <1>5
  <2>. QED BY <1>4, <1>6, <2>1, ReplacedHas
<1>. QED BY <1>2, <1>9, <1>10 DEF Around

LEMMA ReadKeepsAround ==
    ASSUME Stages, Cache, Read, NEW A, Around(A)
    PROVE  Around(A)'
<1>1. /\ UNCHANGED <<capacity, send, inHand>> /\ hold = <<>>
      /\ \/ \E j \in DOMAIN Inputs[Reorderer] :
               Takes(Inputs[Reorderer][j]) /\ recv[Reorderer][Inputs[Reorderer][j]] = <<>>
         \/ Finds
         \/ \E q \in Queues : Accept(q)
  BY ReadDuty
<1>2. Reorderer \in Threads /\ Reorderer \notin Refiners
  BY Wired
<1>3. ASSUME NEW j \in DOMAIN Inputs[Reorderer], Takes(Inputs[Reorderer][j]),
             recv[Reorderer][Inputs[Reorderer][j]] = <<>>
      PROVE  Around(A)'
  <2>1. Inputs[Reorderer][j] \in Queues /\ Inputs[Reorderer][j] \notin CoarseQueues
    BY <1>2, Wired, Lanes
  <2>2. Dequeue(Reorderer, Inputs[Reorderer][j]) /\ UNCHANGED <<tree, hold>>
    BY <1>3 DEF Takes
  <2>3. QueueOK /\ RecvOK
    BY DEF Stages
  <2>. QED BY <1>1, <1>2, <1>3, <2>1, <2>2, <2>3, DequeueKeepsAround
<1>4. CASE Finds
  BY <1>1, <1>4 DEF Finds, Around
<1>5. ASSUME NEW q \in Queues, Accept(q) PROVE Around(A)'
  <2>1. /\ recv[Reorderer][q] # <<>>
        /\ recv' = [recv EXCEPT ![Reorderer][q] = Tail(recv[Reorderer][q])]
        /\ queue' = queue
    BY <1>5, Zenon DEF Accept
  <2>2. PICK c \in FineChunks : c = Head(recv[Reorderer][q])
    <3>1. Head(recv[Reorderer][q]) \in Genuine(q)
      BY <1>2, <2>1, Taken DEF Stages
    <3>2. Genuine(q) = FineChunks
      BY <1>2, <2>1 DEF Stages, RecvOK, Genuine
    <3>. QED BY <3>1, <3>2
  <2>3. \/ hold' = <<c>> /\ tree' = tree
        \/ hold' = hold /\ tree' = TreeInsert(tree, c)
    <3>1. Collect(c) \/ Arrange(c)
      BY <1>5, <2>2, Zenon DEF Accept
    <3>. QED BY <3>1 DEF Collect, Arrange
  <2>4. Buffered(recv, A) => Buffered(recv', A) \/ c \in A
    BY <1>2, <2>1, <2>2, PopKeepsHas DEF Stages
  <2>5. TreeOK(tree) /\ ~Has(hold, A)
    BY <1>1, HasEmpty DEF Cache
  <2>6. TreeHas(tree, A) \/ c \in A => TreeHas(tree', A) \/ Has(hold', A)
    <3>1. CASE hold' = <<c>> /\ tree' = tree
      <4>1. Len(<<c>>) = 1 /\ <<c>>[1] = c
        OBVIOUS
      <4>2. c \in A => Has(<<c>>, A)
        BY <4>1 DEF Has
      <4>. QED BY <3>1, <4>2
    <3>2. CASE tree' = TreeInsert(tree, c)
      BY <2>5, <3>2, InsertTreeHas
    <3>. QED BY <2>3, <3>1, <3>2
  <2>. QED BY <1>1, <2>1, <2>4, <2>5, <2>6 DEF Around
<1>. QED BY <1>1, <1>3, <1>4, <1>5

LEMMA CachedKeepsHas ==
    ASSUME TreeOK(tree), NEW position, NEW cached, NEW tr, NEW A,
           cached = Cached(position), tr = (IF cached = <<>> THEN tree ELSE TreeDelete(tree, position.l1)),
           TreeHas(tree, A)
    PROVE  TreeHas(tr, A) \/ Has(cached, A)
<1>1. CASE cached # <<>>
  <2>1. position.l1 \in DOMAIN tree /\ cached = <<FindMin(tree[position.l1])>>
    BY <1>1 DEF Cached
  <2>2. PICK c : c = tree[position.l1][1] /\ cached = <<c>>
    BY <2>1 DEF FindMin
  <2>3. CASE c \in A
    <3>1. Len(<<c>>) = 1 /\ <<c>>[1] = c
      OBVIOUS
    <3>. QED BY <2>2, <2>3, <3>1 DEF Has
  <2>4. CASE c \notin A
    BY <1>1, <2>1, <2>2, <2>4, DeleteTreeHas
  <2>. QED BY <2>3, <2>4
<1>. QED BY <1>1

LEMMA WriteKeepsKept ==
    ASSUME Inv, Kept, WriteAndAdvance
    PROVE  Kept'
<1>1. PICK c \in FineChunks : hold = <<c>> /\ c.l1 = next.l1 /\ c.l2 = next.l2
  BY WriteParts DEF InSequence
<1>2. /\ next' = sequence_inc /\ hold' = Cached(next')
      /\ tree' = IF hold' = <<>> THEN tree ELSE TreeDelete(tree, next'.l1)
      /\ UNCHANGED <<queue, send, recv, inHand>>
  BY DEF WriteAndAdvance, stages
<1>3. /\ next \in [l1 : Nat, l2 : Nat]
      /\ next' = [l1 |-> next.l1 + 1, l2 |-> 0] \/ next' = [next EXCEPT !.l2 = next.l2 + 1]
  BY <1>2 DEF sequence_inc, Inv, Written
<1>4. ASSUME NEW l1, NEW l2, InCut(l1, l2) PROVE Passed(l1, l2)' \/ Around(Spot(l1, l2))'
  <2>1. l1 \in Nat /\ l2 \in Nat
    BY <1>4 DEF InCut
  <2>2. Passed(l1, l2) \/ (l1 = next.l1 /\ l2 = next.l2) => Passed(l1, l2)'
    <3>1. CASE next' = [l1 |-> next.l1 + 1, l2 |-> 0]
      <4>1. next'.l1 = next.l1 + 1 /\ next.l1 \in Nat /\ next.l2 \in Nat
        BY <1>3, <3>1
      <4>. QED BY <2>1, <4>1 DEF Passed
    <3>2. CASE next' = [next EXCEPT !.l2 = next.l2 + 1]
      <4>1. next'.l1 = next.l1 /\ next'.l2 = next.l2 + 1 /\ next.l1 \in Nat /\ next.l2 \in Nat
        BY <1>3, <3>2
      <4>. QED BY <2>1, <4>1 DEF Passed
    <3>. QED BY <1>3, <3>1, <3>2
  <2>3. PICK A : A = Spot(l1, l2)
    OBVIOUS
  <2>4. CASE c \in A
    <3>1. l1 = next.l1 /\ l2 = next.l2
      BY <1>1, <1>4, <2>3, <2>4, SpotFacts
    <3>. QED BY <2>2, <3>1
  <2>5. CASE Around(A) /\ c \notin A
    <3>1. ~Has(hold, A)
      BY <1>1, <2>5 DEF Has
    <3>2. TreeHas(tree, A) => TreeHas(tree', A) \/ Has(hold', A)
      <4>1. PICK position, cached, tr : position = next' /\ cached = hold' /\ tr = tree'
        OBVIOUS
      <4>2. TreeOK(tree) /\ cached = Cached(position)
            /\ tr = IF cached = <<>> THEN tree ELSE TreeDelete(tree, position.l1)
        BY <1>2, <4>1 DEF Inv, Cache
      <4>. QED BY <4>1, <4>2, CachedKeepsHas
    <3>3. Around(A)'
      BY <1>2, <2>5, <3>1, <3>2 DEF Around
    <3>4. Around(Spot(l1, l2))' <=> Around(A)'
      BY <2>3 DEF Around, Spot, Among, Buffered, TreeHas, Has
    <3>. QED BY <3>3, <3>4
  <2>6. Passed(l1, l2) \/ Around(A)
    BY <1>4, <2>3 DEF Kept
  <2>. QED BY <2>2, <2>4, <2>5, <2>6
<1>. QED BY <1>4 DEF Kept, InCut

LEMMA FlushKeepsAround ==
    ASSUME Cache, FlushCache, NEW A, Around(A)
    PROVE  Around(A)'
<1>1. /\ hold = <<>> /\ hold' = Cached(next)
      /\ tree' = IF hold' = <<>> THEN tree ELSE TreeDelete(tree, next.l1)
      /\ UNCHANGED <<queue, send, recv, inHand>>
  BY DEF FlushCache
<1>2. ~Has(hold, A)
  BY <1>1, HasEmpty
<1>3. TreeHas(tree, A) => TreeHas(tree', A) \/ Has(hold', A)
  <2>1. PICK position, cached, tr : position = next /\ cached = hold' /\ tr = tree'
    OBVIOUS
  <2>2. TreeOK(tree) /\ cached = Cached(position)
        /\ tr = IF cached = <<>> THEN tree ELSE TreeDelete(tree, position.l1)
    BY <1>1, <2>1 DEF Cache
  <2>. QED BY <2>1, <2>2, CachedKeepsHas
<1>. QED BY <1>1, <1>2, <1>3 DEF Around

\* As long as next stays, what is around is enough.
LEMMA AroundKeepsKept ==
    ASSUME Kept, next' = next,
           \A l1, l2, A : InCut(l1, l2) /\ A = Spot(l1, l2) /\ Around(A) => Around(A)'
    PROVE  Kept'
<1>1. ASSUME NEW l1, NEW l2, InCut(l1, l2) PROVE Passed(l1, l2)' \/ Around(Spot(l1, l2))'
  <2>1. PICK A : A = Spot(l1, l2)
    OBVIOUS
  <2>2. Passed(l1, l2) \/ Around(A)
    BY <1>1, <2>1 DEF Kept
  <2>3. Around(Spot(l1, l2))' <=> Around(A)'
    BY <2>1 DEF Around, Spot, Among, Buffered, TreeHas, Has
  <2>4. Passed(l1, l2) => Passed(l1, l2)'
    BY DEF Passed
  <2>. QED BY <1>1, <2>1, <2>2, <2>3, <2>4
<1>. QED BY <1>1 DEF Kept, InCut

\* When all threads have returned, nothing is left anywhere.
LEMMA NothingLeft ==
    ASSUME Inv, Steps, Flow, Missed, AllDone, NEW A
    PROVE  ~Around(A)
<1>1. \A t \in Threads : pc[t] = "done" /\ Gone(t, pc[t]) /\ todo[t] = <<>>
  BY DEF AllDone, Gone, Steps, Duties, Duty
<1>2. Reorderer \in Threads /\ Workers \subseteq Threads /\ pc[Reorderer] = "done"
  BY <1>1, Lines
<1>3. ~Among(inHand, Threads, A)
  BY <1>1, HasEmpty DEF Among, Flow, HandHeld
<1>4. ~Buffered(send, A)
  <2>1. \A t \in Threads, q \in Queues : send[t][q] = <<>>
    BY <1>1, HasEmpty DEF Flow, SendHeld
  <2>. QED BY <2>1, HasEmpty DEF Buffered
<1>5. \A i \in DOMAIN Inputs[Reorderer] :
          Ended(Inputs[Reorderer][i]) /\ recv[Reorderer][Inputs[Reorderer][i]] = <<>>
  <2>1. /\ turn[Reorderer] \in 1..Len(Inputs[Reorderer]) /\ Len(Inputs[Reorderer]) \in Nat
        /\ DOMAIN Inputs[Reorderer] = 1..Len(Inputs[Reorderer])
    BY TurnFacts DEF Inv, Stages
  <2>2. misses = Len(Inputs[Reorderer])
    BY <1>2 DEF Missed
  <2>3. \A i \in DOMAIN Inputs[Reorderer] : Ago(i) <= misses
    BY <2>1, <2>2 DEF Ago
  <2>. QED BY <2>3 DEF Missed
<1>6. ~Buffered(recv, A)
  <2>1. ASSUME NEW t \in Threads, NEW q \in Queues, recv[t][q] # <<>> PROVE FALSE
    <3>1. q \in Asked(t) /\ t = Reorderer
      BY <1>1, <2>1 DEF Flow, RecvHeld
    <3>. QED BY <1>5, <2>1, <3>1, InputFacts
  <2>. QED BY <2>1, HasEmpty DEF Buffered
<1>7. ~Among(queue, Queues, A)
  <2>1. ASSUME NEW q \in Queues, queue[q] # <<>> PROVE FALSE
    <3>1. PICK t \in Threads : q \in Asked(t)
      BY <2>1 DEF Flow, Drained, Served
    <3>2. CASE t \in Workers
      BY <1>1, <2>1, <3>1, <3>2, InputFacts DEF Flow, Drained, Ended
    <3>3. CASE t = Reorderer
      BY <1>5, <2>1, <3>1, <3>3, InputFacts DEF Ended
    <3>4. t # Fragmenter
      BY <3>1, InputFacts
    <3>. QED BY <3>2, <3>3, <3>4, Lines
  <2>. QED BY <2>1, HasEmpty DEF Among
<1>8. ~TreeHas(tree, A) /\ ~Has(hold, A)
  <2>1. DOMAIN tree = {} /\ hold = <<>>
    BY <1>2 DEF Missed, TreeMakeEmpty
  <2>. QED BY <2>1, HasEmpty DEF TreeHas
<1>. QED BY <1>3, <1>4, <1>6, <1>7, <1>8 DEF Around

\* An archive that has passed all places is the file.
LEMMA PassedAll ==
    ASSUME Inv, \A l1, l2 : InCut(l1, l2) => Passed(l1, l2)
    PROVE  Len(archive) = Len(File) /\ Decode = File
<1>1. /\ Len(Cuts) \in Nat /\ Len(File) \in Nat /\ Start \in [1..Len(Cuts) + 1 -> 0..Len(File)]
      /\ Start[1] = 0 /\ Start[Len(Cuts) + 1] = Len(File)
  BY CutFacts
<1>2. PICK k, m \in Nat : /\ next.l1 = k /\ next.l2 = m /\ k + 1 \in 1..Len(Cuts) + 1
                          /\ Len(archive) = Start[k + 1] + m /\ Len(archive) <= Len(File)
  BY DEF Inv, Written
<1>3. Start[k + 1] \in Nat
  BY <1>1, <1>2
<1>4. Start[k + 1] + m >= Len(File)
  <2>1. CASE k = Len(Cuts)
    BY <1>1, <1>2, <2>1
  <2>2. CASE k < Len(Cuts)
    <3>1. PICK j \in Nat : j + 1 = Len(Cuts) /\ j + 1 \in 1..Len(Cuts)
      <4>1. \A n \in Nat : n > 0 => \E j \in Nat : j + 1 = n /\ j + 1 \in 1..n
        <5>1. ASSUME NEW n \in Nat, n > 0 PROVE \E j \in Nat : j + 1 = n /\ j + 1 \in 1..n
          <6>1. n - 1 \in Nat /\ (n - 1) + 1 = n /\ (n - 1) + 1 \in 1..n
            BY <5>1
          <6>. QED BY <6>1
        <5>. QED BY <5>1
      <4>2. Len(Cuts) > 0
        BY <1>1, <2>2
      <4>. QED BY <1>1, <4>1, <4>2
    <3>2. PICK n \in Nat \ {0} : n = FineIn(j) /\ n = Len(Cuts[j + 1].data)
      BY <3>1, CutFacts DEF FineIn
    <3>3. InCut(j, n - 1)
      <4>1. n - 1 \in Nat /\ n - 1 + 1 \in 1..n
        BY <3>2
      <4>. QED BY <3>1, <3>2, <4>1 DEF InCut
    <3>4. j < k \/ (j = k /\ n - 1 < m)
      BY <1>2, <3>3 DEF Passed
    <3>5. j = k /\ n <= m
      BY <1>1, <1>2, <2>2, <3>1, <3>2, <3>4
    <3>6. Start[j + 1 + 1] = Start[j + 1] + n
      BY <3>1, <3>2, CutFacts
    <3>. QED BY <1>1, <1>2, <1>3, <3>1, <3>2, <3>5, <3>6
  <2>3. k <= Len(Cuts)
    BY <1>1, <1>2
  <2>. QED BY <1>1, <1>2, <2>1, <2>2, <2>3
<1>5. Len(archive) = Len(File)
  BY <1>1, <1>2, <1>3, <1>4
<1>6. Decode = SubSeq(File, 1, Len(File))
  BY <1>5, Decoded DEF ReadBack
<1>7. SubSeq(File, 1, Len(File)) = File
  <2>1. \E S : File \in Seq(S)
    BY ChunkingAssumption
  <2>2. PICK S : File \in Seq(S)
    BY <2>1
  <2>3. PICK s \in Seq(S) : s = SubSeq(File, 1, Len(File)) /\ Len(s) = Len(File)
                            /\ \A i \in 1..Len(s) : s[i] = File[i]
    BY <1>1, <2>2, SubSeqProperties
  <2>. QED BY <2>2, <2>3, SeqEqual
<1>. QED BY <1>5, <1>6, <1>7
---------------------------------------------------------------------------------
(* All chunks are kept until they are written. *)

Lossless == Steps /\ Flow /\ Missed /\ Kept

LEMMA InitLossless == ASSUME Init PROVE Lossless
<1>1. \A t \in Threads : todo[t] = <<>> /\ ~Gone(t, pc[t]) /\ pc[t] # "done"
  BY DEF Init, Gone
<1>2. Duties
  <2>1. \A t : <<>> \in Seq(Enqueues(t))
    BY EmptyClosing
  <2>. QED BY <1>1, <2>1 DEF Duties, Duty, Gone
<1>3. Counted
  <2>1. open = [q \in Queues |-> Cardinality({t \in Threads : Feeds(t, q)})]
    BY DEF Init
  <2>2. ASSUME NEW q \in Queues PROVE open[q] \in Int /\ open[q] >= Cardinality({t \in Threads : Unclosed(t, q)})
    <3>1. \A t \in Threads : Unclosed(t, q) => Feeds(t, q)
      BY DEF Unclosed
    <3>2. PICK T, U \in SUBSET Threads : /\ T = {t \in Threads : Unclosed(t, q)} /\ T \subseteq U
                                         /\ U = {t \in Threads : Feeds(t, q)}
      BY <3>1
    <3>3. Cardinality(T) \in Nat /\ Cardinality(U) \in Nat /\ Cardinality(T) <= Cardinality(U)
      BY <3>2, FewerOpen
    <3>4. open[q] = Cardinality(U)
      BY <2>1, <3>2
    <3>. QED BY <3>2, <3>3, <3>4
  <2>. QED BY <2>1, <2>2 DEF Counted
<1>4. Flow
  <2>1. /\ \A t \in Threads, q \in Queues : send[t][q] = <<>> /\ recv[t][q] = <<>>
        /\ \A q \in Queues : queue[q] = <<>>
        /\ \A t \in Threads : inHand[t] # <<>> => t = Fragmenter
    BY DEF Init
  <2>. QED BY <1>1, <2>1, Lines DEF Flow, SendHeld, RecvHeld, HandHeld, Drained
<1>5. Missed
  <2>1. /\ misses = 0 /\ turn[Reorderer] = 1 /\ pc[Reorderer] \in {"run", "barrier"}
        /\ Len(Inputs[Reorderer]) \in Nat \ {0} /\ DOMAIN Inputs[Reorderer] = 1..Len(Inputs[Reorderer])
    BY Wired DEF Init
  <2>2. \A i \in DOMAIN Inputs[Reorderer] : ~(Ago(i) <= misses)
    BY <2>1 DEF Ago
  <2>. QED BY <2>1, <2>2 DEF Missed
<1>6. Kept
  <2>1. ASSUME NEW l1, NEW l2, InCut(l1, l2) PROVE Around(Spot(l1, l2))
    <3>1. Fragmenter \in Threads /\ inHand[Fragmenter] = Cuts
      BY Wired DEF Init, Cuts
    <3>2. l1 + 1 \in 1..Len(Cuts) /\ l1 \in Nat
      BY <2>1 DEF InCut
    <3>3. Cuts[l1 + 1].l1 = l1 /\ Cuts[l1 + 1] \in CoarseChunks
      BY <3>2, CutFacts DEF CoarseChunks
    <3>4. Has(Cuts, Spot(l1, l2))
      BY <3>2, <3>3 DEF Has, Spot
    <3>. QED BY <3>1, <3>4 DEF Around, Among
  <2>. QED BY <2>1 DEF Kept
<1>. QED BY <1>2, <1>3, <1>4, <1>5, <1>6 DEF Lossless, Steps

LEMMA NextLossless == ASSUME Inv, Lossless, [Next]_vars PROVE Lossless'
<1>0. Stages /\ Cache /\ Steps /\ Flow /\ Missed /\ Kept
  BY DEF Inv, Lossless
<1>a. /\ pc \in [Threads -> Label] /\ Reorderer \in Threads
      /\ Stages => turn \in [{Fragmenter, Reorderer} -> Nat]
  BY <1>0, Wired DEF Stages, PcOK, TurnOK
<1>1. CASE UNCHANGED vars
  <2>1. /\ UNCHANGED <<encoder, queue, open, send, recv, inHand, turn, pc, todo>>
        /\ UNCHANGED <<tree, next, hold, misses>>
    BY <1>1 DEF vars, stages, writer
  <2>2. Steps'
    BY <1>0, <2>1 DEF Steps, Duties, Counted, Unclosed
  <2>3. Flow'
    BY <1>0, <2>1 DEF Flow, SendHeld, RecvHeld, HandHeld, Drained, Loads, Ended
  <2>4. Missed'
    BY <1>0, <2>1 DEF Missed, Ago, Ended
  <2>5. Kept'
    BY <1>0, <2>1 DEF Kept, Passed, Around, Among, Buffered, TreeHas, Has
  <2>. QED BY <2>2, <2>3, <2>4, <2>5 DEF Lossless
<1>2. ASSUME NEW t \in Threads \ {Reorderer}, Thread(t) PROVE Lossless'
  <2>1. CASE Stage(t) /\ UNCHANGED <<encoder, capacity, writer, misses>>
    <3>0. UNCHANGED <<encoder, capacity, writer, misses>> /\ UNCHANGED <<tree, hold, next>> /\ Stage(t)
      BY <2>1 DEF writer
    <3>1. Flow' /\ Unused(t) /\ \A q \in Queues : Ended(q) => Ended(q)'
      BY <1>0, <3>0, StageKeepsFlow
    <3>2. Steps' /\ Apart(t)
      BY <1>0, <3>0, <3>1, StageKeepsSteps, StageDuty
    <3>3. Missed'
      <4>1. turn'[Reorderer] = turn[Reorderer]
        BY <1>0, <3>0, StageTurn
      <4>2. pc'[Reorderer] = pc[Reorderer]
        BY <1>2, <1>a, <3>2 DEF Apart
      <4>3. \A q \in Queues : recv'[Reorderer][q] = recv[Reorderer][q]
        BY <1>0, <1>2, <1>a, <3>0, StageTakes
      <4>. QED BY <1>0, <3>0, <3>1, <4>1, <4>2, <4>3, OthersKeepMissed
    <3>4. \A l1, l2, A : InCut(l1, l2) /\ A = Spot(l1, l2) /\ Around(A) => Around(A)'
      BY <1>0, <3>0, StageKeepsAround
    <3>5. Kept'
      BY <1>0, <3>0, <3>4, AroundKeepsKept
    <3>. QED BY <3>1, <3>2, <3>3, <3>5 DEF Lossless
  <2>2. CASE Move(t)
    <3>1. UNCHANGED <<recv, turn, pc, tree, hold, next, misses>>
      <4>1. UNCHANGED <<recv, turn, pc, writer, misses>>
        BY <2>2, Zenon DEF Move
      <4>. QED BY <4>1 DEF writer
    <3>2. Steps' /\ Flow' /\ \A q \in Queues : Ended(q) => Ended(q)'
      BY <1>0, <2>2, MoveKeepsSteps, MoveKeepsFlow
    <3>3. Missed'
      BY <1>0, <3>1, <3>2, OthersKeepMissed
    <3>4. \A A : Around(A) => Around(A)'
      BY <1>0, <2>2, MoveKeepsAround
    <3>5. Kept'
      BY <1>0, <3>1, <3>4, AroundKeepsKept
    <3>. QED BY <3>2, <3>3, <3>5 DEF Lossless
  <2>3. CASE Terminate(t)
    <3>1. UNCHANGED <<queue, send, recv, inHand, turn, tree, hold, next, misses>>
      BY <2>3 DEF Terminate, writer
    <3>2. Steps' /\ Apart(t)
      BY <1>0, <2>3, TerminateKeepsSteps
    <3>3. Flow' /\ \A q \in Queues : Ended(q) => Ended(q)'
      BY <1>0, <2>3, TerminateKeepsFlow
    <3>4. pc'[Reorderer] = pc[Reorderer]
      BY <1>2, <1>a, <3>2 DEF Apart
    <3>5. Missed'
      BY <1>0, <3>1, <3>3, <3>4, OthersKeepMissed
    <3>6. Kept'
      BY <1>0, <3>1 DEF Kept, Passed, Around, Among, Buffered, TreeHas, Has
    <3>. QED BY <3>2, <3>3, <3>5, <3>6 DEF Lossless
  <2>. QED BY <1>2, <2>1, <2>2, <2>3 DEF Thread
<1>3. CASE Read
  <2>1. /\ UNCHANGED <<encoder, open, send, inHand, todo, next>>
        /\ \/ \E j \in DOMAIN Inputs[Reorderer] : Takes(Inputs[Reorderer][j])
           \/ Finds
           \/ \E q \in Queues : Accept(q)
    BY <1>0, <1>3, ReadCases
  <2>2. \E l : pc' = [pc EXCEPT ![Reorderer] = l]
    <3>1. UNCHANGED pc => pc' = [pc EXCEPT ![Reorderer] = pc[Reorderer]]
      BY <1>a
    <3>2. UNCHANGED pc \/ Finds
      BY <2>1 DEF Takes, Accept
    <3>. QED BY <3>1, <3>2 DEF Finds
  <2>3. PICK l : pc' = [pc EXCEPT ![Reorderer] = l]
    BY <2>2
  <2>4. Steps'
    BY <1>0, <2>1, <2>3, ReorderKeepsSteps
  <2>5. /\ \A q \in Queues : queue'[q] = queue[q] \/ queue[q] # <<>>
        /\ \A u \in Threads, q \in Queues :
              recv'[u][q] = recv[u][q] \/ recv'[u][q] = <<>> \/ (u = Reorderer /\ q \in Asked(Reorderer))
    <3>0. queue \in [Queues -> Buffer] /\ recv \in Buffers
      BY <1>0 DEF Stages, QueueOK, RecvOK, Filled
    <3>1. ASSUME NEW j \in DOMAIN Inputs[Reorderer], Takes(Inputs[Reorderer][j])
          PROVE  /\ \A q \in Queues : queue'[q] = queue[q] \/ queue[q] # <<>>
                 /\ \A u \in Threads, q \in Queues :
                       recv'[u][q] = recv[u][q] \/ (u = Reorderer /\ q \in Asked(Reorderer))
      <4>1. PICK r, x, y : /\ r \in Asked(Reorderer) /\ queue[r] # <<>> /\ queue' = [queue EXCEPT ![r] = x]
                           /\ recv' = [recv EXCEPT ![Reorderer][r] = y]
        <5>1. Inputs[Reorderer][j] \in Asked(Reorderer)
          BY InputFacts
        <5>. QED BY <3>1, <5>1, Zenon DEF Takes, Dequeue
      <4>2. \A q \in Queues : queue'[q] = queue[q] \/ queue[q] # <<>>
        BY <3>0, <4>1
      <4>3. \A u \in Threads, q \in Queues : recv'[u][q] = recv[u][q] \/ (u = Reorderer /\ q = r)
        BY <3>0, <4>1 DEF Buffers
      <4>. QED BY <4>1, <4>2, <4>3
    <3>2. CASE Finds
      BY <3>2 DEF Finds
    <3>3. ASSUME NEW r \in Queues, Accept(r)
          PROVE  /\ queue' = queue
                 /\ \A u \in Threads, q \in Queues :
                       recv'[u][q] = recv[u][q] \/ (u = Reorderer /\ q \in Asked(Reorderer))
      <4>1. /\ recv[Reorderer][r] # <<>> /\ queue' = queue
            /\ recv' = [recv EXCEPT ![Reorderer][r] = Tail(recv[Reorderer][r])]
        BY <3>3, Zenon DEF Accept
      <4>2. r \in Asked(Reorderer)
        BY <1>0, <1>a, <4>1 DEF Flow, RecvHeld
      <4>3. PICK y : recv' = [recv EXCEPT ![Reorderer][r] = y]
        BY <4>1
      <4>4. \A u \in Threads, q \in Queues : recv'[u][q] = recv[u][q] \/ (u = Reorderer /\ q = r)
        BY <3>0, <4>3 DEF Buffers
      <4>. QED BY <4>1, <4>2, <4>4
    <3>. QED BY <2>1, <3>1, <3>2, <3>3
  <2>6. Flow' /\ \A q \in Queues : Ended(q) => Ended(q)'
    BY <1>0, <1>a, <2>1, <2>3, <2>5, ReorderKeepsFlow
  <2>7. Missed'
    BY <1>0, <1>3, <2>6, ReadKeepsMissed
  <2>8. \A A : Around(A) => Around(A)'
    BY <1>0, <1>3, ReadKeepsAround
  <2>9. Kept'
    BY <1>0, <2>1, <2>8, AroundKeepsKept
  <2>. QED BY <2>4, <2>6, <2>7, <2>9 DEF Lossless
<1>4. ASSUME NEW l, pc' = [pc EXCEPT ![Reorderer] = l],
             UNCHANGED <<encoder, queue, open, send, recv, inHand, turn, todo, misses>>
      PROVE  Steps' /\ Flow' /\ \A q \in Queues : Ended(q) => Ended(q)'
  BY <1>0, <1>a, <1>4, ReorderKeepsSteps, ReorderKeepsFlow
<1>5. CASE WriteAndAdvance
  <2>1. UNCHANGED <<encoder, queue, open, send, recv, inHand, turn, todo, misses>> /\ pc' = pc
    BY <1>5 DEF WriteAndAdvance, stages
  <2>2. pc' = [pc EXCEPT ![Reorderer] = pc[Reorderer]]
    BY <1>a, <2>1
  <2>3. Steps' /\ Flow' /\ \A q \in Queues : Ended(q) => Ended(q)'
    BY <1>4, <2>1, <2>2
  <2>4. hold # <<>>
    BY <1>5 DEF WriteAndAdvance
  <2>5. pc[Reorderer] # "done"
    BY <1>0, <2>4 DEF Missed
  <2>6. Missed'
    BY <1>0, <2>1, <2>3, <2>5, OthersKeepMissed
  <2>7. Kept'
    BY <1>0, <1>5, WriteKeepsKept
  <2>. QED BY <2>3, <2>6, <2>7 DEF Lossless
<1>6. CASE FlushCache
  <2>1. /\ pc[Reorderer] = "flush"
        /\ UNCHANGED <<encoder, queue, open, send, recv, inHand, turn, todo, misses, next>>
        /\ tree' = IF hold' = <<>> THEN tree ELSE TreeDelete(tree, next.l1)
        /\ pc' = [pc EXCEPT ![Reorderer] = IF hold' # <<>> THEN pc[Reorderer]
                                           ELSE IF tree = TreeMakeEmpty THEN "done" ELSE "mismatch"]
    BY <1>6 DEF FlushCache
  <2>2. PICK l \in {"flush", "done", "mismatch"} :
            /\ pc' = [pc EXCEPT ![Reorderer] = l]
            /\ l = "done" => hold' = <<>> /\ tree = TreeMakeEmpty
    BY <2>1
  <2>3. Steps' /\ Flow' /\ \A q \in Queues : Ended(q) => Ended(q)'
    BY <1>4, <2>1, <2>2
  <2>4. pc'[Reorderer] = l
    BY <1>a, <2>2
  <2>5. Missed'
    BY <1>0, <2>1, <2>2, <2>3, <2>4, OthersKeepMissed
  <2>6. Kept'
    BY <1>0, <1>6, <2>1, FlushKeepsAround, AroundKeepsKept
  <2>. QED BY <2>3, <2>5, <2>6 DEF Lossless
<1>7. CASE Barrier
  <2>1. /\ UNCHANGED <<queue, send, recv, inHand, turn, misses>> /\ UNCHANGED <<tree, hold, next>>
        /\ pc[Reorderer] = "barrier" /\ pc'[Reorderer] = "run"
    BY <1>7, <1>a, Lines, Wired DEF Barrier, writer
  <2>2. Steps' /\ Flow' /\ \A q \in Queues : Ended(q) => Ended(q)'
    BY <1>0, <1>7, BarrierKeepsSteps, BarrierKeepsFlow
  <2>3. Missed'
    BY <1>0, <2>1, <2>2, OthersKeepMissed
  <2>4. Kept'
    BY <1>0, <2>1 DEF Kept, Passed, Around, Among, Buffered, TreeHas, Has
  <2>. QED BY <2>2, <2>3, <2>4 DEF Lossless
<1>. QED BY <1>1, <1>2, <1>3, <1>5, <1>6, <1>7 DEF Next

\* When all threads are done, every chunk has been written: nothing is left for one to be in.
LEMMA Complete == ASSUME Inv, Lossless, AllDone
                  PROVE  Len(archive) = Len(File) /\ Decode = File
<1>1. Steps /\ Flow /\ Missed /\ Kept
  BY DEF Lossless
<1>2. ASSUME NEW l1, NEW l2, InCut(l1, l2) PROVE Passed(l1, l2)
  <2>1. ~Around(Spot(l1, l2))
    BY <1>1, NothingLeft
  <2>. QED BY <1>1, <1>2, <2>1 DEF Kept
<1>. QED BY <1>2, PassedAll

\* A thread terminates each of its queues once and only after it has pushed what is in its buffers,
\* and Reorder asks all its queues once more after the last chunk: when all threads have returned,
\* the archive has every chunk of the file, whatever the interleaving.
THEOREM WholeFileWritten == Spec => [](AllDone => Len(archive) = Len(File) /\ Decode = File)
<1>1. Inv /\ Lossless => (AllDone => Len(archive) = Len(File) /\ Decode = File)
  BY Complete
<1>2. Init => Inv /\ Lossless
  BY InitInv, InitLossless
<1>3. Inv /\ Lossless /\ [Next]_vars => Inv' /\ Lossless'
  BY NextInv, NextLossless
<1>. QED BY <1>1, <1>2, <1>3, PTL DEF Spec

---------------------------------------------------------------------------------
(* On its way to Compress, no content stands twice. *)

\* In the sequences f[x] only contents of C stand, each at one place.
Single(S, f, C) ==
    /\ \A x \in S : \A i \in 1..Len(f[x]) : f[x][i].data \in C
    /\ \A x, y \in S : \A i \in 1..Len(f[x]), j \in 1..Len(f[y]) :
          f[x][i].data = f[y][j].data => x = y /\ i = j

\* The first n elements at x may have gone to the end of what is at y.
Shifted(S, f, g, x, y, n, m) ==
    \A z \in S : \A i \in 1..Len(g[z]) :
        \/ z # x /\ i \in 1..Len(f[z]) /\ g[z][i] = f[z][i]
        \/ z = x /\ i + n \in 1..Len(f[x]) /\ g[z][i] = f[x][i + n]
        \/ z = y /\ \E k \in 1..n : k \in 1..Len(f[x]) /\ i = m + k /\ g[z][i] = f[x][k]

LEMMA ShiftedSingle ==
    ASSUME NEW S, NEW f, NEW g, NEW C, NEW x \in S, NEW y, x # y, NEW n \in Nat, NEW m \in Nat,
           Single(S, f, C), Shifted(S, f, g, x, y, n, m)
    PROVE  Single(S, g, C)
<1> DEFINE Came(z, i, z0, i0) == \/ z # x /\ z0 = z /\ i0 = i
                                 \/ z = x /\ z0 = x /\ i0 = i + n
                                 \/ z = y /\ z0 = x /\ i0 \in 1..n /\ i = m + i0
<1>1. ASSUME NEW z \in S, NEW i \in 1..Len(g[z])
      PROVE  \E z0 \in S : \E i0 \in 1..Len(f[z0]) : g[z][i] = f[z0][i0] /\ Came(z, i, z0, i0)
  <2>1. \/ z # x /\ i \in 1..Len(f[z]) /\ g[z][i] = f[z][i]
        \/ z = x /\ i + n \in 1..Len(f[x]) /\ g[z][i] = f[x][i + n]
        \/ z = y /\ \E k \in 1..n : k \in 1..Len(f[x]) /\ i = m + k /\ g[z][i] = f[x][k]
    BY DEF Shifted
  <2>2. CASE z # x /\ i \in 1..Len(f[z]) /\ g[z][i] = f[z][i]
    BY <2>2, Zenon
  <2>3. CASE z = x /\ i + n \in 1..Len(f[x]) /\ g[z][i] = f[x][i + n]
    BY <2>3, Zenon
  <2>4. ASSUME z = y, NEW k \in 1..n, k \in 1..Len(f[x]), i = m + k, g[z][i] = f[x][k]
        PROVE  \E z0 \in S : \E i0 \in 1..Len(f[z0]) : g[z][i] = f[z0][i0] /\ Came(z, i, z0, i0)
    BY <2>4, Zenon
  <2>. QED BY <2>1, <2>2, <2>3, <2>4
<1>2. ASSUME NEW z \in S, NEW i \in 1..Len(g[z]) PROVE g[z][i].data \in C
  <2>1. PICK z0 \in S : \E i0 \in 1..Len(f[z0]) : g[z][i] = f[z0][i0] /\ Came(z, i, z0, i0)
    BY <1>1
  <2>2. PICK i0 \in 1..Len(f[z0]) : g[z][i] = f[z0][i0]
    BY <2>1
  <2>. QED BY <2>2 DEF Single
<1>3. ASSUME NEW z \in S, NEW w \in S, NEW i \in 1..Len(g[z]), NEW j \in 1..Len(g[w]),
             g[z][i].data = g[w][j].data
      PROVE  z = w /\ i = j
  <2>1. PICK z0 \in S : \E i0 \in 1..Len(f[z0]) : g[z][i] = f[z0][i0] /\ Came(z, i, z0, i0)
    BY <1>1
  <2>2. PICK i0 \in 1..Len(f[z0]) : g[z][i] = f[z0][i0] /\ Came(z, i, z0, i0)
    BY <2>1
  <2>3. PICK w0 \in S : \E j0 \in 1..Len(f[w0]) : g[w][j] = f[w0][j0] /\ Came(w, j, w0, j0)
    BY <1>1
  <2>4. PICK j0 \in 1..Len(f[w0]) : g[w][j] = f[w0][j0] /\ Came(w, j, w0, j0)
    BY <2>3
  <2>5. f[z0][i0].data = f[w0][j0].data
    BY <1>3, <2>2, <2>4
  <2>6. z0 = w0 /\ i0 = j0
    BY <2>5 DEF Single
  <2>7. Came(z, i, z0, i0) /\ Came(w, j, z0, i0) /\ i \in Int /\ j \in Int
    BY <2>2, <2>4, <2>6
  <2>. HIDE DEF Single, Shifted
  <2>. QED BY <2>7
<1>. QED BY <1>2, <1>3 DEF Single

LEMMA AddedSingle ==
    ASSUME NEW S, NEW f, NEW g, NEW C, NEW D, NEW x \in S, NEW e \in FineChunks, f[x] \in Seq(FineChunks),
           Single(S, f, C), C \subseteq D, e.data \in D \ C,
           g[x] = Append(f[x], e), \A z \in S \ {x} : g[z] = f[z]
    PROVE  Single(S, g, D)
<1>1. /\ \A i \in 1..Len(f[x]) : g[x][i] = f[x][i]
      /\ g[x][Len(f[x]) + 1] = e
      /\ \A i \in 1..Len(g[x]) : i \in 1..Len(f[x]) \/ i = Len(f[x]) + 1
  BY AppendAt
<1>2. ASSUME NEW z \in S, NEW i \in 1..Len(g[z])
      PROVE  \/ i \in 1..Len(f[z]) /\ g[z][i] = f[z][i] /\ g[z][i].data \in C
             \/ z = x /\ i = Len(f[x]) + 1 /\ g[z][i].data = e.data
  <2>1. i \in 1..Len(f[z]) => f[z][i].data \in C
    BY DEF Single
  <2>2. CASE z = x
    BY <1>1, <2>1, <2>2
  <2>3. CASE z # x
    <3>1. g[z] = f[z]
      BY <2>3
    <3>. QED BY <2>1, <3>1
  <2>. QED BY <2>2, <2>3
<1>3. \A z \in S : \A i \in 1..Len(g[z]) : g[z][i].data \in D
  BY <1>2
<1>4. ASSUME NEW z \in S, NEW w \in S, NEW i \in 1..Len(g[z]), NEW j \in 1..Len(g[w]),
             g[z][i].data = g[w][j].data
      PROVE  z = w /\ i = j
  <2>1. CASE i \in 1..Len(f[z]) /\ g[z][i] = f[z][i] /\ j \in 1..Len(f[w]) /\ g[w][j] = f[w][j]
    BY <1>4, <2>1 DEF Single
  <2>. QED BY <1>2, <1>4, <2>1
<1>. QED BY <1>3, <1>4 DEF Single

LEMMA TailSingle ==
    ASSUME NEW S, NEW f, NEW g, NEW C, NEW x \in S, f[x] \in Seq(FineChunks), f[x] # <<>>,
           Single(S, f, C), g[x] = Tail(f[x]), \A z \in S \ {x} : g[z] = f[z]
    PROVE  Head(f[x]).data \in C /\ Single(S, g, C \ {Head(f[x]).data})
<1>1. /\ Head(f[x]) = f[x][1] /\ 1 \in 1..Len(f[x])
      /\ \A i \in 1..Len(g[x]) : i + 1 \in 1..Len(f[x]) /\ g[x][i] = f[x][i + 1]
  BY TailAt
<1>2. Head(f[x]).data \in C
  BY <1>1 DEF Single
<1>3. PICK y : y # x
  <2>1. \E y : y # x
    <3>1. x = {} => {{}} # x
      OBVIOUS
    <3>. QED BY <3>1
  <2>. QED BY <2>1
<1>4. Shifted(S, f, g, x, y, 1, 0)
  BY <1>1 DEF Shifted
<1>5. Single(S, g, C)
  BY <1>3, <1>4, ShiftedSingle
<1>6. ASSUME NEW z \in S, NEW i \in 1..Len(g[z]) PROVE g[z][i].data # Head(f[x]).data
  <2>1. CASE z = x
    <3>0. i \in 1..Len(g[x])
      BY <2>1
    <3>1. i + 1 \in 1..Len(f[x]) /\ g[x][i] = f[x][i + 1]
      BY <1>1, <3>0, Zenon
    <3>a. i + 1 # 1
      <4>1. Len(g[x]) \in Nat
        BY TailAt
      <4>. QED BY <3>0, <4>1
    <3>2. f[x][i + 1].data # f[x][1].data
      BY <1>1, <3>1, <3>a DEF Single
    <3>. QED BY <1>1, <2>1, <3>1, <3>2
  <2>2. CASE z # x
    <3>1. g[z][i] = f[z][i] /\ i \in 1..Len(f[z])
      BY <2>2
    <3>. QED BY <1>1, <2>2, <3>1 DEF Single
  <2>. QED BY <2>1, <2>2
<1>. QED BY <1>2, <1>5, <1>6 DEF Single

LEMMA SameSingle ==
    ASSUME NEW S, NEW f, NEW g, NEW C, NEW D, Single(S, f, C), C \subseteq D, \A z \in S : g[z] = f[z]
    PROVE  Single(S, g, D)
  BY DEF Single
\* The places on the way to Compress: a queue has one, whichever thread is named.
Site(k, t, q) == <<k, t, q>>
Sites == {"send", "recv", "queue"} \X Threads \X ToCompress
LaneOf(s, r, w) ==
    [x \in Sites |-> IF x[1] = "send" THEN s[x[2]][x[3]]
                     ELSE IF x[1] = "recv" THEN r[x[2]][x[3]]
                     ELSE IF x[2] = Fragmenter THEN w[x[3]] ELSE <<>>]
Lane == LaneOf(send, recv, queue)

LEMMA SiteFacts ==
    /\ \A k \in {"send", "recv", "queue"}, t \in Threads, q \in ToCompress : Site(k, t, q) \in Sites
    /\ \A z \in Sites : \E k \in {"send", "recv", "queue"}, t \in Threads, q \in ToCompress : z = Site(k, t, q)
    /\ \A k, t, q, l, u, p : Site(k, t, q) = Site(l, u, p) => k = l /\ t = u /\ q = p
    /\ Fragmenter \in Threads
<1>1. Fragmenter \in Threads
  BY DEF Threads
<1>. HIDE DEF Threads, ToCompress
<1>. QED BY <1>1 DEF Sites, Site

LEMMA LaneFacts ==
    ASSUME NEW s, NEW r, NEW w
    PROVE  /\ \A t \in Threads, q \in ToCompress : LaneOf(s, r, w)[Site("send", t, q)] = s[t][q]
           /\ \A t \in Threads, q \in ToCompress : LaneOf(s, r, w)[Site("recv", t, q)] = r[t][q]
           /\ \A q \in ToCompress : LaneOf(s, r, w)[Site("queue", Fragmenter, q)] = w[q]
           /\ \A t \in Threads, q \in ToCompress :
                 t # Fragmenter => LaneOf(s, r, w)[Site("queue", t, q)] = <<>>
<1>1. ASSUME NEW k \in {"send", "recv", "queue"}, NEW t \in Threads, NEW q \in ToCompress
      PROVE  LaneOf(s, r, w)[Site(k, t, q)] = IF k = "send" THEN s[t][q]
                                              ELSE IF k = "recv" THEN r[t][q]
                                              ELSE IF t = Fragmenter THEN w[q] ELSE <<>>
  <2>1. Site(k, t, q) \in Sites
    BY SiteFacts
  <2>2. PICK z \in Sites : z = Site(k, t, q)
    BY <2>1
  <2>3. z[1] = k /\ z[2] = t /\ z[3] = q
    BY <2>2 DEF Site
  <2>4. LaneOf(s, r, w)[z] = IF z[1] = "send" THEN s[z[2]][z[3]]
                             ELSE IF z[1] = "recv" THEN r[z[2]][z[3]]
                             ELSE IF z[2] = Fragmenter THEN w[z[3]] ELSE <<>>
    BY DEF LaneOf
  <2>. QED BY <2>2, <2>3, <2>4
<1>2. /\ "send" \in {"send", "recv", "queue"} /\ "recv" \in {"send", "recv", "queue"}
      /\ "queue" \in {"send", "recv", "queue"} /\ "send" # "recv" /\ "send" # "queue" /\ "recv" # "queue"
  OBVIOUS
<1>. QED BY <1>1, <1>2, SiteFacts

\* The places out of X are as they were.
Same(f, g, X) == \A z \in Sites \ X : g[z] = f[z]

LEMMA LaneSame ==
    ASSUME NEW s, NEW r, NEW w, NEW s2, NEW r2, NEW w2, NEW X, NEW f, NEW g,
           f = LaneOf(s, r, w), g = LaneOf(s2, r2, w2),
           \A t \in Threads, q \in ToCompress : Site("send", t, q) \in X \/ s2[t][q] = s[t][q],
           \A t \in Threads, q \in ToCompress : Site("recv", t, q) \in X \/ r2[t][q] = r[t][q],
           \A q \in ToCompress : Site("queue", Fragmenter, q) \in X \/ w2[q] = w[q]
    PROVE  Same(f, g, X)
<1>1. ASSUME NEW z \in Sites \ X PROVE g[z] = f[z]
  <2>1. PICK k \in {"send", "recv", "queue"}, t \in Threads, q \in ToCompress : z = Site(k, t, q)
    BY SiteFacts
  <2>3. CASE k = "send"
    <3>1. f[Site(k, t, q)] = s[t][q] /\ g[Site(k, t, q)] = s2[t][q]
      BY <2>3, LaneFacts
    <3>. QED BY <2>1, <2>3, <3>1
  <2>4. CASE k = "recv"
    <3>1. f[Site(k, t, q)] = r[t][q] /\ g[Site(k, t, q)] = r2[t][q]
      BY <2>4, LaneFacts
    <3>. QED BY <2>1, <2>4, <3>1
  <2>5. CASE k = "queue" /\ t = Fragmenter
    <3>1. f[Site(k, t, q)] = w[q] /\ g[Site(k, t, q)] = w2[q]
      BY <2>5, LaneFacts
    <3>. QED BY <2>1, <2>5, <3>1
  <2>6. CASE k = "queue" /\ t # Fragmenter
    <3>1. f[Site(k, t, q)] = <<>> /\ g[Site(k, t, q)] = <<>>
      BY <2>6, LaneFacts
    <3>. QED BY <2>1, <3>1
  <2>. QED BY <2>1, <2>3, <2>4, <2>5, <2>6
<1>. QED BY <1>1 DEF Same

LEMMA LaneQueues ==
    ToCompress \subseteq Queues /\ \A q \in ToCompress : q \notin CoarseQueues /\ Genuine(q) = FineChunks
<1>1. ASSUME NEW q \in ToCompress PROVE q \in Queues /\ q \notin CoarseQueues
  <2>1. PICK t \in Dedupers : \E i \in DOMAIN Outputs[t] : q = Outputs[t][i]
    BY DEF ToCompress, QueuesOf
  <2>2. PICK i \in DOMAIN Outputs[t] : q = Outputs[t][i]
    BY <2>1
  <2>3. t \in Threads \ {Fragmenter}
    BY Wired DEF Threads
  <2>. QED BY <2>2, <2>3, Wired, Routes
<1>. QED BY <1>1 DEF Genuine
LEMMA LanesAside ==
    ASSUME \A t \in Threads, q \in ToCompress : send'[t][q] = send[t][q] /\ recv'[t][q] = recv[t][q],
           \A q \in ToCompress : queue'[q] = queue[q],
           NEW C, NEW D, C \subseteq D, Single(Sites, Lane, C)
    PROVE  Single(Sites, Lane', D)
<1>1. PICK f, g : f = Lane /\ g = Lane' /\ f = LaneOf(send, recv, queue) /\ g = LaneOf(send', recv', queue')
  BY DEF Lane
<1>2. Same(f, g, {})
  BY <1>1, LaneSame
<1>. QED BY <1>1, <1>2, SameSingle DEF Same

\* A thread takes chunks into a buffer that is empty.
LEMMA DequeueSingle ==
    ASSUME QueueOK, RecvOK, NEW t \in Threads, NEW q \in Queues, q \in CoarseQueues => t \in Refiners,
           Dequeue(t, q), recv[t][q] = <<>>, UNCHANGED <<capacity, send>>,
           NEW C, Single(Sites, Lane, C)
    PROVE  Single(Sites, Lane', C)
<1>1. PICK n \in 1..Len(queue[q]) :
          /\ Replaced(recv, recv', t, q, First(n, queue[q]))
          /\ \A r \in Queues : queue'[r] = IF r = q THEN Rest(n, queue[q]) ELSE queue[r]
  BY Dequeued
<1>2. CASE q \notin ToCompress
  BY <1>1, <1>2, LaneQueues, LanesAside DEF Replaced
<1>3. CASE q \in ToCompress
  <2>1. PICK f, g, x, y : /\ f = Lane /\ g = Lane'
                          /\ f = LaneOf(send, recv, queue) /\ g = LaneOf(send', recv', queue')
                          /\ x = Site("queue", Fragmenter, q) /\ y = Site("recv", t, q)
    BY DEF Lane
  <2>2. PICK s \in Seq(Genuine(q)) : s = queue[q] /\ Len(s) \in Nat
    BY LenProperties DEF QueueOK
  <2>3. n \in Nat /\ n <= Len(s)
    BY <2>2
  <2>4. /\ Len(First(n, s)) = n /\ \A i \in 1..n : First(n, s)[i] = s[i]
        /\ Len(Rest(n, s)) = Len(s) - n /\ \A i \in 1..Len(s) - n : Rest(n, s)[i] = s[n + i]
    BY <2>3, Pieces
  <2>5. f[x] = s /\ x \in Sites /\ x # y
    BY <1>3, <2>1, <2>2, LaneFacts, SiteFacts
  <2>6. g[x] = Rest(n, s) /\ g[y] = First(n, s)
    <3>1. queue'[q] = Rest(n, s) /\ recv'[t][q] = First(n, s)
      BY <1>1, <2>2 DEF Replaced
    <3>. QED BY <1>3, <2>1, <3>1, LaneFacts
  <2>7. \A z \in Sites \ {x, y} : g[z] = f[z]
    <3>1. \A u \in Threads, r \in ToCompress : Site("recv", u, r) \in {x, y} \/ recv'[u][r] = recv[u][r]
      BY <1>1, <2>1, LaneQueues DEF Replaced
    <3>2. \A r \in ToCompress : Site("queue", Fragmenter, r) \in {x, y} \/ queue'[r] = queue[r]
      BY <1>1, <2>1, LaneQueues
    <3>3. \A u \in Threads, r \in ToCompress : Site("send", u, r) \in {x, y} \/ send'[u][r] = send[u][r]
      OBVIOUS
    <3>4. Same(f, g, {x, y})
      BY <2>1, <3>1, <3>2, <3>3, LaneSame
    <3>. QED BY <3>4 DEF Same
  <2>8. Shifted(Sites, f, g, x, y, n, 0)
    <3>1. ASSUME NEW z \in Sites, NEW i \in 1..Len(g[z])
          PROVE  \/ z # x /\ i \in 1..Len(f[z]) /\ g[z][i] = f[z][i]
                 \/ z = x /\ i + n \in 1..Len(f[x]) /\ g[z][i] = f[x][i + n]
                 \/ z = y /\ \E k \in 1..n : k \in 1..Len(f[x]) /\ i = 0 + k /\ g[z][i] = f[x][k]
      <4>1. CASE z = x
        <5>1. i \in 1..Len(s) - n /\ g[z][i] = s[n + i] /\ n + i = i + n /\ i + n \in 1..Len(s)
          BY <2>2, <2>3, <2>4, <2>6, <4>1
        <5>. QED BY <2>5, <4>1, <5>1
      <4>2. CASE z = y
        <5>1. i \in 1..n /\ i \in 1..Len(s) /\ g[z][i] = s[i] /\ i = 0 + i
          BY <2>2, <2>3, <2>4, <2>6, <4>2
        <5>. QED BY <2>5, <4>2, <5>1
      <4>3. CASE z \notin {x, y}
        BY <2>7, <4>3
      <4>. QED BY <4>1, <4>2, <4>3
    <3>. QED BY <3>1 DEF Shifted
  <2>. QED BY <2>1, <2>3, <2>5, <2>8, ShiftedSingle
<1>. QED BY <1>2, <1>3

\* Deduplicate puts the first chunk of a content.
LEMMA PutSingle ==
    ASSUME SendOK, NEW t \in Threads, NEW q \in ToCompress, NEW chunk \in FineChunks,
           Replaced(send, send', t, q, Append(send[t][q], chunk)), queue' = queue,
           \A u \in Threads, r \in ToCompress : recv'[u][r] = recv[u][r],
           NEW C, NEW D, Single(Sites, Lane, C), C \subseteq D, chunk.data \in D \ C
    PROVE  Single(Sites, Lane', D)
<1>1. PICK f, g, x : /\ f = Lane /\ g = Lane' /\ x = Site("send", t, q)
                     /\ f = LaneOf(send, recv, queue) /\ g = LaneOf(send', recv', queue')
  BY DEF Lane
<1>2. f[x] = send[t][q] /\ x \in Sites /\ f[x] \in Seq(FineChunks)
  BY <1>1, LaneFacts, SiteFacts, LaneQueues DEF SendOK, Filled
<1>3. g[x] = Append(f[x], chunk)
  <2>1. send'[t][q] = Append(send[t][q], chunk)
    BY LaneQueues DEF Replaced
  <2>. QED BY <1>1, <1>2, <2>1, LaneFacts
<1>4. \A z \in Sites \ {x} : g[z] = f[z]
  <2>1. \A u \in Threads, r \in ToCompress : Site("send", u, r) \in {x} \/ send'[u][r] = send[u][r]
    BY <1>1, LaneQueues DEF Replaced
  <2>2. Same(f, g, {x})
    BY <1>1, <2>1, LaneSame
  <2>. QED BY <2>2 DEF Same
<1>5. Single(Sites, f, C) => Single(Sites, g, D)
  BY <1>2, <1>3, <1>4, AddedSingle
<1>. QED BY <1>1, <1>5

\* Compress takes it.
LEMMA PopSingle ==
    ASSUME RecvOK, NEW t \in Threads, NEW q \in ToCompress, recv[t][q] # <<>>,
           Replaced(recv, recv', t, q, Tail(recv[t][q])), queue' = queue,
           \A u \in Threads, r \in ToCompress : send'[u][r] = send[u][r],
           NEW C, Single(Sites, Lane, C)
    PROVE  /\ Head(recv[t][q]).data \in C
           /\ Single(Sites, Lane', C \ {Head(recv[t][q]).data})
<1>1. PICK f, g, x : /\ f = Lane /\ g = Lane' /\ x = Site("recv", t, q)
                     /\ f = LaneOf(send, recv, queue) /\ g = LaneOf(send', recv', queue')
  BY DEF Lane
<1>2. f[x] = recv[t][q] /\ x \in Sites /\ f[x] \in Seq(FineChunks)
  BY <1>1, LaneFacts, SiteFacts, LaneQueues DEF RecvOK, Filled
<1>4. g[x] = Tail(f[x])
  <2>1. recv'[t][q] = Tail(recv[t][q])
    BY LaneQueues DEF Replaced
  <2>. QED BY <1>1, <1>2, <2>1, LaneFacts
<1>5. \A z \in Sites \ {x} : g[z] = f[z]
  <2>1. \A u \in Threads, r \in ToCompress : Site("recv", u, r) \in {x} \/ recv'[u][r] = recv[u][r]
    BY <1>1, LaneQueues DEF Replaced
  <2>2. Same(f, g, {x})
    BY <1>1, <2>1, LaneSame
  <2>. QED BY <2>2 DEF Same
<1>6. f[x] # <<>>
  BY <1>2
<1>7. Single(Sites, f, C) => Head(f[x]).data \in C /\ Single(Sites, g, C \ {Head(f[x]).data})
  BY <1>2, <1>4, <1>5, <1>6, TailSingle
<1>. QED BY <1>1, <1>2, <1>7
Uncompressed == {c \in Contents : state[c] = "uncompressed"}

\* An uncompressed content stands once on the way to Compress, and nothing else stands there; what
\* is in the archive is flushed, and has come with its data once.
Unique ==
    /\ Single(Sites, Lane, Uncompressed)
    /\ \A i \in 1..Len(archive) : state[archive[i].data] = "flushed"
    /\ \A i, j \in 1..Len(archive) :
          /\ ~archive[i].fingerprint /\ ~archive[j].fingerprint
          /\ archive[i].data = archive[j].data
          => i = j

LEMMA FlushedKeepsUnique ==
    ASSUME Inv, Unique, archive' = archive, Single(Sites, Lane', Uncompressed'),
           \A c \in Contents : state[c] = "flushed" => state'[c] = "flushed"
    PROVE  Unique'
<1>1. \A i \in 1..Len(archive) : archive[i].data \in Contents
  <2>1. archive \in Seq([fingerprint : BOOLEAN, data : Contents])
    BY DEF Inv, Written
  <2>2. \A i \in 1..Len(archive) : archive[i] \in [fingerprint : BOOLEAN, data : Contents]
    BY <2>1, ElementOfSeq
  <2>. QED BY <2>2
<1>. QED BY <1>1 DEF Unique

LEMMA AsideKeepsUnique ==
    ASSUME Inv, Unique, archive' = archive, state' = state,
           \A t \in Threads, q \in ToCompress : send'[t][q] = send[t][q] /\ recv'[t][q] = recv[t][q],
           \A q \in ToCompress : queue'[q] = queue[q]
    PROVE  Unique'
<1>1. PICK C : C = Uncompressed /\ C = Uncompressed'
  BY DEF Uncompressed
<1>2. Single(Sites, Lane', C)
  BY <1>1, LanesAside DEF Unique
<1>. QED BY <1>1, <1>2, FlushedKeepsUnique

LEMMA FragmentKeepsUnique ==
    ASSUME Inv, Unique, Fragment, archive' = archive
    PROVE  Unique'
<1> DEFINE t == Fragmenter
<1>1. UNCHANGED <<queue, recv, state>>
  BY FragmentCases DEF Inv
<1>2. ASSUME NEW i \in DOMAIN Outputs[t], NEW s, Fragments(Outputs[t][i], s) PROVE Unique'
  <2>1. PICK q \in Queues : q = Outputs[t][i] /\ q \in CoarseQueues
    BY CoarseFacts DEF CoarseQueues
  <2>2. send' = [send EXCEPT ![t][q] = Append(send[t][q], Head(inHand[t]))]
    BY <1>2, <2>1 DEF Fragments
  <2>3. PICK e : send' = [send EXCEPT ![t][q] = e]
    BY <2>2
  <2>4. \A u \in Threads, r \in ToCompress : send'[u][r] = send[u][r]
    BY <2>1, <2>3, LaneQueues DEF Inv, Stages, SendOK, Filled, Buffers
  <2>. QED BY <1>1, <2>4, AsideKeepsUnique
<1>3. ASSUME NEW s, Closes(s) PROVE Unique'
  BY <1>1, <1>3, AsideKeepsUnique DEF Closes
<1>. QED BY <1>2, <1>3, FragmentCases DEF Inv

LEMMA RefineKeepsUnique ==
    ASSUME Inv, Unique, NEW t \in Refiners, RefineChunk(t), UNCHANGED <<encoder, capacity, archive>>
    PROVE  Unique'
<1>1. /\ t \in Threads /\ Inputs[t][1] \in Queues /\ Inputs[t][1] \in CoarseQueues
      /\ Outputs[t][1] \in Queues /\ Outputs[t][1] \notin ToCompress
  BY Wired, Lanes, Routes
<1>2. PICK in, out \in Queues : in = Inputs[t][1] /\ out = Outputs[t][1]
  BY <1>1
<1>3. PICK chunk \in FineChunks : Replaced(send, send', t, out, Append(send[t][out], chunk))
  BY <1>2, RefineChunkKeepsStages DEF Inv
<1>4. UNCHANGED <<queue, state>>
  BY Zenon DEF RefineChunk
<1>5. PICK e : recv' = recv \/ recv' = [recv EXCEPT ![t][in] = e]
  BY <1>2, Zenon DEF RefineChunk
<1>6. \A u \in Threads, r \in ToCompress : recv'[u][r] = recv[u][r]
  <2>1. CASE recv' = [recv EXCEPT ![t][in] = e]
    BY <1>1, <1>2, <2>1, LaneQueues DEF Inv, Stages, RecvOK, Filled, Buffers
  <2>. QED BY <1>5, <2>1
<1>7. \A u \in Threads, r \in ToCompress : send'[u][r] = send[u][r]
  BY <1>1, <1>2, <1>3, LaneQueues DEF Replaced
<1>. QED BY <1>4, <1>6, <1>7, AsideKeepsUnique

LEMMA DeduplicateKeepsUnique ==
    ASSUME Inv, Unique, NEW t \in Dedupers, NEW before \in Seq(Own), DeduplicateChunk(t, before),
           UNCHANGED <<encoder, capacity, archive>>
    PROVE  Unique'
<1>1. /\ t \in Threads /\ Inputs[t][1] \in Queues /\ Inputs[t][1] \notin ToCompress
      /\ Outputs[t][1] \in Queues /\ Outputs[t][1] \in ToCompress
      /\ Extras[t][1] \in Queues /\ Extras[t][1] \notin ToCompress
  <2>1. t \in Threads \ Compressors /\ 1 \in DOMAIN Inputs[t]
    BY Wired DEF Threads
  <2>. QED BY <2>1, Wired, Lanes, Routes
<1>2. PICK in, out, extra \in Queues : in = Inputs[t][1] /\ out = Outputs[t][1] /\ extra = Extras[t][1]
  BY <1>1
<1>3. PICK c \in FineChunks, dup \in BOOLEAN :
         /\ c = Head(recv[t][in]) /\ dup = (state[c.data] # "absent")
         /\ Replaced(send, send', t, Destination(t, dup),
                     Append(send[t][Destination(t, dup)], [c EXCEPT !.isDuplicate = dup]))
  BY <1>2, DeduplicateChunkKeepsStages, Zenon DEF Inv
<1>4. PICK d \in FineChunks : d = [c EXCEPT !.isDuplicate = dup] /\ d.data = c.data
  BY MarkGenuine, Kinds DEF Fine
<1>a. PICK to \in Queues : to = Destination(t, dup) /\ to = IF dup THEN extra ELSE out
  BY <1>2 DEF Destination
<1>b. Replaced(send, send', t, to, Append(send[t][to], d))
  <2>1. Replaced(send, send', t, Destination(t, dup),
                 Append(send[t][Destination(t, dup)], [c EXCEPT !.isDuplicate = dup]))
    BY <1>3, Zenon
  <2>2. [c EXCEPT !.isDuplicate = dup] = d /\ Destination(t, dup) = to
    BY <1>4, <1>a, Zenon
  <2>. QED BY <2>1, <2>2, Zenon
<1>5. /\ recv' = [recv EXCEPT ![t][in] = Tail(recv[t][in])] /\ queue' = queue
      /\ \/ dup /\ state' = state
         \/ ~dup /\ state[c.data] = "absent" /\ state' = [state EXCEPT ![c.data] = "uncompressed"]
  BY <1>2, <1>3, Zenon DEF DeduplicateChunk, sub_Deduplicate
<1>6. \A u \in Threads, r \in ToCompress : recv'[u][r] = recv[u][r]
  <2>1. PICK e : recv' = [recv EXCEPT ![t][in] = e]
    BY <1>5
  <2>. QED BY <1>1, <1>2, <2>1, LaneQueues DEF Inv, Stages, RecvOK, Filled, Buffers
<1>7. c.data \in Contents /\ state \in [Contents -> {"absent", "uncompressed", "compressed", "flushed"}]
  BY FineFacts DEF Inv, Traced
<1>8. CASE dup
  <2>1. state' = state
    BY <1>5, <1>8
  <2>2. \A u \in Threads, r \in ToCompress : send'[u][r] = send[u][r]
    BY <1>1, <1>2, <1>a, <1>b, <1>8, LaneQueues DEF Replaced
  <2>. QED BY <1>5, <1>6, <2>1, <2>2, AsideKeepsUnique
<1>9. CASE ~dup
  <2>1. state[c.data] = "absent" /\ state' = [state EXCEPT ![c.data] = "uncompressed"]
    BY <1>5, <1>9
  <2>2. PICK k \in Contents : k = c.data /\ state[k] = "absent" /\ state' = [state EXCEPT ![k] = "uncompressed"]
    BY <1>7, <2>1
  <2>3. PICK C, D : C = Uncompressed /\ D = Uncompressed'
    OBVIOUS
  <2>4. C \subseteq D /\ k \in D /\ k \notin C
    BY <1>7, <2>2, <2>3 DEF Uncompressed
  <2>5. Replaced(send, send', t, out, Append(send[t][out], d))
    BY <1>a, <1>b, <1>9
  <2>6. Single(Sites, Lane', D)
    <3>1. SendOK /\ d.data \in D \ C /\ Single(Sites, Lane, C) /\ out \in ToCompress
      BY <1>1, <1>2, <1>4, <2>2, <2>3, <2>4 DEF Inv, Stages, Unique
    <3>. QED BY <1>1, <1>5, <1>6, <2>4, <2>5, <3>1, PutSingle
  <2>7. \A x \in Contents : state[x] = "flushed" => state'[x] = "flushed"
    BY <1>7, <2>2
  <2>. QED BY <2>3, <2>6, <2>7, FlushedKeepsUnique
<1>. QED BY <1>8, <1>9
LEMMA CompressKeepsUnique ==
    ASSUME Inv, Unique, NEW t \in Compressors, CompressChunk(t), UNCHANGED <<encoder, capacity, archive>>
    PROVE  Unique'
<1>1. /\ t \in Threads /\ Inputs[t][1] \in Queues /\ Inputs[t][1] \in ToCompress
      /\ Outputs[t][1] \in Queues /\ Outputs[t][1] \notin ToCompress
  <2>1. t \in Threads \ Dedupers /\ 1 \in DOMAIN Outputs[t] /\ 1 \in DOMAIN Inputs[t]
    BY Wired DEF Threads
  <2>2. QueuesOf(Inputs, Compressors) \subseteq ToCompress
    BY WiringAssumption
  <2>3. Inputs[t][1] \in QueuesOf(Inputs, Compressors)
    BY <2>1 DEF QueuesOf
  <2>. QED BY <2>1, <2>2, <2>3, Wired, Lanes, Routes
<1>2. PICK in, out \in Queues : in = Inputs[t][1] /\ out = Outputs[t][1]
  BY <1>1
<1>3. PICK c \in FineChunks :
         /\ c = Head(recv[t][in]) /\ state' = [state EXCEPT ![c.data] = "compressed"]
         /\ Replaced(send, send', t, out, Append(send[t][out], c))
  BY <1>2, CompressChunkKeepsStages, Zenon DEF Inv
<1>4. /\ recv[t][in] # <<>> /\ recv' = [recv EXCEPT ![t][in] = Tail(recv[t][in])]
      /\ queue' = queue
  BY <1>2, Zenon DEF CompressChunk
<1>5. Replaced(recv, recv', t, in, Tail(recv[t][in]))
  BY <1>1, <1>4, Taken DEF Inv, Stages, RecvOK
<1>6. \A u \in Threads, r \in ToCompress : send'[u][r] = send[u][r]
  BY <1>1, <1>2, <1>3, LaneQueues DEF Replaced
<1>7. PICK k \in Contents : k = c.data /\ state' = [state EXCEPT ![k] = "compressed"]
  BY <1>3, FineFacts
<1>8. state \in [Contents -> {"absent", "uncompressed", "compressed", "flushed"}]
  BY DEF Inv, Traced
<1>9. PICK C, D : C = Uncompressed /\ D = Uncompressed'
  OBVIOUS
<1>10. k \in C /\ Single(Sites, Lane', C \ {k})
  <2>1. RecvOK /\ in \in ToCompress /\ Single(Sites, Lane, C)
    BY <1>1, <1>2, <1>9 DEF Inv, Stages, Unique
  <2>. QED BY <1>1, <1>3, <1>4, <1>5, <1>6, <1>7, <2>1, PopSingle
<1>11. C \ {k} = D
  BY <1>7, <1>8, <1>9 DEF Uncompressed
<1>12. state[k] = "uncompressed"
  BY <1>9, <1>10 DEF Uncompressed
<1>13. \A x \in Contents : state[x] = "flushed" => state'[x] = "flushed"
  BY <1>7, <1>8, <1>12
<1>. QED BY <1>9, <1>10, <1>11, <1>13, FlushedKeepsUnique

LEMMA StageKeepsUnique ==
    ASSUME Inv, Unique, NEW t \in Threads, Stage(t), UNCHANGED <<encoder, capacity, writer, misses>>
    PROVE  Unique'
<1>1. UNCHANGED <<encoder, capacity, archive>>
  BY DEF writer
<1>2. CASE t = Fragmenter /\ Fragment
  BY <1>1, <1>2, FragmentKeepsUnique
<1>3. CASE Worker(t)
  <2>1. t \in Workers /\ (Receive(t) \/ (\E s \in Seq(Own) : Leave(t, s)) \/ Works(t))
    BY <1>3, WorkerCases
  <2>2. CASE Receive(t)
    <3>1. Inputs[t][1] \in Queues /\ (Inputs[t][1] \in CoarseQueues => t \in Refiners)
      BY <2>1, Wired, Lanes DEF Workers
    <3>2. /\ Dequeue(t, Inputs[t][1]) /\ recv[t][Inputs[t][1]] = <<>> /\ UNCHANGED <<send, state>>
      BY <2>2, Zenon DEF Receive
    <3>3. QueueOK /\ RecvOK
      BY DEF Inv, Stages
    <3>4. PICK C : C = Uncompressed /\ C = Uncompressed'
      BY <3>2 DEF Uncompressed
    <3>5. Single(Sites, Lane', C)
      BY <1>1, <3>1, <3>2, <3>3, <3>4, DequeueSingle DEF Unique
    <3>. QED BY <1>1, <3>2, <3>4, <3>5, FlushedKeepsUnique
  <2>3. CASE \E s \in Seq(Own) : Leave(t, s)
    <3>1. UNCHANGED <<queue, send, recv, state>>
      BY <2>3 DEF Leave
    <3>. QED BY <1>1, <3>1, AsideKeepsUnique
  <2>4. CASE t \in Refiners /\ RefineChunk(t)
    BY <1>1, <2>4, RefineKeepsUnique
  <2>5. CASE t \in Dedupers /\ \E before \in Seq(Own) : DeduplicateChunk(t, before)
    BY <1>1, <2>5, DeduplicateKeepsUnique
  <2>6. CASE t \in Compressors /\ CompressChunk(t)
    BY <1>1, <2>6, CompressKeepsUnique
  <2>7. CASE t \in Compressors /\ CrossPop(t)
    <3>1. UNCHANGED <<queue, send, recv, state>>
      BY <2>7 DEF CrossPop
    <3>. QED BY <1>1, <3>1, AsideKeepsUnique
  <2>. QED BY <2>1, <2>2, <2>3, <2>4, <2>5, <2>6, <2>7 DEF Works
<1>. QED BY <1>2, <1>3, Zenon DEF Stage, Worker

\* A buffer whose queue is not one to Compress is not emptied into one.
LEMMA FillsToCompress ==
    \A t \in Threads \ Dedupers : Fills(t) \cap ToCompress = {}
<1> SUFFICES ASSUME NEW t \in Threads \ Dedupers PROVE Fills(t) \cap ToCompress = {}
  OBVIOUS
<1>1. CASE t = Fragmenter
  BY <1>1, LaneQueues DEF Fills
<1>2. CASE t # Fragmenter /\ t \in Workers
  <2>1. 1 \in DOMAIN Outputs[t]
    BY <1>2, Wired DEF Workers
  <2>2. Outputs[t][1] \notin ToCompress
    BY <2>1, Routes
  <2>. QED BY <1>2, <2>2 DEF Fills
<1>3. CASE t # Fragmenter /\ t \notin Workers
  BY <1>3 DEF Fills
<1>. QED BY <1>1, <1>2, <1>3

\* The sequence b is r and, behind it, a.
Joined(b, r, a) ==
    /\ \A i \in 1..Len(r) : b[i] = r[i]
    /\ \A i \in 1..Len(a) : b[Len(r) + i] = a[i]
    /\ \A i \in 1..Len(b) : i \in 1..Len(r) \/ \E j \in 1..Len(a) : i = Len(r) + j

LEMMA JoinedConcat ==
    ASSUME NEW q, NEW r \in Seq(Genuine(q)), NEW a \in Seq(Genuine(q))
    PROVE  Joined(r \o a, r, a)
  BY ConcatAt DEF Joined

LEMMA MoveKeepsUnique ==
    ASSUME Inv, Ways, Lossless, Unique, NEW t \in Threads, Move(t)
    PROVE  Unique'
<1>1. PICK o \in Operations, n \in Nat :
          /\ o = Head(todo[t]) /\ todo[t] # <<>> /\ todo[t] \in Seq(Operations)
          /\ n <= Len(send[t][o.from])
          /\ Replaced(send, send', t, o.from, Rest(n, send[t][o.from]))
          /\ queue' = [queue EXCEPT ![o.to] = queue[o.to] \o First(n, send[t][o.from])]
  BY MoveParts, Zenon DEF Moved, Inv
<1>2. UNCHANGED <<recv, state, archive>>
  <2>1. UNCHANGED <<recv, state, writer>>
    BY Zenon DEF Move
  <2>. QED BY <2>1 DEF writer
<1>3. PICK from, to \in Queues : from = o.from /\ to = o.to /\ Genuine(from) = Genuine(to)
  BY OperationFacts
<1>4. PICK s, r \in Seq(Genuine(to)) : s = send[t][from] /\ r = queue[to]
  BY <1>3 DEF Inv, Stages, SendOK, Filled, QueueOK
<1>a. /\ n <= Len(s) /\ Len(s) \in Nat /\ Len(r) \in Nat
      /\ Replaced(send, send', t, from, Rest(n, s))
      /\ queue' = [queue EXCEPT ![to] = r \o First(n, s)]
  <2>1. Len(s) \in Nat /\ Len(r) \in Nat
    BY LenProperties
  <2>2. n <= Len(s) /\ Replaced(send, send', t, from, Rest(n, s))
    BY <1>1, <1>3, <1>4, Zenon
  <2>3. queue' = [queue EXCEPT ![to] = r \o First(n, s)]
    BY <1>1, <1>3, <1>4, Zenon
  <2>. QED BY <2>1, <2>2, <2>3
<1>5. PICK a, e \in Seq(Genuine(to)) : a = First(n, s) /\ e = Rest(n, s)
  BY <1>a, PiecesAt, Zenon
<1>6. PICK b \in Seq(Genuine(to)) : b = r \o a
  BY ConcatAt, Zenon
<1>7. /\ Replaced(send, send', t, from, e)
      /\ \A q \in Queues : queue'[q] = IF q = to THEN b ELSE queue[q]
  <2>1. Replaced(send, send', t, from, e)
    BY <1>a, <1>5, Zenon
  <2>2. queue' = [queue EXCEPT ![to] = b]
    BY <1>a, <1>5, <1>6, Zenon
  <2>. QED BY <2>1, <2>2 DEF Inv, Stages, QueueOK
<1>8. to \in Fills(t)
  <2>1. o.op # "end"
    <3>1. ~Finished(t)
      BY MoveUnfinished, Zenon
    <3>. QED BY ONLY <1>1, <3>1, Zenon DEF Finished
  <2>2. o \in OpsOf(t)
    <3>1. Head(todo[t]) \in OpsOf(t)
      BY ONLY <1>1, Lossless, NextOperation, Zenon DEF Lossless, Steps
    <3>. QED BY ONLY <1>1, <3>1, Zenon
  <2>3. o.to \in Fills(t)
    BY ONLY <2>1, <2>2 DEF OpsOf
  <2>. QED BY ONLY <1>3, <2>3
<1>9. PICK C : C = Uncompressed /\ C = Uncompressed'
  BY <1>2 DEF Uncompressed
<1>10. CASE t \notin Dedupers
  <2>1. to \notin ToCompress
    BY <1>8, <1>10, FillsToCompress
  <2>2. from \in ToCompress => e = s
    <3>1. SUFFICES ASSUME from \in ToCompress PROVE e = s
      OBVIOUS
    <3>2. from \notin Loads(t)
      BY <1>10, <3>1, FillsToCompress, Lines
    <3>3. s = <<>>
      BY <1>4, <3>2 DEF Lossless, Flow, SendHeld
    <3>4. Len(s) = 0 /\ n = 0
      BY <1>a, <3>3
    <3>5. Len(e) = 0
      <4>1. Len(Rest(n, s)) = Len(s) - n
        BY <1>a, PiecesAt, Zenon
      <4>. QED BY <1>5, <3>4, <4>1
    <3>6. e = <<>>
      BY <3>5, EmptySeq
    <3>. QED BY <3>3, <3>6
  <2>3. \A u \in Threads, q \in ToCompress : send'[u][q] = send[u][q]
    BY <1>4, <1>7, <2>2, LaneQueues DEF Replaced
  <2>4. \A q \in ToCompress : queue'[q] = queue[q]
    BY <1>7, <2>1, LaneQueues
  <2>. QED BY <1>2, <2>3, <2>4, AsideKeepsUnique
<1>11. CASE t \in Dedupers
  <2>1. from = to
    <3>1. todo[t] \in Seq(Own)
      BY ONLY Ways, <1>11, Zenon DEF Ways, Straight
    <3>2. o \in Own
      BY ONLY <1>1, <3>1, HeadTailProperties
    <3>. QED BY <1>3, <3>2 DEF Own
  <2>2. CASE to \notin ToCompress
    <3>1. \A u \in Threads, q \in ToCompress : send'[u][q] = send[u][q]
      BY <1>7, <2>1, <2>2, LaneQueues DEF Replaced
    <3>2. \A q \in ToCompress : queue'[q] = queue[q]
      BY <1>7, <2>2, LaneQueues
    <3>. QED BY <1>2, <3>1, <3>2, AsideKeepsUnique
  <2>3. CASE to \in ToCompress
    <3>1. PICK f, g, x, y : /\ f = Lane /\ g = Lane'
                            /\ f = LaneOf(send, recv, queue) /\ g = LaneOf(send', recv', queue')
                            /\ x = Site("send", t, to) /\ y = Site("queue", Fragmenter, to)
      BY DEF Lane
    <3>2. f[x] = s /\ f[y] = r /\ x \in Sites /\ x # y
      BY <1>4, <2>1, <2>3, <3>1, LaneFacts, SiteFacts
    <3>3. g[x] = e /\ g[y] = b
      <4>1. send'[t][to] = e /\ queue'[to] = b
        BY <1>7, <2>1 DEF Replaced
      <4>. QED BY <2>3, <3>1, <4>1, LaneFacts
    <3>4. \A z \in Sites \ {x, y} : g[z] = f[z]
      <4>1. \A u \in Threads, q \in ToCompress : Site("send", u, q) \in {x, y} \/ send'[u][q] = send[u][q]
        BY <1>7, <2>1, <3>1, LaneQueues DEF Replaced
      <4>2. \A q \in ToCompress : Site("queue", Fragmenter, q) \in {x, y} \/ queue'[q] = queue[q]
        BY <1>7, <3>1, LaneQueues
      <4>3. \A u \in Threads, q \in ToCompress : Site("recv", u, q) \in {x, y} \/ recv'[u][q] = recv[u][q]
        BY <1>2
      <4>4. Same(f, g, {x, y})
        BY <3>1, <4>1, <4>2, <4>3, LaneSame
      <4>. QED BY <4>4 DEF Same
    <3>5. /\ n <= Len(s) /\ Len(s) \in Nat /\ Len(r) \in Nat
          /\ Len(a) = n /\ \A i \in 1..n : a[i] = s[i]
          /\ Len(e) = Len(s) - n /\ \A i \in 1..Len(s) - n : e[i] = s[n + i]
      <4>1. /\ Len(First(n, s)) = n /\ \A i \in 1..n : First(n, s)[i] = s[i]
            /\ Len(Rest(n, s)) = Len(s) - n /\ \A i \in 1..Len(s) - n : Rest(n, s)[i] = s[n + i]
        BY <1>a, Pieces, Zenon
      <4>. QED BY <1>a, <1>5, <4>1, Zenon
    <3>6. /\ \A i \in 1..Len(r) : b[i] = r[i]
          /\ \A i \in 1..Len(a) : b[Len(r) + i] = a[i]
          /\ \A i \in 1..Len(b) : i \in 1..Len(r) \/ \E j \in 1..Len(a) : i = Len(r) + j
      <4>1. Joined(r \o a, r, a)
        BY JoinedConcat, Zenon
      <4>2. Joined(b, r, a)
        BY ONLY <1>6, <4>1, Zenon
      <4>. QED BY ONLY <4>2, Zenon DEF Joined
    <3>7. Shifted(Sites, f, g, x, y, n, Len(r))
      <4>1. ASSUME NEW z \in Sites, NEW i \in 1..Len(g[z])
            PROVE  \/ z # x /\ i \in 1..Len(f[z]) /\ g[z][i] = f[z][i]
                   \/ z = x /\ i + n \in 1..Len(f[x]) /\ g[z][i] = f[x][i + n]
                   \/ z = y /\ \E k \in 1..n : k \in 1..Len(f[x]) /\ i = Len(r) + k /\ g[z][i] = f[x][k]
        <5>1. CASE z = x
          <6>1. i \in 1..Len(s) - n /\ g[z][i] = s[n + i] /\ n + i = i + n /\ i + n \in 1..Len(s)
            BY <3>3, <3>5, <5>1
          <6>. QED BY <3>2, <5>1, <6>1
        <5>2. CASE z = y /\ i \in 1..Len(r)
          BY <3>2, <3>3, <3>6, <5>2
        <5>3. CASE z = y /\ i \notin 1..Len(r)
          <6>1. PICK j \in 1..Len(a) : i = Len(r) + j
            BY <3>3, <3>6, <5>3
          <6>2. j \in 1..n /\ j \in 1..Len(s)
            BY <3>5, <6>1
          <6>a. g[z][i] = s[j]
            BY <3>3, <3>5, <3>6, <5>3, <6>1, <6>2, Zenon
          <6>. QED BY <3>2, <5>3, <6>1, <6>2, <6>a
        <5>4. CASE z \notin {x, y}
          BY <3>4, <5>4
        <5>. QED BY <5>1, <5>2, <5>3, <5>4
      <4>. QED BY <4>1 DEF Shifted
    <3>8. Single(Sites, f, C)
      BY <1>9, <3>1 DEF Unique
    <3>9. Single(Sites, g, C)
      BY <3>2, <3>5, <3>7, <3>8, ShiftedSingle
    <3>. QED BY <1>2, <1>9, <3>1, <3>9, FlushedKeepsUnique
  <2>. QED BY <2>2, <2>3
<1>. QED BY <1>10, <1>11
LEMMA ReadKeepsUnique ==
    ASSUME Inv, Lossless, Unique, Read
    PROVE  Unique'
<1>1. /\ UNCHANGED <<capacity, send, state, archive>>
      /\ \/ \E j \in DOMAIN Inputs[Reorderer] :
               Takes(Inputs[Reorderer][j]) /\ recv[Reorderer][Inputs[Reorderer][j]] = <<>>
         \/ Finds
         \/ \E q \in Queues : Accept(q)
  BY ReadDuty DEF Inv
<1>2. Reorderer \in Threads /\ Reorderer \notin Refiners /\ Reorderer \notin Compressors
  BY Wired
<1>3. ASSUME NEW j \in DOMAIN Inputs[Reorderer], Takes(Inputs[Reorderer][j]),
             recv[Reorderer][Inputs[Reorderer][j]] = <<>>
      PROVE  Unique'
  <2>1. Inputs[Reorderer][j] \in Queues /\ Inputs[Reorderer][j] \notin CoarseQueues
    BY <1>2, Wired, Lanes
  <2>2. Dequeue(Reorderer, Inputs[Reorderer][j])
    BY <1>3 DEF Takes
  <2>3. QueueOK /\ RecvOK
    BY DEF Inv, Stages
  <2>4. PICK C : C = Uncompressed /\ C = Uncompressed'
    BY <1>1 DEF Uncompressed
  <2>5. Single(Sites, Lane', C)
    BY <1>1, <1>2, <1>3, <2>1, <2>2, <2>3, <2>4, DequeueSingle DEF Unique
  <2>. QED BY <1>1, <2>4, <2>5, FlushedKeepsUnique
<1>4. CASE Finds
  BY <1>1, <1>4, AsideKeepsUnique DEF Finds
<1>5. ASSUME NEW q \in Queues, Accept(q) PROVE Unique'
  <2>1. recv[Reorderer][q] # <<>> /\ queue' = queue
    BY <1>5, Zenon DEF Accept
  <2>2. PICK e : recv' = [recv EXCEPT ![Reorderer][q] = e]
    BY <1>5, Zenon DEF Accept
  <2>3. q \notin ToCompress
    <3>1. q \in Asked(Reorderer)
      BY <1>2, <2>1 DEF Lossless, Flow, RecvHeld
    <3>2. PICK i \in DOMAIN Inputs[Reorderer] : q = Inputs[Reorderer][i]
      BY <3>1, InputFacts
    <3>. QED BY <1>2, <3>2, Routes
  <2>4. \A u \in Threads, r \in ToCompress : recv'[u][r] = recv[u][r]
    BY <1>2, <2>2, <2>3, LaneQueues DEF Inv, Stages, RecvOK, Filled, Buffers
  <2>. QED BY <1>1, <2>1, <2>4, AsideKeepsUnique
<1>. QED BY <1>1, <1>3, <1>4, <1>5

LEMMA WriteKeepsUnique ==
    ASSUME Inv, Unique, WriteAndAdvance
    PROVE  Unique'
<1>1. PICK c \in FineChunks, r \in Entry :
          /\ hold = <<c>> /\ r.data = c.data /\ (r.fingerprint <=> state[c.data] = "flushed")
          /\ archive' = Append(archive, r)
          /\ state' = [state EXCEPT ![c.data] = "flushed"]
  BY WriteParts
<1>2. UNCHANGED <<queue, send, recv>>
  BY DEF WriteAndAdvance, stages
<1>3. state[c.data] # "uncompressed"
  <2>1. hold[1] = c
    BY <1>1
  <2>. QED BY <2>1, Zenon DEF WriteAndAdvance, write_chunk_to_file
<1>4. PICK k \in Contents : k = c.data /\ state' = [state EXCEPT ![k] = "flushed"]
  BY <1>1, FineFacts
<1>5. /\ state \in [Contents -> {"absent", "uncompressed", "compressed", "flushed"}]
      /\ archive \in Seq(Entry)
  BY DEF Inv, Traced, Written, Entry
<1>6. PICK C : C = Uncompressed /\ C = Uncompressed'
  BY <1>3, <1>4, <1>5 DEF Uncompressed
<1>7. Single(Sites, Lane', C)
  BY <1>2, <1>6, LanesAside DEF Unique
<1>8. /\ \A i \in 1..Len(archive) : archive'[i] = archive[i]
      /\ archive'[Len(archive) + 1] = r
      /\ \A i \in 1..Len(archive') : i \in 1..Len(archive) \/ i = Len(archive) + 1
  BY <1>1, <1>5, AppendAt
<1>9. \A i \in 1..Len(archive) : archive[i].data \in Contents /\ state[archive[i].data] = "flushed"
  <2>1. \A i \in 1..Len(archive) : archive[i] \in Entry
    BY <1>5, ElementOfSeq
  <2>. QED BY <2>1 DEF Entry, Unique
<1>10. ASSUME NEW i \in 1..Len(archive') PROVE state'[archive'[i].data] = "flushed"
  <2>1. CASE i \in 1..Len(archive)
    BY <1>4, <1>5, <1>8, <1>9, <2>1
  <2>2. CASE i = Len(archive) + 1
    BY <1>1, <1>4, <1>5, <1>8, <2>2
  <2>. QED BY <1>8, <2>1, <2>2
<1>11. ASSUME ~r.fingerprint, NEW i \in 1..Len(archive) PROVE archive[i].data # r.data
  BY <1>1, <1>9, <1>11
<1>12. ASSUME NEW i \in 1..Len(archive'), NEW j \in 1..Len(archive'),
              ~archive'[i].fingerprint, ~archive'[j].fingerprint, archive'[i].data = archive'[j].data
       PROVE  i = j
  <2>1. CASE i \in 1..Len(archive) /\ j \in 1..Len(archive)
    BY <1>8, <1>12, <2>1 DEF Unique
  <2>. QED BY <1>8, <1>11, <1>12, <2>1
<1>. QED BY <1>6, <1>7, <1>10, <1>12 DEF Unique

LEMMA InitUnique == ASSUME Init PROVE Unique
<1>1. \A z \in Sites : Lane[z] = <<>>
  <2>1. ASSUME NEW z \in Sites PROVE Lane[z] = <<>>
    <3>1. PICK k \in {"send", "recv", "queue"}, t \in Threads, q \in ToCompress : z = Site(k, t, q)
      BY SiteFacts
    <3>2. send[t][q] = <<>> /\ recv[t][q] = <<>> /\ queue[q] = <<>>
      BY LaneQueues DEF Init
    <3>3. PICK f : f = Lane /\ f = LaneOf(send, recv, queue)
      BY DEF Lane
    <3>4. CASE k = "send"
      BY <3>1, <3>2, <3>3, <3>4, LaneFacts
    <3>5. CASE k = "recv"
      BY <3>1, <3>2, <3>3, <3>5, LaneFacts
    <3>6. CASE k = "queue" /\ t = Fragmenter
      BY <3>1, <3>2, <3>3, <3>6, LaneFacts
    <3>7. CASE k = "queue" /\ t # Fragmenter
      BY <3>1, <3>3, <3>7, LaneFacts
    <3>. QED BY <3>1, <3>4, <3>5, <3>6, <3>7
  <2>. QED BY <2>1
<1>2. PICK f, C : f = Lane /\ C = Uncompressed
  OBVIOUS
<1>3. \A i \in 1..Len(<<>>) : FALSE
  OBVIOUS
<1>4. Single(Sites, f, C)
  BY <1>1, <1>2, <1>3 DEF Single
<1>5. archive = <<>>
  BY DEF Init
<1>. QED BY <1>2, <1>3, <1>4, <1>5 DEF Unique

LEMMA NextUnique == ASSUME Inv, Ways, Lossless, Unique, [Next]_vars PROVE Unique'
<1>1. CASE UNCHANGED <<queue, send, recv, state, archive>>
  BY <1>1, AsideKeepsUnique
<1>2. CASE UNCHANGED vars
  BY <1>1, <1>2 DEF vars, stages, writer
<1>3. ASSUME NEW t \in Threads \ {Reorderer}, Thread(t) PROVE Unique'
  <2>1. CASE Stage(t) /\ UNCHANGED <<encoder, capacity, writer, misses>>
    <3>1. Stage(t) /\ UNCHANGED <<encoder, capacity, writer, misses>>
      BY <2>1
    <3>. QED BY <3>1, StageKeepsUnique
  <2>2. CASE Move(t)
    BY <2>2, MoveKeepsUnique
  <2>3. CASE Terminate(t)
    BY <1>1, <2>3 DEF Terminate, writer
  <2>. QED BY <1>3, <2>1, <2>2, <2>3 DEF Thread
<1>4. CASE Read
  BY <1>4, ReadKeepsUnique
<1>5. CASE WriteAndAdvance
  BY <1>5, WriteKeepsUnique
<1>6. CASE FlushCache
  BY <1>1, <1>6 DEF FlushCache
<1>7. CASE Barrier
  BY <1>1, <1>7 DEF Barrier, writer
<1>. QED BY <1>2, <1>3, <1>4, <1>5, <1>6, <1>7 DEF Next

\* The records that are not fingerprints, and the contents of the file, correspond one to one.
LEMMA OneRecordEach ==
    ASSUME Inv, Lossless, Unique, AllDone,
           NEW R, R = {i \in DOMAIN archive : archive[i].fingerprint = FALSE}
    PROVE  [i \in R |-> archive[i].data] \in Bijection(R, Contents)
<1>1. PICK n : n = Len(archive) /\ n \in Nat /\ DOMAIN archive = 1..n
  BY DEF Inv, Written
<1>2. n = Len(File) /\ DOMAIN File = 1..n
  BY <1>1, Complete, CutFacts, ChunkingAssumption
<1>3. \A i \in 1..n : archive[i].data = File[i] /\ archive[i].data \in Contents
  BY <1>1, <1>2 DEF Inv, Written, Contents
<1>4. \A i \in 1..n : archive[i].fingerprint \in BOOLEAN
  <2>1. archive \in Seq([fingerprint : BOOLEAN, data : Contents])
    BY DEF Inv, Written
  <2>2. \A i \in 1..n : archive[i] \in [fingerprint : BOOLEAN, data : Contents]
    BY <1>1, <2>1, ElementOfSeq
  <2>. QED BY <2>2
<1>5. PICK g : g = [i \in R |-> archive[i].data]
  OBVIOUS
<1>6. R \subseteq 1..n /\ \A i \in 1..n : i \in R <=> ~archive[i].fingerprint
  BY <1>1, <1>4
<1>7. g \in [R -> Contents]
  BY <1>3, <1>5, <1>6
<1>8. \A i, j \in R : g[i] = g[j] => i = j
  BY <1>1, <1>5, <1>6 DEF Unique
<1>9. \A c \in Contents : \E i \in R : g[i] = c
  <2>1. ASSUME NEW c \in Contents PROVE \E i \in R : g[i] = c
    <3>1. PICK k \in 1..n : c = archive[k].data
      BY <1>2, <1>3 DEF Contents
    <3>2. state[c] = "flushed"
      BY <1>1, <3>1 DEF Unique
    <3>3. PICK j \in 1..n : ~archive[j].fingerprint /\ archive[j].data = c
      BY <1>1, <3>2 DEF Inv, Traced
    <3>. QED BY <1>5, <1>6, <3>3
  <2>. QED BY <2>1
<1>10. g \in Injection(R, Contents)
  BY <1>7, <1>8 DEF Injection, IsInjective
<1>11. g \in Surjection(R, Contents)
  BY <1>7, <1>9 DEF Surjection
<1>. QED BY <1>5, <1>10, <1>11 DEF Bijection

LEMMA Numbers == ASSUME Inv, Lossless, Unique PROVE NumbersAgree
<1>1. SUFFICES ASSUME AllDone
               PROVE  /\ Cardinality({i \in DOMAIN archive : archive[i].fingerprint = FALSE})
                           = DeduplicateNumbers.compress
                      /\ Cardinality({i \in DOMAIN archive : archive[i].fingerprint = TRUE})
                           = DeduplicateNumbers.deduplicate
  BY DEF NumbersAgree
<1>2. PICK n : n = Len(archive) /\ n \in Nat /\ DOMAIN archive = 1..n
  BY DEF Inv, Written
<1>3. n = Len(File)
  BY <1>1, <1>2, Complete
<1>4. \A i \in 1..n : archive[i].fingerprint \in BOOLEAN
  <2>1. archive \in Seq([fingerprint : BOOLEAN, data : Contents])
    BY DEF Inv, Written
  <2>2. \A i \in 1..n : archive[i] \in [fingerprint : BOOLEAN, data : Contents]
    BY <1>2, <2>1, ElementOfSeq
  <2>. QED BY <2>2
<1>5. PICK R : R = {i \in DOMAIN archive : archive[i].fingerprint = FALSE}
  OBVIOUS
<1>6. PICK F : F = {i \in DOMAIN archive : archive[i].fingerprint = TRUE}
  OBVIOUS
<1>7. PICK S : S = 1..n /\ IsFiniteSet(S) /\ Cardinality(S) = n
  <2>1. 1 \in Int /\ n \in Int
    BY <1>2
  <2>2. IsFiniteSet(1..n) /\ Cardinality(1..n) = IF 1 > n THEN 0 ELSE n - 1 + 1
    BY ONLY <2>1, FS_Interval, Zenon
  <2>3. (IF 1 > n THEN 0 ELSE n - 1 + 1) = n
    BY <1>2
  <2>4. Cardinality(1..n) = n
    BY ONLY <1>2, <2>2, <2>3
  <2>. QED BY ONLY <2>2, <2>4, Zenon
<1>8. R \subseteq S /\ F = S \ R /\ S \cap R = R
  BY <1>2, <1>4, <1>5, <1>6, <1>7
<1>9. IsFiniteSet(R) /\ Cardinality(R) \in Nat
  BY <1>7, <1>8, FS_Subset, FS_CardinalityType
<1>10. Cardinality(F) = n - Cardinality(R)
  <2>1. Cardinality(S \ R) = Cardinality(S) - Cardinality(S \cap R)
    BY ONLY <1>7, FS_Difference, Zenon
  <2>. QED BY ONLY <1>7, <1>8, <2>1, Zenon
<1>11. ExistsBijection(R, Contents)
  BY <1>1, <1>5, OneRecordEach DEF ExistsBijection
<1>12. Cardinality(R) = Cardinality(Contents)
  BY <1>9, <1>11, FS_Bijection
<1>13. /\ DeduplicateNumbers.compress = Cardinality(Contents)
       /\ DeduplicateNumbers.deduplicate = n - Cardinality(Contents)
  BY <1>3 DEF DeduplicateNumbers, Contents
<1>. QED BY <1>5, <1>6, <1>10, <1>12, <1>13

\* Whatever deduplicate stage meets a content first, whatever queues its chunks wait in and
\* however the stages interleave, the archive has exactly one compressed record for each
\* content of the file and a fingerprint for every other chunk: the numbers of the sequential
\* computation, for every file and every number of threads. It takes what WholeFileWritten
\* takes, and that a content that is "uncompressed" is on one chunk only on its way to a
\* compress stage.
THEOREM NumbersAlwaysAgree == Spec => []NumbersAgree
<1>1. Inv /\ Lossless /\ Unique => NumbersAgree
  BY Numbers
<1>2. Init => Inv /\ Ways /\ Lossless /\ Unique
  BY InitInv, InitWays, InitLossless, InitUnique
<1>3. Inv /\ Ways /\ Lossless /\ Unique /\ [Next]_vars
        => Inv' /\ Ways' /\ Lossless' /\ Unique'
  BY NextInv, NextWays, NextLossless, NextUnique
<1>. QED BY <1>1, <1>2, <1>3, PTL DEF Spec
=================================================================================
