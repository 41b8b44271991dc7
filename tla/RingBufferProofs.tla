---------------------------- MODULE RingBufferProofs ----------------------------
(***************************************************************************)
(* For any number of cells and any values: the indices of the ring stay in *)
(* the part of the array in use, its counter agrees with them, and the     *)
(* array implements a bounded sequence that can be resized.                *)
(***************************************************************************)
EXTENDS RingBuffer, TLAPS, SequenceTheorems

\* The index that full() compares the head with
LEMMA PreviousCell ==
    ASSUME NEW n \in Nat, n >= 2, NEW t \in 0..n-1
    PROVE  (t - 1 + n) % n = IF t = 0 THEN n - 1 ELSE t - 1
<1>1. CASE t = 0
  <2>1. (n - 1) % n = n - 1
    OBVIOUS
  <2>. QED BY <1>1, <2>1
<1>2. CASE t # 0
  <2>1. t - 1 + n = 1 * n + (t - 1)
    OBVIOUS
  <2>2. (1 * n + (t - 1)) % n = t - 1
    BY <1>2
  <2>. QED BY <1>2, <2>1, <2>2
<1>. QED BY <1>1, <1>2

Inv == TypeOK /\ CounterAgrees

\* full() holds exactly when only the sentinel cell is left.
LEMMA FullMeansCount ==
    ASSUME TypeOK
    PROVE  Full <=> Count = size - 1
<1>1. size \in Nat /\ size >= 2 /\ tail \in 0..size-1 /\ head \in 0..size-1
  BY CellsAssumption DEF TypeOK
<1>2. (tail - 1 + size) % size = IF tail = 0 THEN size - 1 ELSE tail - 1
  BY <1>1, PreviousCell
<1>. QED BY <1>1, <1>2 DEF Full, Count

\* The distance between two indices of a ring of s + 1 cells
LEMMA DistanceType ==
    ASSUME NEW s \in Nat, NEW h \in 0..s, NEW t \in 0..s
    PROVE  (IF h >= t THEN h - t ELSE h + (s + 1) - t) \in 0..s
OBVIOUS

LEMMA InitInv == Init => Inv
BY CellsAssumption DEF Init, Inv, TypeOK, CounterAgrees, Count

LEMMA PushInv ==
    ASSUME Inv, NEW v \in Values, Push(v)
    PROVE  Inv'
<1>1. CASE Full
  BY <1>1 DEF Inv, Push, TypeOK, CounterAgrees, Count
<1>2. CASE ~Full
  <2>1. Count # size - 1
    BY <1>2, FullMeansCount DEF Inv
  <2>2. data' \in [0..Cells-1 -> Values \cup {Garbage}]
    BY <1>2 DEF Inv, TypeOK, Push
  <2>. QED BY <1>2, <2>1, <2>2, CellsAssumption DEF Inv, Push, TypeOK, CounterAgrees, Count
<1>. QED BY <1>1, <1>2

LEMMA PopInv ==
    ASSUME Inv, Pop
    PROVE  Inv'
<1>1. CASE Empty
  BY <1>1 DEF Inv, Pop, TypeOK, CounterAgrees, Count
<1>2. CASE ~Empty
  <2>1. tail \in 0..Cells-1 /\ data[tail] \in Values \cup {Garbage}
    BY CellsAssumption DEF Inv, TypeOK
  <2>2. answer' \in {Ok, Refused} \cup {Taken(v) : v \in Values \cup {Garbage}}
    BY <1>2, <2>1 DEF Pop
  <2>3. /\ tail' \in 0..size-1 /\ nElements' \in 0..size-1 /\ CounterAgrees'
    <3>1. /\ tail # head /\ tail' = (IF tail + 1 >= size THEN 0 ELSE tail + 1)
          /\ nElements' = nElements - 1 /\ head' = head /\ size' = size
      BY <1>2 DEF Pop, Empty
    <3>2. /\ size \in Nat /\ tail \in 0..size-1 /\ head \in 0..size-1 /\ nElements = Count
      BY CellsAssumption DEF Inv, TypeOK, CounterAgrees
    <3>. QED BY <3>1, <3>2 DEF CounterAgrees, Count
  <2>. QED BY <1>2, <2>2, <2>3 DEF Inv, TypeOK, Pop
<1>. QED BY <1>1, <1>2

\* A relocation keeps the number of elements, and the indices fit the new size.
LEMMA RelocateIndices ==
    ASSUME Inv, NEW n \in 1..Cells, n # size, n < size => nElements < n - 1, Relocate(n)
    PROVE  /\ data' \in [0..Cells-1 -> Values \cup {Garbage}]
           /\ n >= 2 /\ head' \in 0..n-1 /\ tail' \in 0..n-1
           /\ nElements = IF head' >= tail' THEN head' - tail' ELSE head' + n - tail'
<1> USE CellsAssumption DEF Inv, TypeOK, CounterAgrees, Count
<1>1. CASE head = tail
  BY <1>1 DEF Relocate
<1>2. CASE head > tail
  <2>1. CASE n < size /\ head > n - 1
    <3>1. data' = Moved(0, tail, nElements) /\ head' = nElements /\ tail' = 0
      BY <1>2, <2>1 DEF Relocate
    <3>2. data' \in [0..Cells-1 -> Values \cup {Garbage}]
      BY <1>2, <3>1 DEF Moved
    <3>. QED BY <1>2, <2>1, <3>1, <3>2
  <2>2. CASE ~(n < size /\ head > n - 1)
    BY <1>2, <2>2 DEF Relocate
  <2>. QED BY <2>1, <2>2
<1>3. CASE head < tail
  <2>1. /\ data' = Moved(tail + n - size, tail, size - tail)
        /\ tail' = tail + n - size /\ head' = head
    BY <1>3 DEF Relocate
  <2>2. data' \in [0..Cells-1 -> Values \cup {Garbage}]
    BY <1>3, <2>1 DEF Moved
  <2>. QED BY <1>3, <2>1, <2>2
<1>. QED BY <1>1, <1>2, <1>3

LEMMA ResizeInv ==
    ASSUME Inv, NEW s \in 0..Cells-1, Resize(s)
    PROVE  Inv'
<1>1. CASE UNCHANGED <<data, head, tail, nElements, size>> /\ answer' \in {Ok, Refused}
  BY <1>1 DEF Inv, TypeOK, CounterAgrees, Count
<1>2. CASE /\ s # size - 1 /\ ~(s < size - 1 /\ nElements >= s)
           /\ Relocate(s + 1) /\ size' = s + 1 /\ answer' = Ok /\ UNCHANGED nElements
  <2>1. s + 1 \in 1..Cells /\ s + 1 # size /\ (s + 1 < size => nElements < s + 1 - 1)
    BY <1>2, CellsAssumption DEF Inv, TypeOK
  <2>2. /\ data' \in [0..Cells-1 -> Values \cup {Garbage}]
        /\ s + 1 >= 2 /\ head' \in 0..s /\ tail' \in 0..s
        /\ nElements = IF head' >= tail' THEN head' - tail' ELSE head' + (s + 1) - tail'
    BY <1>2, <2>1, RelocateIndices
  <2>3. size' = s + 1 /\ nElements' = nElements /\ answer' = Ok
    BY <1>2
  <2>4. CounterAgrees'
    BY <2>2, <2>3 DEF CounterAgrees, Count
  <2>5. size' \in 2..Cells /\ head' \in 0..size'-1 /\ tail' \in 0..size'-1
    BY <2>2, <2>3, CellsAssumption
  <2>6. nElements' \in 0..size'-1
    <3>1. /\ s \in Nat /\ head' \in 0..s /\ tail' \in 0..s
          /\ nElements = IF head' >= tail' THEN head' - tail' ELSE head' + (s + 1) - tail'
      BY <2>2, CellsAssumption
    <3>2. nElements \in 0..s
      BY <3>1, DistanceType
    <3>. QED BY <2>3, <3>2, CellsAssumption
  <2>. QED BY <2>2, <2>3, <2>4, <2>5, <2>6 DEF Inv, TypeOK
<1>3. \/ UNCHANGED <<data, head, tail, nElements, size>> /\ answer' \in {Ok, Refused}
      \/ /\ s # size - 1 /\ ~(s < size - 1 /\ nElements >= s)
         /\ Relocate(s + 1) /\ size' = s + 1 /\ answer' = Ok /\ UNCHANGED nElements
  BY ZenonT(30) DEF Resize
<1>. QED BY <1>1, <1>2, <1>3

LEMMA NextInv == Inv /\ [Next]_vars => Inv'
<1>1. ASSUME Inv, UNCHANGED vars PROVE Inv'
  BY <1>1 DEF vars, Inv, TypeOK, CounterAgrees, Count
<1>. QED BY <1>1, PushInv, PopInv, ResizeInv DEF Next

LEMMA InvHolds == Spec => []Inv
BY InitInv, NextInv, PTL DEF Spec

(***************************************************************************)
(* The indices stay below _size, which stays within the allocated cells.   *)
(***************************************************************************)
THEOREM TypeCorrect == Spec => []TypeOK
<1>1. Inv => TypeOK
  BY DEF Inv
<1>. QED BY <1>1, InvHolds, PTL

(***************************************************************************)
(* _n_elements is always the distance from _tail to _head.                 *)
(***************************************************************************)
THEOREM CounterCorrect == Spec => []CounterAgrees
<1>1. Inv => CounterAgrees
  BY DEF Inv
<1>. QED BY <1>1, InvHolds, PTL
---------------------------------------------------------------------------------
Held == Values \cup {Garbage}

\* The contents are a sequence of Count elements.
ReadsAsSequence ==
    /\ Count \in 0..size-1
    /\ Contents \in Seq(Held)
    /\ Len(Contents) = Count
    /\ \A k \in 1..Count : Cell(k) \in 0..size-1 /\ Contents[k] = data[Cell(k)]

LEMMA EqualIntervals ==
    ASSUME NEW m \in Nat, NEW n \in Nat, 1..m = 1..n
    PROVE  m = n
<1>1. m \in 1..m \/ m = 0
  OBVIOUS
<1>2. n \in 1..n \/ n = 0
  OBVIOUS
<1>3. m <= n
  BY <1>1
<1>4. n <= m
  BY <1>2
<1>. QED BY <1>3, <1>4

LEMMA ContentsType == TypeOK => ReadsAsSequence
<1> SUFFICES ASSUME TypeOK PROVE ReadsAsSequence
  OBVIOUS
<1>1. /\ size \in Nat /\ size <= Cells /\ size >= 2 /\ Cells \in Nat
      /\ head \in 0..size-1 /\ tail \in 0..size-1
      /\ data \in [0..Cells-1 -> Held]
  BY CellsAssumption DEF TypeOK, Held
<1>2. Count \in 0..size-1
  BY <1>1 DEF Count
<1>3. \A k \in 1..Count : Cell(k) \in 0..size-1
  BY <1>1, <1>2 DEF Cell, Count
<1>4. Contents \in [1..Count -> Held]
  BY <1>1, <1>2, <1>3 DEF Contents
<1>5. Contents \in Seq(Held)
  <2>1. Count \in Nat
    BY <1>1, <1>2
  <2>. QED BY <1>4, <2>1, SeqDef
<1>6. Len(Contents) = Count
  <2>1. Len(Contents) \in Nat /\ DOMAIN Contents = 1..Len(Contents)
    BY <1>5, LenProperties
  <2>2. DOMAIN Contents = 1..Count
    BY <1>4
  <2>3. Count \in Nat
    BY <1>1, <1>2
  <2>. QED BY <2>1, <2>2, <2>3, EqualIntervals
<1>7. \A k \in 1..Count : Contents[k] = data[Cell(k)]
  BY DEF Contents
<1>. QED BY <1>2, <1>3, <1>5, <1>6, <1>7 DEF ReadsAsSequence

LEMMA ContentsTypeNext == TypeOK' => ReadsAsSequence'
BY ContentsType, PTL

LEMMA InitRefines == Init => Sequence!Init
<1> SUFFICES ASSUME Init PROVE Sequence!Init
  OBVIOUS
<1>1. TypeOK
  BY InitInv DEF Inv
<1>2. Len(Contents) = 0 /\ Contents \in Seq(Held)
  BY <1>1, ContentsType DEF ReadsAsSequence, Init, Count
<1>3. Contents = <<>>
  BY <1>2, EmptySeq
<1>4. size - 1 \in 1..(Cells - 1)
  BY CellsAssumption DEF Init
<1>. QED BY <1>3, <1>4 DEF Sequence!Init, Init, Ok, Sequence!Ok

LEMMA PushRefines ==
    ASSUME Inv, NEW v \in Values, Push(v)
    PROVE  Sequence!Push(v)
<1>1. TypeOK /\ TypeOK'
  BY PushInv DEF Inv
<1>2. /\ Contents \in Seq(Held) /\ Len(Contents) = Count /\ Count \in 0..size-1
      /\ \A k \in 1..Count : Cell(k) \in 0..size-1 /\ Contents[k] = data[Cell(k)]
  BY <1>1, ContentsType DEF ReadsAsSequence
<1>3. /\ size \in Nat /\ size <= Cells /\ Cells \in Nat
      /\ head \in 0..size-1 /\ tail \in 0..size-1
      /\ data \in [0..Cells-1 -> Held]
  BY <1>1, CellsAssumption DEF TypeOK, Held
<1>4. CASE Full
  <2>1. Len(Contents) = size - 1
    BY <1>1, <1>2, <1>4, FullMeansCount
  <2>2. Contents' = Contents
    BY <1>4 DEF Push, Contents, Count, Cell
  <2>. QED BY <1>4, <2>1, <2>2 DEF Push, Sequence!Push, Refused, Sequence!Refused
<1>5. CASE ~Full
  <2>1. Count < size - 1
    BY <1>1, <1>2, <1>3, <1>5, FullMeansCount
  <2>2. /\ data' = [data EXCEPT ![head] = v]
        /\ head' = IF head + 1 = size THEN 0 ELSE head + 1
        /\ tail' = tail /\ size' = size
    BY <1>5 DEF Push
  <2>3. Count' = Count + 1
    BY <1>3, <2>1, <2>2 DEF Count
  <2>4. \A k \in 1..Count : Cell(k)' = Cell(k) /\ Cell(k) # head
    BY <1>2, <1>3, <2>1, <2>2 DEF Cell, Count
  <2>5. ASSUME NEW k \in 1..Count+1, k = Count + 1 PROVE Cell(k)' = head
    <3>1. Cell(k)' = IF tail + k - 1 < size THEN tail + k - 1 ELSE tail + k - 1 - size
      BY <2>2 DEF Cell
    <3>2. CASE head >= tail
      <4>1. tail + k - 1 = head
        BY <1>3, <2>5, <3>2 DEF Count
      <4>. QED BY <1>3, <3>1, <4>1
    <3>3. CASE head < tail
      <4>1. tail + k - 1 = head + size
        BY <1>3, <2>5, <3>3 DEF Count
      <4>. QED BY <1>3, <3>1, <4>1
    <3>. QED BY <1>3, <3>2, <3>3
  <2>6. /\ Contents' \in Seq(Held) /\ Len(Contents') = Count'
        /\ \A k \in 1..Count' : Contents'[k] = data'[Cell(k)']
    BY <1>1, ContentsTypeNext DEF ReadsAsSequence
  <2>7. /\ Append(Contents, v) \in Seq(Held) /\ Len(Append(Contents, v)) = Count + 1
        /\ \A k \in 1..Count : Append(Contents, v)[k] = Contents[k]
        /\ Append(Contents, v)[Count + 1] = v
    <3>1. v \in Held
      BY DEF Held
    <3>. QED BY <1>2, <3>1, AppendProperties
  <2>8. ASSUME NEW k \in 1..Count+1 PROVE Contents'[k] = Append(Contents, v)[k]
    <3>1. CASE k = Count + 1
      <4>1. Contents'[k] = data'[Cell(k)']
        BY <2>3, <2>6
      <4>2. Contents'[k] = data'[head]
        BY <2>5, <3>1, <4>1
      <4>. QED BY <1>3, <2>2, <2>7, <3>1, <4>2
    <3>2. CASE k # Count + 1
      <4>1. k \in 1..Count
        BY <1>2, <3>2
      <4>2. Contents'[k] = data'[Cell(k)] /\ Cell(k) # head
        BY <2>3, <2>4, <2>6, <4>1
      <4>3. data'[Cell(k)] = data[Cell(k)]
        BY <1>2, <1>3, <2>2, <4>1, <4>2
      <4>. QED BY <1>2, <2>7, <4>1, <4>2, <4>3
    <3>. QED BY <3>1, <3>2
  <2>9. Contents' = Append(Contents, v)
    BY <1>2, <2>3, <2>6, <2>7, <2>8, SeqEqual
  <2>. QED BY <1>2, <1>5, <2>1, <2>2, <2>9 DEF Push, Sequence!Push, Ok, Sequence!Ok
<1>. QED BY <1>4, <1>5

LEMMA PopRefines ==
    ASSUME Inv, Pop
    PROVE  Sequence!Pop
<1>1. TypeOK /\ TypeOK'
  BY PopInv DEF Inv
<1>2. /\ Contents \in Seq(Held) /\ Len(Contents) = Count /\ Count \in 0..size-1
      /\ \A k \in 1..Count : Cell(k) \in 0..size-1 /\ Contents[k] = data[Cell(k)]
  BY <1>1, ContentsType DEF ReadsAsSequence
<1>3. size \in Nat /\ head \in 0..size-1 /\ tail \in 0..size-1
  BY <1>1, CellsAssumption DEF TypeOK
<1>4. CASE Empty
  <2>1. Contents = <<>>
    BY <1>2, <1>3, <1>4, EmptySeq DEF Empty, Count
  <2>2. Contents' = Contents
    BY <1>4 DEF Pop, Contents, Count, Cell
  <2>. QED BY <1>4, <2>1, <2>2 DEF Pop, Sequence!Pop, Refused, Sequence!Refused
<1>5. CASE ~Empty
  <2>1. Count > 0 /\ Contents # <<>>
    BY <1>2, <1>3, <1>5, EmptySeq DEF Empty, Count
  <2>2. /\ tail' = (IF tail + 1 >= size THEN 0 ELSE tail + 1)
        /\ head' = head /\ size' = size /\ data' = data /\ answer' = Taken(data[tail])
    BY <1>5 DEF Pop
  <2>3. Count' = Count - 1
    BY <1>3, <1>5, <2>2 DEF Count, Empty
  <2>4. \A k \in 1..Count-1 : Cell(k)' = Cell(k + 1)
    BY <1>2, <1>3, <2>1, <2>2 DEF Cell, Count
  <2>5. Head(Contents) = data[tail]
    <3>1. Cell(1) = tail
      BY <1>3 DEF Cell
    <3>2. Head(Contents) = Contents[1]
      BY <1>2, <2>1
    <3>. QED BY <1>2, <2>1, <3>1, <3>2
  <2>6. /\ Contents' \in Seq(Held) /\ Len(Contents') = Count'
        /\ \A k \in 1..Count' : Contents'[k] = data'[Cell(k)']
    BY <1>1, ContentsTypeNext DEF ReadsAsSequence
  <2>7. /\ Tail(Contents) \in Seq(Held) /\ Len(Tail(Contents)) = Count - 1
        /\ \A k \in 1..Count-1 : Tail(Contents)[k] = Contents[k + 1]
    BY <1>2, <2>1, HeadTailProperties
  <2>8. ASSUME NEW k \in 1..Count-1 PROVE Contents'[k] = Tail(Contents)[k]
    <3>1. Contents'[k] = data[Cell(k + 1)]
      BY <2>2, <2>3, <2>4, <2>6
    <3>2. k + 1 \in 1..Count
      BY <1>2
    <3>. QED BY <1>2, <2>7, <3>1, <3>2
  <2>9. Contents' = Tail(Contents)
    BY <1>2, <2>3, <2>6, <2>7, <2>8, SeqEqual
  <2>. QED BY <2>1, <2>2, <2>5, <2>9 DEF Sequence!Pop, Taken, Sequence!Taken
<1>. QED BY <1>4, <1>5

\* Relocating the elements does not change the sequence that is read.
LEMMA RelocateKeeps ==
    ASSUME Inv, Inv', NEW n \in 2..Cells, n # size, n < size => nElements < n - 1,
           Relocate(n), size' = n, UNCHANGED nElements
    PROVE  Contents' = Contents
<1>1. /\ Contents \in Seq(Held) /\ Len(Contents) = Count /\ Count \in 0..size-1
      /\ \A k \in 1..Count : Cell(k) \in 0..size-1 /\ Contents[k] = data[Cell(k)]
  BY ContentsType DEF Inv, ReadsAsSequence
<1>2. /\ Contents' \in Seq(Held) /\ Len(Contents') = Count'
      /\ \A k \in 1..Count' : Contents'[k] = data'[Cell(k)']
  BY ContentsTypeNext DEF Inv, ReadsAsSequence
<1>3. Count' = Count
  BY DEF Inv, CounterAgrees
<1>4. /\ size \in Nat /\ size <= Cells /\ Cells \in Nat
      /\ head \in 0..size-1 /\ tail \in 0..size-1
      /\ nElements = Count
  BY CellsAssumption DEF Inv, TypeOK, CounterAgrees
<1>5. ASSUME NEW k \in 1..Count PROVE data'[Cell(k)'] = data[Cell(k)]
  <2>1. CASE head = tail
    BY <1>4, <2>1 DEF Count
  <2>2. CASE head > tail
    <3>1. Cell(k) = tail + k - 1 /\ tail + k - 1 < head /\ Count = head - tail
      BY <1>4, <2>2 DEF Cell, Count
    <3>2. CASE n < size /\ head > n - 1
      <4>1. data' = Moved(0, tail, nElements) /\ tail' = 0
        BY <1>4, <2>2, <3>2 DEF Relocate
      <4>2. Count < n - 1
        BY <1>4, <3>2
      <4>3. Cell(k)' = k - 1
        BY <1>4, <3>1, <4>1, <4>2 DEF Cell
      <4>4. k - 1 \in 0..Cells-1 /\ k - 1 \in 0..(0 + nElements - 1) /\ tail + (k - 1) - 0 = tail + k - 1
        BY <1>4, <3>1
      <4>5. data'[k - 1] = data[tail + (k - 1) - 0]
        BY <4>1, <4>4 DEF Moved
      <4>. QED BY <3>1, <4>3, <4>4, <4>5
    <3>3. CASE ~(n < size /\ head > n - 1)
      <4>1. UNCHANGED <<data, head, tail>>
        BY <2>2, <3>3, <1>4 DEF Relocate
      <4>2. tail + k - 1 < n
        BY <1>4, <3>1, <3>3
      <4>. QED BY <3>1, <4>1, <4>2 DEF Cell
    <3>. QED BY <3>2, <3>3
  <2>3. CASE head < tail
    <3>1. /\ data' = Moved(tail + n - size, tail, size - tail)
          /\ tail' = tail + n - size
      BY <1>4, <2>3 DEF Relocate
    <3>2. Count = head + size - tail /\ tail + n - size > head
      BY <1>4, <2>3 DEF Count
    <3>3. CASE tail + k - 1 < size
      <4>1. Cell(k) = tail + k - 1
        BY <3>3 DEF Cell
      <4>2. Cell(k)' = tail + n - size + k - 1
        BY <1>4, <3>1, <3>3 DEF Cell
      <4>3. /\ tail + n - size + k - 1 \in 0..Cells-1
            /\ tail + n - size + k - 1 \in (tail + n - size)..(tail + n - size + (size - tail) - 1)
            /\ tail + (tail + n - size + k - 1) - (tail + n - size) = tail + k - 1
        BY <1>4, <3>2, <3>3
      <4>4. data'[tail + n - size + k - 1]
              = data[tail + (tail + n - size + k - 1) - (tail + n - size)]
        BY <3>1, <4>3 DEF Moved
      <4>. QED BY <4>1, <4>2, <4>3, <4>4
    <3>4. CASE ~(tail + k - 1 < size)
      <4>1. Cell(k) = tail + k - 1 - size /\ tail + k - 1 - size < head
        BY <1>4, <3>2, <3>4 DEF Cell
      <4>2. Cell(k)' = tail + k - 1 - size
        BY <1>4, <3>1, <3>4 DEF Cell
      <4>3. /\ tail + k - 1 - size \in 0..Cells-1
            /\ tail + k - 1 - size \notin (tail + n - size)..(tail + n - size + (size - tail) - 1)
        BY <1>4, <3>2, <3>4, <4>1
      <4>4. data'[tail + k - 1 - size] = data[tail + k - 1 - size]
        BY <3>1, <4>3 DEF Moved
      <4>. QED BY <4>1, <4>2, <4>4
    <3>. QED BY <3>3, <3>4
  <2>. QED BY <1>4, <2>1, <2>2, <2>3
<1>. QED BY <1>1, <1>2, <1>3, <1>5, SeqEqual

LEMMA ResizeRefines ==
    ASSUME Inv, NEW s \in 0..Cells-1, Resize(s)
    PROVE  Sequence!Resize(s)
<1>1. /\ Len(Contents) = Count /\ Count = nElements
      /\ size \in Nat /\ s \in Nat /\ Count \in 0..size-1
  BY ContentsType, CellsAssumption DEF Inv, TypeOK, CounterAgrees, ReadsAsSequence
<1>2. CASE s = size - 1 /\ answer' = Ok /\ UNCHANGED <<data, head, tail, nElements, size>>
  <2>1. Contents' = Contents
    BY <1>2 DEF Contents, Count, Cell
  <2>. QED BY <1>1, <1>2, <2>1 DEF Sequence!Resize, Ok, Sequence!Ok
<1>3. CASE s < size - 1 /\ nElements >= s /\ answer' = Refused
           /\ UNCHANGED <<data, head, tail, nElements, size>>
  <2>1. Contents' = Contents
    BY <1>3 DEF Contents, Count, Cell
  <2>. QED BY <1>1, <1>3, <2>1 DEF Sequence!Resize, Refused, Sequence!Refused
<1>4. CASE /\ s # size - 1 /\ ~(s < size - 1 /\ nElements >= s)
           /\ Relocate(s + 1) /\ size' = s + 1 /\ answer' = Ok /\ UNCHANGED nElements
  <2>1. Inv'
    BY ResizeInv
  <2>2. s + 1 \in 2..Cells /\ s + 1 # size /\ (s + 1 < size => nElements < (s + 1) - 1)
    BY <1>1, <1>4, <2>1, CellsAssumption DEF Inv, TypeOK
  <2>3. Contents' = Contents
    BY <1>4, <2>1, <2>2, RelocateKeeps
  <2>4. s >= size - 1 \/ Len(Contents) < s
    BY <1>1, <1>4
  <2>5. size' - 1 = s
    BY <1>1, <1>4
  <2>. QED BY <1>4, <2>3, <2>4, <2>5 DEF Sequence!Resize, Ok, Sequence!Ok
<1>. QED BY <1>2, <1>3, <1>4, ZenonT(30) DEF Resize

(***************************************************************************)
(* The ring with its sentinel cell, its wrap-around and its three ways of  *)
(* moving the elements on a resize implements a bounded sequence: every    *)
(* operation answers, and leaves, exactly what the sequence does.          *)
(***************************************************************************)
THEOREM ImplementsSequence == Spec => ImplementsBoundedSeq
<1>1. Inv /\ [Next]_vars => [Sequence!Next]_Sequence!vars
  <2> SUFFICES ASSUME Inv, [Next]_vars PROVE [Sequence!Next]_Sequence!vars
    OBVIOUS
  <2>1. ASSUME NEW v \in Values, Push(v) PROVE Sequence!Next
    BY <2>1, PushRefines DEF Sequence!Next
  <2>2. ASSUME Pop PROVE Sequence!Next
    BY <2>2, PopRefines DEF Sequence!Next
  <2>3. ASSUME NEW s \in 0..Cells-1, Resize(s) PROVE Sequence!Next
    BY <2>3, ResizeRefines DEF Sequence!Next
  <2>4. ASSUME UNCHANGED vars PROVE UNCHANGED Sequence!vars
    BY <2>4 DEF vars, Sequence!vars, Contents, Count, Cell
  <2>. QED BY <2>1, <2>2, <2>3, <2>4 DEF Next
<1>. QED BY <1>1, InitRefines, InvHolds, PTL DEF Spec, ImplementsBoundedSeq, Sequence!Spec
=================================================================================
