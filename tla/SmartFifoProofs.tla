----------------------------- MODULE SmartFifoProofs -----------------------------
(***************************************************************************)
(* For any number of producers and consumers, any steps, items and         *)
(* timeouts: the positions of smart_fifo.h stay in the chain and neither   *)
(* of its exceptions is thrown; a consumer that waits while there is data  *)
(* is let through by the semaphore or by a producer on its way to post;    *)
(* the references of a chunk never exceed its users; and the FIFO is the   *)
(* channel of Channel.tla.                                                 *)
(***************************************************************************)
EXTENDS SmartFifo, TLAPS, SequenceTheorems, FiniteSetTheorems

(***************************************************************************)
(* The inductive invariant.  Who is between which statements: a producer   *)
(* from its link to its post and a consumer in pop hold their mutexes.     *)
(***************************************************************************)
Linking == {"tail", "taillast", "post", "postlast"}
Inside == {"empty", "terminated", "wait", "drain", "left", "take", "advance", "return"}

Places == /\ \A p \in Producers : pc[p] \in ProducerLabel
          /\ \A c \in Consumers : pc[c] \in ConsumerLabel

Exclusion == /\ \A p \in Producers : pc[p] \in Linking <=> prodMutex = p
             /\ \A c \in Consumers : pc[c] \in Inside <=> consMutex = c

\* Exactly the last chunk has no next one, and _tail is there when nobody is moving it.
Linked == /\ \A k \in 1..Len(chain) : chain[k].next <=> k < Len(chain)
          /\ (\A p \in Producers : pc[p] \notin {"tail", "taillast"}) => tail = Len(chain)

Gone == {p \in Producers : pc[p] \in {"last", "done"}}
Counted == done = Cardinality(Gone)

\* Who links something will post something.
Announced ==
    \A p \in Producers :
        /\ pc[p] \in {"link", "linklast"} /\ chunk[p] # <<>> => amount[p] > 0
        /\ pc[p] \notin {"ready", "link", "linklast"} => chunk[p] = <<>>

Credit == value >= 0 \/ finished

Left == \E k \in head..Len(chain) : chain[k].available # <<>>
Heralded == \/ value > 0 \/ finished
            \/ \E p \in Producers : pc[p] \in Linking /\ amount[p] > 0

HeadEmpty == chain[head].available = <<>>

\* What a consumer in pop knows about the head, which nobody else moves or empties
Looks(c) ==
    /\ pc[c] = "terminated" => HeadEmpty /\ (hasNext[c] => chain[head].next)
    /\ pc[c] = "wait" \/ (pc[c] = "terminated" /\ ~hasNext[c]) => (Left => Heralded)
    /\ pc[c] = "drain" => Terminated \/ ~HeadEmpty
    /\ pc[c] = "left" => Terminated
    /\ pc[c] = "take" /\ pairs[c] = <<>> => ~HeadEmpty
    /\ pc[c] = "advance" => chain[head].next /\ HeadEmpty
    /\ pc[c] \in {"advance", "return"} => pairs[c] # <<>>

Inv == /\ TypeOK /\ Places /\ Exclusion /\ Linked /\ Counted /\ Announced /\ Credit
       /\ \A c \in Consumers : Looks(c)

Part == [available : Seq(Item), next : BOOLEAN, references : Int]

LEMMA ThreadFacts ==
    /\ \A p \in Producers : p \in Threads /\ p \notin Consumers /\ p # Nobody
    /\ \A c \in Consumers : c \in Threads /\ c \notin Producers /\ c # Nobody
    /\ IsFiniteSet(Producers) /\ IsFiniteSet(Consumers)
<1>1. Producers \subseteq Threads /\ Consumers \subseteq Threads
  BY DEF Threads
<1>2. IsFiniteSet(Producers) /\ IsFiniteSet(Consumers)
  BY <1>1, FifoThreads, FS_Subset
<1>. QED BY <1>1, <1>2, FifoThreads

LEMMA CountGone ==
    /\ IsFiniteSet(Gone) /\ Cardinality(Gone) \in 0..Cardinality(Producers)
    /\ Cardinality(Producers) \in Nat
    /\ Cardinality(Gone) = Cardinality(Producers) => Gone = Producers
<1>1. Gone \in SUBSET Producers
  BY DEF Gone
<1>. QED BY <1>1, ThreadFacts, FS_Subset, FS_CardinalityType

\* Terminated means that every producer has been counted.
LEMMA AllGone == Inv /\ Terminated => \A p \in Producers : pc[p] \in {"last", "done"}
BY CountGone DEF Inv, Counted, Terminated, Gone

---------------------------------------------------------------------------------
(* The chain *)

LEMMA ChainFacts ==
    ASSUME TypeOK
    PROVE  /\ chain \in Seq(Part) /\ Len(chain) \in Nat /\ DOMAIN chain = 1..Len(chain)
           /\ \A k \in 1..Len(chain) : /\ chain[k] \in Part /\ chain[k].available \in Seq(Item)
                                       /\ chain[k].next \in BOOLEAN /\ chain[k].references \in Int
           /\ head \in 1..Len(chain) /\ tail \in 1..Len(chain)
<1>1. chain \in Seq(Part)
  BY DEF TypeOK, Part
<1>2. \A k \in 1..Len(chain) : chain[k] \in Part
  BY <1>1, ElementOfSeq
<1>. QED BY <1>1, <1>2, LenProperties DEF TypeOK, Part

LEMMA ChainUpdate ==
    ASSUME TypeOK, NEW k \in 1..Len(chain), NEW r \in Part
    PROVE  LET new == [chain EXCEPT ![k] = r] IN
           /\ new \in Seq(Part) /\ Len(new) = Len(chain) /\ DOMAIN new = 1..Len(chain)
           /\ new[k] = r /\ \A i \in 1..Len(chain) : i # k => new[i] = chain[i]
BY ChainFacts, ExceptSeq, LenProperties

LEMMA PartUpdate ==
    ASSUME NEW x \in Part, NEW n \in Int
    PROVE  LET r == [x EXCEPT !.references = @ - n] IN
           /\ r \in Part /\ r.available = x.available /\ r.next = x.next
           /\ r.references = x.references - n
BY DEF Part

LEMMA MoveHeadFacts ==
    ASSUME TypeOK, MoveHead, head < Len(chain)
    PROVE  /\ chain' \in Seq(Part) /\ Len(chain') = Len(chain)
           /\ head' = head + 1 /\ head' \in 1..Len(chain)
           /\ \A k \in 1..Len(chain) :
                 /\ chain'[k].available = chain[k].available /\ chain'[k].next = chain[k].next
                 /\ chain'[k].references = chain[k].references - IF k = head THEN 1 ELSE 0
<1> DEFINE r == [chain[head] EXCEPT !.references = @ - 1]
<1>1. /\ r \in Part /\ r.available = chain[head].available /\ r.next = chain[head].next
      /\ r.references = chain[head].references - 1
  <2>1. chain[head] \in Part /\ 1 \in Int
    BY ChainFacts
  <2>. QED BY <2>1, PartUpdate
<1>2. chain' = [chain EXCEPT ![head] = r] /\ head' = head + 1
  BY DEF MoveHead
<1> HIDE DEF r
<1>3. /\ chain' \in Seq(Part) /\ Len(chain') = Len(chain) /\ chain'[head] = r
      /\ \A k \in 1..Len(chain) : k # head => chain'[k] = chain[k]
  BY <1>1, <1>2, ChainFacts, ChainUpdate
<1>. QED BY <1>1, <1>2, <1>3, ChainFacts

LEMMA HoldsType ==
    ASSUME NEW s \in Seq(Nat), NEW k
    PROVE  IsFiniteSet({i \in DOMAIN s : s[i] = k}) /\ Holds(s, k) \in Nat
<1>1. IsFiniteSet(DOMAIN s)
  BY LenProperties, FS_Interval
<1>2. {i \in DOMAIN s : s[i] = k} \in SUBSET DOMAIN s
  OBVIOUS
<1>. QED BY <1>1, <1>2, FS_Subset, FS_CardinalityType DEF Holds

LEMMA DestroyedFacts ==
    ASSUME TypeOK, NEW s \in Seq(Nat)
    PROVE  /\ Destroyed(s) \in Seq(Part) /\ Len(Destroyed(s)) = Len(chain)
           /\ \A k \in 1..Len(chain) :
                 /\ Destroyed(s)[k].available = chain[k].available
                 /\ Destroyed(s)[k].next = chain[k].next
                 /\ Destroyed(s)[k].references = chain[k].references - Holds(s, k)
<1> DEFINE new(k) == [chain[k] EXCEPT !.references = @ - Holds(s, k)]
<1>1. \A k \in 1..Len(chain) :
          /\ new(k) \in Part /\ new(k).available = chain[k].available /\ new(k).next = chain[k].next
          /\ new(k).references = chain[k].references - Holds(s, k)
  <2>1. ASSUME NEW k \in 1..Len(chain)
        PROVE  /\ new(k) \in Part /\ new(k).available = chain[k].available
               /\ new(k).next = chain[k].next
               /\ new(k).references = chain[k].references - Holds(s, k)
    <3>1. chain[k] \in Part /\ Holds(s, k) \in Int
      <4>1. Holds(s, k) \in Nat
        BY HoldsType
      <4>. QED BY <4>1, ChainFacts
    <3>. HIDE DEF Holds
    <3>. QED BY <3>1, PartUpdate
  <2>. QED BY <2>1
<1>2. Destroyed(s) = [k \in 1..Len(chain) |-> new(k)] /\ Len(chain) \in Nat
  BY ChainFacts DEF Destroyed
<1> HIDE DEF new
<1>3. Destroyed(s) \in Seq(Part) /\ Len(Destroyed(s)) = Len(chain)
  BY <1>1, <1>2
<1>. QED BY <1>1, <1>2, <1>3

Front(m, s) == SubSeq(s, 1, m)
Rest(m, s) == SubSeq(s, m + 1, Len(s))

LEMMA SplitType ==
    ASSUME NEW s \in Seq(Item), NEW m \in 0..Len(s)
    PROVE  /\ Front(m, s) \in Seq(Item) /\ Len(Front(m, s)) = m
           /\ Rest(m, s) \in Seq(Item)  /\ Len(Rest(m, s)) = Len(s) - m
<1>1. Len(s) \in Nat /\ \A i \in 1..Len(s) : s[i] \in Item
  BY LenProperties, ElementOfSeq
<1>2. /\ Front(m, s) \in Seq(Item)
      /\ Len(Front(m, s)) = IF 1 <= m THEN m - 1 + 1 ELSE 0
  <2>1. \A i \in 1..m : s[i] \in Item
    BY <1>1
  <2>. QED BY <1>1, <2>1, SubSeqProperties, m \in Int DEF Front
<1>3. /\ Rest(m, s) \in Seq(Item)
      /\ Len(Rest(m, s)) = IF m + 1 <= Len(s) THEN Len(s) - (m + 1) + 1 ELSE 0
  <2>1. \A i \in m+1..Len(s) : s[i] \in Item
    BY <1>1
  <2>. QED BY <1>1, <2>1, SubSeqProperties, m + 1 \in Int, Len(s) \in Int DEF Rest
<1>. QED BY <1>1, <1>2, <1>3

LEMMA TakeFacts ==
    ASSUME TypeOK, NEW c \in Consumers, Take(c)
    PROVE  LET there == chain[head].available
               n == Least(want[c], Len(there)) IN
           /\ there \in Seq(Item) /\ n \in 0..Len(there) /\ n <= want[c]
           /\ chain' \in Seq(Part) /\ Len(chain') = Len(chain)
           /\ chain'[head].available = Rest(n, there)
           /\ \A k \in 1..Len(chain) :
                 /\ k # head => chain'[k].available = chain[k].available
                 /\ chain'[k].next = chain[k].next
                 /\ chain'[k].references = chain[k].references + IF k = head THEN 1 ELSE 0
           /\ items' = [items EXCEPT ![c] = items[c] \o Front(n, there)]
           /\ want' = [want EXCEPT ![c] = want[c] - n]
<1> DEFINE there == chain[head].available
           n == Least(want[c], Len(there))
           r == [chain[head] EXCEPT !.available = Rest(n, there), !.references = @ + 1]
<1>1. there \in Seq(Item) /\ Len(there) \in Nat /\ want[c] \in Nat
  BY ChainFacts, LenProperties DEF TypeOK
<1>2. n \in 0..Len(there) /\ n <= want[c]
  BY <1>1 DEF Least
<1>3. chain' = [chain EXCEPT ![head] = r]
  <2>1. head \in DOMAIN chain /\ chain[head] \in Part
    BY ChainFacts
  <2>. QED BY <2>1 DEF Take, Rest
<1>4. /\ items' = [items EXCEPT ![c] = items[c] \o Front(n, there)]
      /\ want' = [want EXCEPT ![c] = want[c] - n]
  BY DEF Take, Front
<1> HIDE DEF there, n
<1>5. Rest(n, there) \in Seq(Item)
  BY <1>1, <1>2, SplitType
<1>6. /\ r \in Part /\ r.available = Rest(n, there) /\ r.next = chain[head].next
      /\ r.references = chain[head].references + 1
  <2>1. chain[head] \in Part
    BY ChainFacts
  <2>2. \A x \in Part, u \in Seq(Item) :
            LET y == [x EXCEPT !.available = u] IN
            /\ y \in Part /\ y.available = u /\ y.next = x.next /\ y.references = x.references
    BY DEF Part
  <2>3. \A y \in Part :
            LET z == [y EXCEPT !.references = @ + 1] IN
            /\ z \in Part /\ z.available = y.available /\ z.next = y.next
            /\ z.references = y.references + 1
    BY DEF Part
  <2> DEFINE y == [chain[head] EXCEPT !.available = Rest(n, there)]
  <2>4. r = [y EXCEPT !.references = @ + 1]
    OBVIOUS
  <2>5. /\ y \in Part /\ y.available = Rest(n, there) /\ y.next = chain[head].next
        /\ y.references = chain[head].references
    BY <1>5, <2>1, <2>2
  <2> HIDE DEF r, y
  <2>. QED BY <2>3, <2>4, <2>5
<1> HIDE DEF r
<1>7. /\ chain' \in Seq(Part) /\ Len(chain') = Len(chain) /\ chain'[head] = r
      /\ \A k \in 1..Len(chain) : k # head => chain'[k] = chain[k]
  BY <1>3, <1>6, ChainFacts, ChainUpdate
<1>. QED BY <1>1, <1>2, <1>4, <1>6, <1>7, ChainFacts DEF there, n

\* How much of the chunk of p goes to the first of its pieces
Kept(p) == Least(step[p], Len(chunk[p]))

LEMMA PiecesFacts ==
    ASSUME TypeOK, NEW p \in Producers
    PROVE  /\ chunk[p] \in Seq(Item) /\ Kept(p) \in 0..Len(chunk[p])
           /\ Kept(p) = 0 => chunk[p] = <<>>
           /\ Pieces(p) \in Seq(Part) /\ Len(Pieces(p)) \in {1, 2}
           /\ Pieces(p)[1].available = Front(Kept(p), chunk[p])
           /\ Len(Pieces(p)) = 1 => Kept(p) = Len(chunk[p]) /\ ~Pieces(p)[1].next
           /\ Len(Pieces(p)) = 2 => /\ Pieces(p)[1].next /\ ~Pieces(p)[2].next
                                    /\ Pieces(p)[2].available = Rest(Kept(p), chunk[p])
           /\ \A i \in 1..Len(Pieces(p)) :
                 /\ Pieces(p)[i].references = 1
                 /\ chunk[p] = <<>> => Pieces(p)[i].available = <<>>
<1>1. chunk[p] \in Seq(Item) /\ Len(chunk[p]) \in Nat /\ step[p] \in Nat \ {0}
  BY LenProperties, ThreadFacts DEF TypeOK
<1>2. Kept(p) \in 0..Len(chunk[p]) /\ (Kept(p) = 0 => chunk[p] = <<>>)
  BY <1>1, EmptySeq DEF Kept, Least
<1>3. Front(Kept(p), chunk[p]) \in Seq(Item) /\ Rest(Kept(p), chunk[p]) \in Seq(Item)
  BY <1>1, <1>2, SplitType
<1>4. \A u \in Seq(Item), b \in BOOLEAN :
          /\ Chunk(u, b) \in Part /\ Chunk(u, b).available = u /\ Chunk(u, b).next = b
          /\ Chunk(u, b).references = 1
  BY DEF Chunk, Part
<1>5. CASE Len(chunk[p]) > step[p]
  <2> DEFINE a == Chunk(Front(Kept(p), chunk[p]), TRUE)
             b == Chunk(Rest(Kept(p), chunk[p]), FALSE)
  <2>1. Pieces(p) = <<a, b>>
    BY <1>1, <1>5 DEF Pieces, Front, Rest, Kept, Least
  <2>2. /\ a \in Part /\ a.available = Front(Kept(p), chunk[p]) /\ a.next = TRUE /\ a.references = 1
        /\ b \in Part /\ b.available = Rest(Kept(p), chunk[p]) /\ b.next = FALSE /\ b.references = 1
    BY <1>3, <1>4
  <2> HIDE DEF a, b
  <2>3. /\ Pieces(p) \in Seq(Part) /\ Len(Pieces(p)) = 2
        /\ Pieces(p)[1] = a /\ Pieces(p)[2] = b
    BY <2>1, <2>2
  <2>4. chunk[p] # <<>> /\ \A i \in 1..Len(Pieces(p)) : Pieces(p)[i].references = 1
    BY <1>1, <1>5, <2>2, <2>3, EmptySeq
  <2>. QED BY <1>1, <1>2, <2>2, <2>3, <2>4
<1>6. CASE ~(Len(chunk[p]) > step[p])
  <2> DEFINE a == Chunk(chunk[p], FALSE)
  <2>1. Pieces(p) = <<a>>
    BY <1>6 DEF Pieces
  <2>2. a \in Part /\ a.available = chunk[p] /\ a.next = FALSE /\ a.references = 1
    BY <1>1, <1>4
  <2> HIDE DEF a
  <2>3. Pieces(p) \in Seq(Part) /\ Len(Pieces(p)) = 1 /\ Pieces(p)[1] = a
    BY <2>1, <2>2
  <2>4. Kept(p) = Len(chunk[p]) /\ Front(Kept(p), chunk[p]) = chunk[p]
    BY <1>1, <1>6, SubSeqFull DEF Front, Kept, Least
  <2>5. \A i \in 1..Len(Pieces(p)) :
            Pieces(p)[i].references = 1 /\ Pieces(p)[i].available = chunk[p]
    BY <2>2, <2>3
  <2>. QED BY <1>1, <1>2, <2>2, <2>3, <2>4, <2>5
<1>. QED BY <1>5, <1>6

LEMMA LinkFacts ==
    ASSUME TypeOK, NEW p \in Producers, Link(p)
    PROVE  /\ chain' \in Seq(Part) /\ Len(chain') = Len(chain) + Len(Pieces(p))
           /\ \A k \in 1..Len(chain) :
                 /\ chain'[k].available = chain[k].available
                 /\ chain'[k].references = chain[k].references
                 /\ chain'[k].next = (chain[k].next \/ k = tail)
           /\ \A i \in 1..Len(Pieces(p)) : chain'[Len(chain) + i] = Pieces(p)[i]
<1> DEFINE r == [chain[tail] EXCEPT !.next = TRUE]
           linked == [chain EXCEPT ![tail] = r]
<1>1. /\ r \in Part /\ r.available = chain[tail].available /\ r.next = TRUE
      /\ r.references = chain[tail].references
  <2>1. chain[tail] \in Part
    BY ChainFacts
  <2>. QED BY <2>1 DEF Part
<1>2. chain' = linked \o Pieces(p)
  BY DEF Link
<1> HIDE DEF r
<1>3. /\ linked \in Seq(Part) /\ Len(linked) = Len(chain) /\ linked[tail] = r
      /\ \A k \in 1..Len(chain) : k # tail => linked[k] = chain[k]
  BY <1>1, ChainFacts, ChainUpdate
<1> HIDE DEF linked
<1>4. Pieces(p) \in Seq(Part) /\ Len(Pieces(p)) \in Nat /\ Len(chain) \in Nat
  BY PiecesFacts, ChainFacts
<1>5. /\ chain' \in Seq(Part) /\ Len(chain') = Len(chain) + Len(Pieces(p))
      /\ \A k \in 1..Len(chain) + Len(Pieces(p)) :
            chain'[k] = IF k <= Len(chain) THEN linked[k] ELSE Pieces(p)[k - Len(chain)]
  <2>1. /\ linked \o Pieces(p) \in Seq(Part)
        /\ Len(linked \o Pieces(p)) = Len(linked) + Len(Pieces(p))
        /\ \A k \in 1..Len(linked) + Len(Pieces(p)) : (linked \o Pieces(p))[k] =
              IF k <= Len(linked) THEN linked[k] ELSE Pieces(p)[k - Len(linked)]
    BY <1>3, <1>4, ConcatProperties
  <2>. QED BY <1>2, <1>3, <2>1
<1>6. \A k \in 1..Len(chain) : chain'[k] = linked[k]
  BY <1>4, <1>5
<1>7. ASSUME NEW i \in 1..Len(Pieces(p)) PROVE chain'[Len(chain) + i] = Pieces(p)[i]
  BY <1>4, <1>5
<1>8. \A k \in 1..Len(chain) : chain[k].next \in BOOLEAN
  BY ChainFacts
<1>. QED BY <1>1, <1>3, <1>5, <1>6, <1>7, <1>8
---------------------------------------------------------------------------------
(***************************************************************************)
(* What has to be shown of a step of a consumer, beside the types: where   *)
(* it goes, what it knows of the head there, and, when it is not in pop,   *)
(* that it leaves the head, the chunks and the semaphore alone.            *)
(***************************************************************************)
LEMMA ConsumerStep ==
    ASSUME Inv, TypeOK', NEW c \in Consumers, NEW l \in ConsumerLabel,
           pc' = [pc EXCEPT ![c] = l],
           UNCHANGED <<tail, finished, done, prodMutex, chunk, amount>>,
           Len(chain') = Len(chain),
           \A k \in 1..Len(chain) : chain'[k].next = chain[k].next,
           consMutex' = IF l \in Inside THEN c
                        ELSE IF pc[c] \in Inside THEN Nobody ELSE consMutex,
           l \in Inside => pc[c] \in Inside \/ consMutex = Nobody,
           \/ pc[c] \in Inside
           \/ /\ head' = head /\ value' = value
              /\ \A k \in 1..Len(chain) : chain'[k].available = chain[k].available
              /\ \A d \in Consumers : d # c => hasNext'[d] = hasNext[d] /\ pairs'[d] = pairs[d],
           Credit', Looks(c)'
    PROVE  Inv'
<1>1. /\ TypeOK /\ Places /\ Exclusion /\ Linked /\ Counted /\ Announced
      /\ c \in Threads /\ pc \in [Threads -> ProducerLabel \cup ConsumerLabel]
  BY ThreadFacts DEF Inv, TypeOK
<1>2. pc'[c] = l /\ \A t \in Threads : t # c => pc'[t] = pc[t]
  BY <1>1
<1>3. /\ \A p \in Producers : p \in Threads /\ pc'[p] = pc[p]
      /\ \A d \in Consumers : d \in Threads /\ (d # c => pc'[d] = pc[d])
  BY <1>2, ThreadFacts
<1>4. Places'
  BY <1>1, <1>2, <1>3 DEF Places
<1>5. Exclusion'
  <2>1. \A p \in Producers : pc'[p] \in Linking <=> prodMutex' = p
    BY <1>1, <1>3 DEF Exclusion
  <2>2. ASSUME NEW d \in Consumers PROVE pc'[d] \in Inside <=> consMutex' = d
    BY <1>1, <1>2, <1>3, ThreadFacts DEF Exclusion
  <2>. QED BY <2>1, <2>2 DEF Exclusion
<1>6. Linked'
  BY <1>1, <1>3 DEF Linked
<1>7. Counted' /\ Announced'
  <2>1. Gone' = Gone
    BY <1>3 DEF Gone
  <2>. QED BY <1>1, <1>3, <2>1 DEF Counted, Announced
<1>8. ASSUME NEW d \in Consumers, d # c PROVE Looks(d)'
  <2>1. CASE pc[d] \notin Inside
    BY <1>3, <1>8, <2>1 DEF Looks, Inside
  <2>2. CASE pc[d] \in Inside
    <3>1. pc[c] \notin Inside
      BY <1>1, <1>8, <2>2 DEF Exclusion
    <3>2. /\ head' = head /\ value' = value /\ finished' = finished
          /\ \A k \in 1..Len(chain) : /\ chain'[k].available = chain[k].available
                                      /\ chain'[k].next = chain[k].next
          /\ hasNext'[d] = hasNext[d] /\ pairs'[d] = pairs[d] /\ pc'[d] = pc[d]
          /\ head \in 1..Len(chain)
      BY <1>1, <1>3, <1>8, <3>1, ChainFacts
    <3>3. (HeadEmpty' <=> HeadEmpty) /\ chain'[head'].next = chain[head].next
      BY <3>2 DEF HeadEmpty
    <3>4. Left' => Left
      BY <3>2, ChainFacts DEF Left
    <3>5. Heralded => Heralded'
      BY <1>3, <3>2 DEF Heralded
    <3>6. Terminated' <=> Terminated
      BY DEF Terminated
    <3>7. Looks(d)
      BY DEF Inv
    <3>. QED BY <3>2, <3>3, <3>4, <3>5, <3>6, <3>7 DEF Looks
  <2>. QED BY <2>1, <2>2
<1>. QED BY <1>4, <1>5, <1>6, <1>7, <1>8 DEF Inv

\* The same of a step of a producer, which may add chunks, post and be counted
LEMMA ProducerStep ==
    ASSUME Inv, TypeOK', NEW p \in Producers, NEW l \in ProducerLabel,
           pc' = [pc EXCEPT ![p] = l],
           UNCHANGED <<head, consMutex, popping>>,
           \A q \in Producers : q # p => chunk'[q] = chunk[q] /\ amount'[q] = amount[q],
           prodMutex' = IF l \in Linking THEN p
                        ELSE IF pc[p] \in Linking THEN Nobody ELSE prodMutex,
           l \in Linking => pc[p] \in Linking \/ prodMutex = Nobody,
           Linked', Counted',
           l \in {"link", "linklast"} /\ chunk'[p] # <<>> => amount'[p] > 0,
           l \notin {"ready", "link", "linklast"} => chunk'[p] = <<>>,
           Terminated => Terminated', Heralded => Heralded', Credit',
           Len(chain') >= Len(chain),
           \A k \in 1..Len(chain) : /\ chain'[k].available = chain[k].available
                                    /\ chain[k].next => chain'[k].next,
           Left' => Left \/ Heralded'
    PROVE  Inv'
<1>1. /\ TypeOK /\ Places /\ Exclusion /\ Announced
      /\ p \in Threads /\ pc \in [Threads -> ProducerLabel \cup ConsumerLabel]
  BY ThreadFacts DEF Inv, TypeOK
<1>2. pc'[p] = l /\ \A t \in Threads : t # p => pc'[t] = pc[t]
  BY <1>1
<1>3. /\ \A q \in Producers : q \in Threads /\ (q # p => pc'[q] = pc[q])
      /\ \A c \in Consumers : c \in Threads /\ pc'[c] = pc[c]
  BY <1>2, ThreadFacts
<1>4. Places'
  BY <1>1, <1>2, <1>3 DEF Places
<1>5. Exclusion'
  <2>1. \A c \in Consumers : pc'[c] \in Inside <=> consMutex' = c
    BY <1>1, <1>3 DEF Exclusion
  <2>2. ASSUME NEW q \in Producers PROVE pc'[q] \in Linking <=> prodMutex' = q
    BY <1>1, <1>2, <1>3, ThreadFacts DEF Exclusion
  <2>. QED BY <2>1, <2>2 DEF Exclusion
<1>6. Announced'
  BY <1>1, <1>2, <1>3 DEF Announced
<1>7. ASSUME NEW c \in Consumers PROVE Looks(c)'
  <2>1. Looks(c) /\ pc'[c] = pc[c] /\ head' = head /\ head \in 1..Len(chain)
    BY <1>1, <1>3, ChainFacts DEF Inv
  <2>2. (HeadEmpty' <=> HeadEmpty) /\ (chain[head].next => chain'[head'].next)
    BY <2>1 DEF HeadEmpty
  <2>. QED BY <2>1, <2>2 DEF Looks, popping
<1>. QED BY <1>4, <1>5, <1>6, <1>7 DEF Inv
---------------------------------------------------------------------------------
LEMMA InitInv == Init => Inv
<1> SUFFICES ASSUME Init PROVE Inv
  OBVIOUS
<1>1. /\ head = 1 /\ tail = 1 /\ chain \in Seq(Part) /\ Len(chain) = 1 /\ chain[1].available = <<>>
      /\ chain[1].next = FALSE
  <2> DEFINE first == Chunk(<<>>, FALSE)
  <2>1. first \in Part /\ first.available = <<>> /\ first.next = FALSE
    BY EmptySeq DEF Chunk, Part
  <2>2. chain = <<first>> /\ head = 1 /\ tail = 1
    BY DEF Init
  <2> HIDE DEF first
  <2>3. \A a \in Part : <<a>> \in Seq(Part) /\ Len(<<a>>) = 1 /\ <<a>>[1] = a
    OBVIOUS
  <2>4. chain \in Seq(Part) /\ Len(chain) = 1 /\ chain[1] = first
    BY <2>1, <2>2, <2>3
  <2>. QED BY <2>1, <2>2, <2>4
<1>2. Gone = {}
  BY ThreadFacts DEF Init, Gone
<1>3. TypeOK
  <2>1. done \in 0..Cardinality(Producers)
    BY CountGone DEF Init
  <2>2. pc \in [Threads -> ProducerLabel \cup ConsumerLabel]
    BY DEF Init, ProducerLabel, ConsumerLabel
  <2>3. pushed \in [Producers -> 0..N]
    BY FifoSizes DEF Init
  <2>4. /\ chunk \in [Producers -> Seq(Item)] /\ items \in [Consumers -> Seq(Item)]
        /\ ranges \in [Consumers -> Seq(Nat)] /\ pairs \in [Consumers -> Seq(Nat)]
        /\ taken \in [Consumers -> Seq(Item)]
    BY EmptySeq DEF Init
  <2>5. head \in 1..Len(chain) /\ tail \in 1..Len(chain)
    BY <1>1
  <2>6. chain \in Seq([available : Seq(Item), next : BOOLEAN, references : Int])
    BY <1>1 DEF Part
  <2>7. /\ value \in Int /\ finished \in BOOLEAN
        /\ prodMutex \in Producers \cup {Nobody} /\ consMutex \in Consumers \cup {Nobody}
    <3>1. value = 0 /\ finished = FALSE /\ prodMutex = Nobody /\ consMutex = Nobody
      BY DEF Init
    <3>2. value \in Int
      BY <3>1
    <3>3. finished \in BOOLEAN
      BY <3>1
    <3>4. prodMutex \in Producers \cup {Nobody} /\ consMutex \in Consumers \cup {Nobody}
      BY <3>1
    <3>. QED BY <3>2, <3>3, <3>4
  <2>8. /\ amount \in [Producers -> Nat]
        /\ moved \in [Threads -> Nat] /\ changed \in [Threads -> BOOLEAN]
    BY DEF Init
  <2>9. /\ want \in [Consumers -> Nat]
        /\ hasNext \in [Consumers -> BOOLEAN] /\ patient \in [Consumers -> BOOLEAN]
    BY DEF Init
  <2>10. step \in [Threads -> Nat \ {0}]
    BY FifoSizes DEF Init
  <2>. QED BY <2>1, <2>2, <2>3, <2>4, <2>5, <2>6, <2>7, <2>8, <2>9, <2>10 DEF TypeOK
<1>4. Places /\ Exclusion /\ Linked
  <2>1. Linked
    BY <1>1 DEF Linked
  <2>2. prodMutex = Nobody /\ consMutex = Nobody /\ \A t \in Threads : pc[t] = "ready"
    BY DEF Init
  <2>. QED BY <2>1, <2>2, ThreadFacts
       DEF Places, Exclusion, ProducerLabel, ConsumerLabel, Linking, Inside
<1>5. Counted /\ Announced /\ Credit
  BY <1>2, FS_EmptySet, ThreadFacts DEF Init, Counted, Announced, Credit
<1>6. ASSUME NEW c \in Consumers PROVE Looks(c)
  BY ThreadFacts DEF Init, Looks
<1>. QED BY <1>3, <1>4, <1>5, <1>6 DEF Inv

\* A step counted in by CountMoved may change the step of the thread that takes it.
LEMMA CountMovedType ==
    ASSUME TypeOK, NEW t \in Threads, NEW n \in Nat, CountMoved(t, n)
    PROVE  /\ step' \in [Threads -> Nat \ {0}] /\ moved' \in [Threads -> Nat]
           /\ changed' \in [Threads -> BOOLEAN]
<1> DEFINE counting == ChangeAfter # 0 /\ ~changed[t]
           change == counting /\ moved[t] + n >= ChangeAfter
<1>1. /\ moved' = [moved EXCEPT ![t] = IF counting THEN @ + n ELSE @]
      /\ changed' = [changed EXCEPT ![t] = @ \/ change]
      /\ step' = [step EXCEPT ![t] = IF change THEN NewStep[t] ELSE @]
  BY DEF CountMoved
<1> HIDE DEF counting, change
<1>2. NewStep[t] \in Nat \ {0}
  BY FifoSizes
<1>3. changed' \in [Threads -> BOOLEAN]
  <2>1. (changed[t] \/ change) \in BOOLEAN
    OBVIOUS
  <2>. QED BY <1>1, <2>1 DEF TypeOK
<1>4. step \in [Threads -> Nat \ {0}] /\ moved \in [Threads -> Nat]
  BY DEF TypeOK
<1>5. step' \in [Threads -> Nat \ {0}]
  BY <1>1, <1>2, <1>4
<1>6. moved' \in [Threads -> Nat]
  BY <1>1, <1>4
<1>. QED BY <1>3, <1>5, <1>6

LEMMA HeldItem ==
    ASSUME TypeOK, NEW p \in Producers, Push(p)
    PROVE  /\ <<p, pushed[p] + 1>> \in Item
           /\ pushed' \in [Producers -> 0..N] /\ chunk' \in [Producers -> Seq(Item)]
<1>1. pushed[p] \in 0..N /\ pushed[p] < N /\ N \in Nat
  BY FifoSizes DEF TypeOK, Push
<1>2. <<p, pushed[p] + 1>> \in Item /\ pushed[p] + 1 \in 0..N
  BY <1>1 DEF Item
<1>3. Append(chunk[p], <<p, pushed[p] + 1>>) \in Seq(Item)
  BY <1>2, AppendProperties DEF TypeOK
<1>. QED BY <1>2, <1>3 DEF Push, TypeOK

\* A step of a producer on its own chunk: to the link, or back to the loop
LEMMA OwnChunkStep ==
    ASSUME Inv, TypeOK', NEW p \in Producers, NEW l \in {"ready", "link", "linklast"},
           pc[p] = "ready", pc' = [pc EXCEPT ![p] = l],
           UNCHANGED <<fifo, mutexes, popping>>,
           \A q \in Producers : q # p => chunk'[q] = chunk[q] /\ amount'[q] = amount[q],
           l # "ready" /\ chunk'[p] # <<>> => amount'[p] > 0
    PROVE  Inv'
<1>1. TypeOK /\ p \in Threads /\ l \in ProducerLabel
  BY ThreadFacts DEF Inv, ProducerLabel
<1>2. \A q \in Producers : (pc'[q] \in Linking <=> pc[q] \in Linking)
          /\ (pc'[q] \in {"last", "done"} <=> pc[q] \in {"last", "done"})
          /\ (pc[q] \in Linking => amount'[q] = amount[q])
          /\ (pc'[q] \in {"tail", "taillast"} <=> pc[q] \in {"tail", "taillast"})
  BY <1>1, ThreadFacts DEF TypeOK, Linking
<1>3. Linked' /\ Counted' /\ (Heralded => Heralded')
  <2>1. Gone' = Gone
    BY <1>2 DEF Gone
  <2>2. Linked'
    BY <1>2 DEF Inv, Linked, fifo
  <2>3. Heralded => Heralded'
    BY <1>2 DEF Heralded, fifo
  <2>. QED BY <2>1, <2>2, <2>3 DEF Inv, Counted, fifo
<1>4. (Terminated' <=> Terminated) /\ (Left' <=> Left) /\ Credit'
  BY DEF Inv, Terminated, Left, Credit, fifo
<1>5. Len(chain) \in Nat /\ chain' = chain /\ UNCHANGED <<head, prodMutex, consMutex>>
  BY <1>1, ChainFacts DEF fifo, mutexes
<1>6. /\ pc[p] \notin Linking /\ l \notin Linking
      /\ l \in {"link", "linklast"} /\ chunk'[p] # <<>> => amount'[p] > 0
      /\ l \notin {"ready", "link", "linklast"} => chunk'[p] = <<>>
  BY DEF Linking
<1>7. /\ Len(chain') >= Len(chain)
      /\ \A k \in 1..Len(chain) : /\ chain'[k].available = chain[k].available
                                  /\ chain[k].next => chain'[k].next
  BY <1>5
<1>. QED BY <1>1, <1>3, <1>4, <1>5, <1>6, <1>7, ProducerStep

LEMMA PushInv ==
    ASSUME Inv, NEW p \in Producers, Push(p)
    PROVE  Inv'
<1> DEFINE full == Len(chunk[p]) = step[p]
           l == IF full THEN "link" ELSE "ready"
<1>1. /\ UNCHANGED <<fifo, mutexes, popping, elements, proxy>>
      /\ amount' = [amount EXCEPT ![p] = IF full THEN step[p] + 1 ELSE 0]
      /\ pc' = [pc EXCEPT ![p] = l] /\ pc[p] = "ready"
      /\ chunk' = [chunk EXCEPT ![p] = Append(@, <<p, pushed[p] + 1>>)]
  BY DEF Push, Goto
<1>2. TypeOK /\ p \in Threads /\ l \in {"ready", "link", "linklast"} /\ l \in ProducerLabel
  BY ThreadFacts DEF Inv, ProducerLabel
<1>3. amount \in [Producers -> Nat] /\ step[p] \in Nat
  BY <1>2 DEF TypeOK
<1>4. TypeOK'
  <2>1. amount' \in [Producers -> Nat]
    BY <1>1, <1>3
  <2>2. pc' \in [Threads -> ProducerLabel \cup ConsumerLabel]
    BY <1>1, <1>2 DEF TypeOK
  <2>. QED BY <1>1, <1>2, <2>1, <2>2, HeldItem
       DEF TypeOK, fifo, mutexes, popping, elements, proxy
<1>5. l # "ready" => amount'[p] > 0
  BY <1>1, <1>3
<1> HIDE DEF l
<1>6. \A q \in Producers : q # p => chunk'[q] = chunk[q] /\ amount'[q] = amount[q]
  BY <1>1, <1>2 DEF TypeOK
<1>. QED BY <1>1, <1>2, <1>4, <1>5, <1>6, OwnChunkStep

LEMMA PushImmediateInv ==
    ASSUME Inv, NEW p \in Producers, PushImmediate(p)
    PROVE  Inv'
<1>1. /\ UNCHANGED <<fifo, mutexes, chunk, pushed, popping, elements, proxy>>
      /\ amount' = [amount EXCEPT ![p] = step[p]]
      /\ pc' = [pc EXCEPT ![p] = "link"] /\ pc[p] = "ready"
  BY DEF PushImmediate, Goto
<1>2. TypeOK /\ p \in Threads /\ "link" \in ProducerLabel
  BY ThreadFacts DEF Inv, ProducerLabel
<1>3. amount \in [Producers -> Nat] /\ step[p] \in Nat \ {0}
  BY <1>2 DEF TypeOK
<1>4. amount' \in [Producers -> Nat] /\ amount'[p] > 0
      /\ \A q \in Producers : q # p => amount'[q] = amount[q]
  BY <1>1, <1>3
<1>5. TypeOK'
  <2>1. pc' \in [Threads -> ProducerLabel \cup ConsumerLabel]
    BY <1>1, <1>2 DEF TypeOK
  <2>. QED BY <1>1, <1>2, <1>4, <2>1 DEF TypeOK, fifo, mutexes, popping, elements, proxy
<1>. QED BY <1>1, <1>4, <1>5, OwnChunkStep

LEMMA TerminateInv ==
    ASSUME Inv, NEW p \in Producers, Terminate(p)
    PROVE  Inv'
<1>1. /\ UNCHANGED <<fifo, mutexes, chunk, pushed, popping, elements, proxy>>
      /\ amount' = [amount EXCEPT ![p] = Len(chunk[p])]
      /\ pc' = [pc EXCEPT ![p] = "linklast"] /\ pc[p] = "ready"
  BY DEF Terminate, Goto
<1>2. TypeOK /\ p \in Threads /\ "linklast" \in ProducerLabel
  BY ThreadFacts DEF Inv, ProducerLabel
<1>3. /\ amount \in [Producers -> Nat] /\ Len(chunk[p]) \in Nat
      /\ chunk[p] # <<>> => Len(chunk[p]) > 0
  <2>1. amount \in [Producers -> Nat] /\ chunk[p] \in Seq(Item)
    BY <1>2 DEF TypeOK
  <2>. QED BY <2>1, EmptySeq, LenProperties
<1>4. /\ amount' \in [Producers -> Nat] /\ (chunk'[p] # <<>> => amount'[p] > 0)
      /\ \A q \in Producers : q # p => amount'[q] = amount[q]
  BY <1>1, <1>3
<1>5. TypeOK'
  <2>1. pc' \in [Threads -> ProducerLabel \cup ConsumerLabel]
    BY <1>1, <1>2 DEF TypeOK
  <2>. QED BY <1>1, <1>2, <1>4, <2>1 DEF TypeOK, fifo, mutexes, popping, elements, proxy
<1>. QED BY <1>1, <1>4, <1>5, OwnChunkStep

LEMMA LinkInv ==
    ASSUME Inv, NEW p \in Producers, Link(p)
    PROVE  Inv'
<1> DEFINE l == AfterLink[pc[p]]
<1>1. /\ UNCHANGED <<head, tail, value, finished, done, consMutex, amount, pushed,
                     popping, elements, proxy>>
      /\ pc[p] \in {"link", "linklast"} /\ prodMutex = Nobody /\ prodMutex' = p
      /\ chunk' = [chunk EXCEPT ![p] = <<>>] /\ pc' = [pc EXCEPT ![p] = l]
  BY DEF Link, Free, Goto
<1>2. TypeOK /\ p \in Threads /\ l \in {"tail", "taillast"} /\ l \in ProducerLabel /\ l \in Linking
  BY <1>1, ThreadFacts DEF Inv, AfterLink, ProducerLabel, Linking
<1> HIDE DEF l
<1>3. tail = Len(chain)
  BY <1>1, ThreadFacts DEF Inv, Exclusion, Linked, Linking
<1>4. /\ chain' \in Seq(Part) /\ Len(chain') = Len(chain) + Len(Pieces(p))
      /\ Len(Pieces(p)) \in {1, 2} /\ Len(chain) \in Nat
      /\ \A k \in 1..Len(chain) :
            /\ chain'[k].available = chain[k].available
            /\ chain'[k].next = (chain[k].next \/ k = tail)
      /\ \A i \in 1..Len(Pieces(p)) : chain'[Len(chain) + i] = Pieces(p)[i]
      /\ \A i \in 1..Len(Pieces(p)) : chunk[p] = <<>> => Pieces(p)[i].available = <<>>
      /\ Pieces(p)[1].next <=> Len(Pieces(p)) = 2
      /\ Len(Pieces(p)) = 2 => ~Pieces(p)[2].next
  <2>1. /\ chain' \in Seq(Part) /\ Len(chain') = Len(chain) + Len(Pieces(p))
        /\ \A k \in 1..Len(chain) :
              /\ chain'[k].available = chain[k].available
              /\ chain'[k].next = (chain[k].next \/ k = tail)
    BY <1>2, LinkFacts
  <2>2. \A i \in 1..Len(Pieces(p)) : chain'[Len(chain) + i] = Pieces(p)[i]
    BY <1>2, LinkFacts
  <2>3. /\ Len(Pieces(p)) \in {1, 2} /\ Len(chain) \in Nat
        /\ \A i \in 1..Len(Pieces(p)) : chunk[p] = <<>> => Pieces(p)[i].available = <<>>
    BY <1>2, PiecesFacts, ChainFacts
  <2>4. /\ Len(Pieces(p)) = 1 => ~Pieces(p)[1].next
        /\ Len(Pieces(p)) = 2 => Pieces(p)[1].next /\ ~Pieces(p)[2].next
    BY <1>2, PiecesFacts
  <2>. QED BY <2>1, <2>2, <2>3, <2>4
<1>5. \A k \in 1..Len(chain') : k \in 1..Len(chain) \/ k - Len(chain) \in 1..Len(Pieces(p))
  BY <1>4
<1>6. TypeOK'
  <2>1. head' \in 1..Len(chain') /\ tail' \in 1..Len(chain')
    BY <1>1, <1>2, <1>4, ChainFacts
  <2>2. chunk' \in [Producers -> Seq(Item)]
    BY <1>1, <1>2, EmptySeq DEF TypeOK
  <2>3. pc' \in [Threads -> ProducerLabel \cup ConsumerLabel]
    BY <1>1, <1>2 DEF TypeOK
  <2>. QED BY <1>1, <1>2, <1>4, <2>1, <2>2, <2>3 DEF TypeOK, Part, popping, elements, proxy
<1>7. pc'[p] = l /\ \A q \in Producers : q # p => pc'[q] = pc[q]
  BY <1>1, <1>2, ThreadFacts DEF TypeOK
<1>8. Linked'
  <2>1. ASSUME NEW k \in 1..Len(chain') PROVE chain'[k].next <=> k < Len(chain')
    <3>1. CASE k \in 1..Len(chain)
      <4>1. (chain[k].next <=> k < Len(chain)) /\ chain'[k].next = (chain[k].next \/ k = tail)
        BY <1>4, <3>1 DEF Inv, Linked
      <4>2. k <= Len(chain) /\ Len(chain') > Len(chain) /\ Len(chain) \in Nat
        BY <1>4, <3>1
      <4>3. k < Len(chain') /\ (k = tail \/ k < Len(chain))
        BY <1>3, <4>2, <3>1
      <4>4. chain[k].next \/ k = tail
        BY <4>1, <4>3
      <4>5. chain'[k].next
        BY <4>1, <4>4
      <4>. QED BY <4>3, <4>5
    <3>2. CASE k - Len(chain) = 1
      <4>1. 1 \in 1..Len(Pieces(p)) /\ k = Len(chain) + 1
        BY <1>4, <3>2
      <4>2. chain'[k] = Pieces(p)[1]
        BY <1>4, <4>1
      <4>. QED BY <1>4, <4>1, <4>2
    <3>3. CASE k - Len(chain) = 2
      <4>1. 2 \in 1..Len(Pieces(p)) /\ k = Len(chain) + 2 /\ Len(Pieces(p)) = 2
        BY <1>4, <1>5, <3>3
      <4>2. chain'[k] = Pieces(p)[2]
        BY <1>4, <4>1
      <4>. QED BY <1>4, <4>1, <4>2
    <3>. QED BY <1>4, <1>5, <3>1, <3>2, <3>3
  <2>. QED BY <1>2, <1>7, <2>1 DEF Linked
<1>9. Counted'
  <2>1. Gone' = Gone
    BY <1>1, <1>2, <1>7 DEF Gone
  <2>. QED BY <1>1, <2>1 DEF Inv, Counted
<1>10. Heralded => Heralded'
  BY <1>1, <1>2, <1>7 DEF Heralded, Linking
<1>11. Left' => Left \/ Heralded'
  <2>1. CASE chunk[p] # <<>>
    BY <1>1, <1>2, <1>7, <2>1 DEF Inv, Announced, Heralded
  <2>2. CASE chunk[p] = <<>>
    <3>1. ASSUME NEW k \in head'..Len(chain'), chain'[k].available # <<>> PROVE Left
      <4>1. k \in 1..Len(chain')
        BY <1>1, <1>2, <1>4, ChainFacts
      <4>2. k \in 1..Len(chain)
        <5>1. SUFFICES ASSUME k \notin 1..Len(chain) PROVE FALSE
          OBVIOUS
        <5>2. k - Len(chain) \in 1..Len(Pieces(p)) /\ Len(chain) + (k - Len(chain)) = k
          BY <1>4, <1>5, <4>1, <5>1
        <5>3. chain'[k] = Pieces(p)[k - Len(chain)]
          BY <1>4, <5>2
        <5>. QED BY <1>4, <2>2, <3>1, <5>2, <5>3
      <4>3. k \in head..Len(chain) /\ chain[k].available # <<>>
        BY <1>1, <1>4, <3>1, <4>2
      <4>. QED BY <4>3 DEF Left
    <3>. QED BY <3>1 DEF Left
  <2>. QED BY <2>1, <2>2
<1>12. /\ \A q \in Producers : q # p => chunk'[q] = chunk[q] /\ amount'[q] = amount[q]
       /\ chunk'[p] = <<>>
  BY <1>1, <1>2 DEF TypeOK
<1>13. Credit' /\ (Terminated => Terminated')
  BY <1>1 DEF Inv, Credit, Terminated
<1>14. Len(chain') >= Len(chain)
  BY <1>4
<1>15. \A k \in 1..Len(chain) : /\ chain'[k].available = chain[k].available
                                /\ chain[k].next => chain'[k].next
  BY <1>4
<1>16. prodMutex' = IF l \in Linking THEN p ELSE IF pc[p] \in Linking THEN Nobody ELSE prodMutex
  BY <1>1, <1>2
<1>17. /\ l \in {"link", "linklast"} /\ chunk'[p] # <<>> => amount'[p] > 0
       /\ l \notin {"ready", "link", "linklast"} => chunk'[p] = <<>>
  BY <1>12
<1>. QED BY <1>1, <1>2, <1>6, <1>8, <1>9, <1>10, <1>11, <1>12, <1>13, <1>14, <1>15, <1>16, <1>17,
            ProducerStep

LEMMA MoveTailInv ==
    ASSUME Inv, NEW p \in Producers, MoveTail(p)
    PROVE  Inv'
<1> DEFINE l == AfterTail[pc[p]]
<1>1. /\ UNCHANGED <<chain, head, value, finished, done, mutexes, producer, popping, elements, proxy>>
      /\ pc[p] \in {"tail", "taillast"} /\ tail' = Len(chain) /\ pc' = [pc EXCEPT ![p] = l]
  BY DEF MoveTail, LastChunk, Goto
<1>2. TypeOK /\ p \in Threads /\ l \in {"post", "postlast"} /\ l \in ProducerLabel /\ l \in Linking
  BY <1>1, ThreadFacts DEF Inv, AfterTail, ProducerLabel, Linking
<1> HIDE DEF l
<1>3. pc[p] \in Linking /\ prodMutex = p /\ prodMutex' = p
  BY <1>1 DEF Inv, Exclusion, Linking, mutexes
<1>4. pc'[p] = l /\ \A q \in Producers : q # p => pc'[q] = pc[q]
  BY <1>1, <1>2, ThreadFacts DEF TypeOK
<1>5. Len(chain) \in Nat /\ Len(chain) \in 1..Len(chain)
  BY <1>2, ChainFacts
<1>6. TypeOK'
  <2>1. pc' \in [Threads -> ProducerLabel \cup ConsumerLabel]
    BY <1>1, <1>2 DEF TypeOK
  <2>. QED BY <1>1, <1>2, <1>5, <2>1 DEF TypeOK, mutexes, producer, popping, elements, proxy
<1>7. Linked'
  BY <1>1 DEF Inv, Linked
<1>8. Counted'
  <2>1. Gone' = Gone
    BY <1>1, <1>2, <1>4 DEF Gone
  <2>. QED BY <1>1, <2>1 DEF Inv, Counted
<1>9. Heralded => Heralded'
  BY <1>1, <1>2, <1>4 DEF Heralded, Linking, producer
<1>10. Credit' /\ (Terminated => Terminated') /\ (Left' <=> Left)
  BY <1>1 DEF Inv, Credit, Terminated, Left
<1>11. chunk'[p] = <<>> /\ chunk' = chunk /\ amount' = amount
  BY <1>1 DEF Inv, Announced, producer
<1>12. prodMutex' = IF l \in Linking THEN p ELSE IF pc[p] \in Linking THEN Nobody ELSE prodMutex
  BY <1>2, <1>3
<1>13. UNCHANGED <<head, consMutex, popping>>
  BY <1>1 DEF mutexes
<1>14. /\ l \in {"link", "linklast"} /\ chunk'[p] # <<>> => amount'[p] > 0
       /\ l \notin {"ready", "link", "linklast"} => chunk'[p] = <<>>
       /\ \A q \in Producers : q # p => chunk'[q] = chunk[q] /\ amount'[q] = amount[q]
  BY <1>11
<1>15. /\ Len(chain') >= Len(chain)
       /\ \A k \in 1..Len(chain) : /\ chain'[k].available = chain[k].available
                                   /\ chain[k].next => chain'[k].next
  BY <1>1, <1>5
<1>. QED BY <1>1, <1>2, <1>3, <1>6, <1>7, <1>8, <1>9, <1>10, <1>12, <1>13, <1>14, <1>15,
            ProducerStep

LEMMA PostInv ==
    ASSUME Inv, NEW p \in Producers, Post(p)
    PROVE  Inv'
<1> DEFINE l == AfterPost[pc[p]]
<1>1. /\ UNCHANGED <<chain, head, tail, finished, done, consMutex, chunk, amount, pushed,
                     popping, elements>>
      /\ pc[p] \in {"post", "postlast"} /\ value' = value + amount[p] /\ prodMutex' = Nobody
      /\ pc' = [pc EXCEPT ![p] = l]
      /\ CountMoved(p, amount[p]) \/ UNCHANGED proxy
  BY DEF Post, Goto
<1>2. TypeOK /\ p \in Threads /\ l \in {"ready", "finish"} /\ l \in ProducerLabel /\ l \notin Linking
  BY <1>1, ThreadFacts DEF Inv, AfterPost, ProducerLabel, Linking
<1> HIDE DEF l
<1>3. pc[p] \in Linking /\ amount[p] \in Nat /\ value \in Int
  BY <1>1, <1>2 DEF TypeOK, Linking
<1>4. pc'[p] = l /\ \A q \in Producers : q # p => pc'[q] = pc[q]
  BY <1>1, <1>2, ThreadFacts DEF TypeOK
<1>5. TypeOK'
  <2>1. pc' \in [Threads -> ProducerLabel \cup ConsumerLabel]
    BY <1>1, <1>2 DEF TypeOK
  <2>2. /\ step' \in [Threads -> Nat \ {0}] /\ moved' \in [Threads -> Nat]
        /\ changed' \in [Threads -> BOOLEAN]
    <3>1. CASE CountMoved(p, amount[p])
      BY <1>2, <1>3, <3>1, CountMovedType
    <3>2. CASE UNCHANGED proxy
      BY <1>2, <3>2 DEF TypeOK, proxy
    <3>. QED BY <1>1, <3>1, <3>2
  <2>3. value' \in Int
    BY <1>1, <1>3
  <2>. QED BY <1>1, <1>2, <2>1, <2>2, <2>3 DEF TypeOK, popping, elements
<1>6. Linked'
  BY <1>1, <1>2, <1>4 DEF Inv, Linked
<1>7. Counted'
  <2>1. Gone' = Gone
    BY <1>1, <1>2, <1>4 DEF Gone
  <2>. QED BY <1>1, <2>1 DEF Inv, Counted
<1>8. Credit'
  BY <1>1, <1>3 DEF Inv, Credit
<1>9. Heralded => Heralded'
  <2>1. CASE value > 0 \/ finished
    BY <1>1, <1>3, <2>1 DEF Heralded
  <2>2. ASSUME NEW q \in Producers, pc[q] \in Linking, amount[q] > 0 PROVE Heralded'
    <3>1. CASE q = p
      BY <1>1, <1>3, <2>2, <3>1 DEF Inv, Credit, Heralded
    <3>2. CASE q # p
      BY <1>1, <1>4, <2>2, <3>2 DEF Heralded
    <3>. QED BY <3>1, <3>2
  <2>. QED BY <2>1, <2>2 DEF Heralded
<1>10. (Terminated => Terminated') /\ (Left' <=> Left)
  BY <1>1 DEF Terminated, Left
<1>11. chunk'[p] = <<>> /\ l \notin {"link", "linklast"} /\ Len(chain) \in Nat
  BY <1>1, <1>2, ChainFacts DEF Inv, Announced
<1>12. prodMutex' = IF l \in Linking THEN p ELSE IF pc[p] \in Linking THEN Nobody ELSE prodMutex
  BY <1>1, <1>2, <1>3
<1>13. /\ l \in {"link", "linklast"} /\ chunk'[p] # <<>> => amount'[p] > 0
       /\ l \notin {"ready", "link", "linklast"} => chunk'[p] = <<>>
       /\ \A q \in Producers : q # p => chunk'[q] = chunk[q] /\ amount'[q] = amount[q]
  BY <1>1, <1>11
<1>14. /\ Len(chain') >= Len(chain)
       /\ \A k \in 1..Len(chain) : /\ chain'[k].available = chain[k].available
                                   /\ chain[k].next => chain'[k].next
  BY <1>1, <1>11
<1>. QED BY <1>1, <1>2, <1>3, <1>5, <1>6, <1>7, <1>8, <1>9, <1>10, <1>12, <1>13, <1>14,
            ProducerStep

LEMMA FinishInv ==
    ASSUME Inv, NEW p \in Producers, Finish(p)
    PROVE  Inv'
<1>1. /\ UNCHANGED <<chain, head, tail, value, finished, mutexes, producer, popping, elements, proxy>>
      /\ pc[p] = "finish" /\ done' = done + 1 /\ pc' = [pc EXCEPT ![p] = "last"]
  BY DEF Finish, Goto
<1>2. TypeOK /\ p \in Threads /\ "last" \in ProducerLabel /\ "last" \notin Linking
  BY ThreadFacts DEF Inv, ProducerLabel, Linking
<1>3. pc'[p] = "last" /\ \A q \in Producers : q # p => pc'[q] = pc[q]
  BY <1>1, <1>2, ThreadFacts DEF TypeOK
<1>4. Gone' = Gone \cup {p} /\ p \notin Gone
  BY <1>1, <1>3 DEF Gone
<1>5. Counted' /\ Cardinality(Gone') = Cardinality(Gone) + 1
  BY <1>1, <1>4, CountGone, FS_AddElement DEF Inv, Counted
<1>6. done' \in 0..Cardinality(Producers)
  <2>1. Gone' \in SUBSET Producers
    BY DEF Gone
  <2>2. Cardinality(Gone') <= Cardinality(Producers)
    BY <2>1, ThreadFacts, FS_Subset
  <2>. QED BY <1>1, <1>5, <2>2, CountGone DEF Inv, Counted
<1>7. TypeOK'
  <2>1. pc' \in [Threads -> ProducerLabel \cup ConsumerLabel]
    BY <1>1, <1>2 DEF TypeOK
  <2>. QED BY <1>1, <1>2, <1>6, <2>1 DEF TypeOK, mutexes, producer, popping, elements, proxy
<1>8. Linked' /\ Credit' /\ (Left' <=> Left)
  BY <1>1, <1>3 DEF Inv, Linked, Credit, Left
<1>9. Heralded => Heralded'
  BY <1>1, <1>3 DEF Heralded, Linking, producer
<1>10. ~Terminated
  BY <1>1, AllGone
<1>11. chunk'[p] = <<>> /\ chunk' = chunk /\ amount' = amount /\ UNCHANGED <<head, prodMutex, consMutex>>
  BY <1>1 DEF Inv, Announced, producer, mutexes
<1>12. pc[p] \notin Linking /\ Len(chain) \in Nat
  BY <1>1, <1>2, ChainFacts DEF Linking
<1>13. prodMutex' = IF "last" \in Linking THEN p
                    ELSE IF pc[p] \in Linking THEN Nobody ELSE prodMutex
  BY <1>2, <1>11, <1>12
<1>14. \A q \in Producers : q # p => chunk'[q] = chunk[q] /\ amount'[q] = amount[q]
  BY <1>11
<1>15. /\ Len(chain') >= Len(chain)
       /\ \A k \in 1..Len(chain) : /\ chain'[k].available = chain[k].available
                                   /\ chain[k].next => chain'[k].next
  BY <1>1, <1>12
<1>. QED BY <1>1, <1>2, <1>5, <1>7, <1>8, <1>9, <1>10, <1>11, <1>13, <1>14, <1>15, ProducerStep

LEMMA LastInv ==
    ASSUME Inv, NEW p \in Producers, Last(p)
    PROVE  Inv'
<1>1. /\ UNCHANGED <<chain, head, tail, value, done, mutexes, producer, popping, elements, proxy>>
      /\ pc[p] = "last" /\ finished' = (finished \/ Terminated) /\ pc' = [pc EXCEPT ![p] = "done"]
  BY DEF Last, Goto
<1>2. TypeOK /\ p \in Threads /\ "done" \in ProducerLabel /\ "done" \notin Linking
  BY ThreadFacts DEF Inv, ProducerLabel, Linking
<1>3. pc'[p] = "done" /\ \A q \in Producers : q # p => pc'[q] = pc[q]
  BY <1>1, <1>2, ThreadFacts DEF TypeOK
<1>4. Gone' = Gone
  BY <1>1, <1>3 DEF Gone
<1>5. TypeOK'
  <2>1. pc' \in [Threads -> ProducerLabel \cup ConsumerLabel]
    BY <1>1, <1>2 DEF TypeOK
  <2>2. finished' \in BOOLEAN
    BY <1>1
  <2>. QED BY <1>1, <1>2, <2>1, <2>2 DEF TypeOK, mutexes, producer, popping, elements, proxy
<1>6. Linked' /\ Counted' /\ Credit' /\ (Left' <=> Left) /\ (Terminated' <=> Terminated)
  BY <1>1, <1>3, <1>4 DEF Inv, Linked, Counted, Credit, Left, Terminated
<1>7. Heralded => Heralded'
  BY <1>1, <1>3 DEF Heralded, Linking, producer
<1>8. chunk'[p] = <<>> /\ chunk' = chunk /\ amount' = amount /\ UNCHANGED <<head, prodMutex, consMutex>>
  BY <1>1 DEF Inv, Announced, producer, mutexes
<1>9. pc[p] \notin Linking /\ Len(chain) \in Nat
  BY <1>1, <1>2, ChainFacts DEF Linking
<1>10. prodMutex' = IF "done" \in Linking THEN p
                    ELSE IF pc[p] \in Linking THEN Nobody ELSE prodMutex
  BY <1>2, <1>8, <1>9
<1>11. \A q \in Producers : q # p => chunk'[q] = chunk[q] /\ amount'[q] = amount[q]
  BY <1>8
<1>12. /\ Len(chain') >= Len(chain)
       /\ \A k \in 1..Len(chain) : /\ chain'[k].available = chain[k].available
                                   /\ chain[k].next => chain'[k].next
  BY <1>1, <1>9
<1>. QED BY <1>1, <1>2, <1>5, <1>6, <1>7, <1>8, <1>10, <1>11, <1>12, ProducerStep
---------------------------------------------------------------------------------
\* A step of a consumer to a place where it need not know anything
LEMMA ReadInv ==
    ASSUME Inv, NEW c \in Consumers, Read(c)
    PROVE  Inv'
<1>1. /\ UNCHANGED <<fifo, mutexes, producer, popping, ranges, proxy, pc>>
      /\ pc[c] = "ready" /\ items[c] # <<>>
      /\ taken' = [taken EXCEPT ![c] = Append(@, Head(items[c]))]
      /\ items' = [items EXCEPT ![c] = Tail(@)]
  BY DEF Read
<1>2. TypeOK /\ c \in Threads /\ "ready" \in ConsumerLabel /\ "ready" \notin Inside
  BY ThreadFacts DEF Inv, ConsumerLabel, Inside
<1>3. pc' = [pc EXCEPT ![c] = "ready"] /\ pc'[c] = "ready"
  BY <1>1, <1>2 DEF TypeOK
<1>4. TypeOK'
  <2>1. items[c] \in Seq(Item) /\ taken[c] \in Seq(Item)
    BY <1>2 DEF TypeOK
  <2>2. Head(items[c]) \in Item /\ Tail(items[c]) \in Seq(Item)
    BY <1>1, <2>1, HeadTailProperties
  <2>3. Append(taken[c], Head(items[c])) \in Seq(Item)
    BY <2>1, <2>2, AppendProperties
  <2>4. items' \in [Consumers -> Seq(Item)] /\ taken' \in [Consumers -> Seq(Item)]
    BY <1>1, <1>2, <2>2, <2>3 DEF TypeOK
  <2>. QED BY <1>1, <1>2, <2>4 DEF TypeOK, fifo, mutexes, producer, popping, proxy
<1>5. UNCHANGED <<tail, finished, done, prodMutex, chunk, amount, chain, head, value, hasNext, pairs>>
  BY <1>1 DEF fifo, mutexes, producer, popping
<1>6. consMutex' = IF "ready" \in Inside THEN c ELSE IF pc[c] \in Inside THEN Nobody ELSE consMutex
  BY <1>1, <1>2 DEF mutexes
<1>7. Credit' /\ Looks(c)'
  BY <1>3, <1>5 DEF Inv, Credit, Looks
<1>. QED BY <1>2, <1>3, <1>4, <1>5, <1>6, <1>7, ConsumerStep

LEMMA PrepareInv ==
    ASSUME Inv, NEW c \in Consumers, Prepare(c)
    PROVE  Inv'
<1>1. /\ UNCHANGED <<head, tail, value, finished, done, mutexes, producer, pairs, want, hasNext,
                     elements, proxy>>
      /\ pc[c] \in {"ready", "retry"} /\ chain' = Destroyed(ranges[c])
      /\ patient' = [patient EXCEPT ![c] = c \notin Timed \/ pc[c] = "retry"]
      /\ pc' = [pc EXCEPT ![c] = "lock"]
  BY DEF Prepare, Goto
<1>2. TypeOK /\ c \in Threads /\ "lock" \in ConsumerLabel /\ "lock" \notin Inside /\ pc[c] \notin Inside
  BY <1>1, ThreadFacts DEF Inv, ConsumerLabel, Inside
<1>3. pc'[c] = "lock" /\ ranges[c] \in Seq(Nat)
  BY <1>1, <1>2 DEF TypeOK
<1>4. /\ chain' \in Seq(Part) /\ Len(chain') = Len(chain)
      /\ \A k \in 1..Len(chain) : /\ chain'[k].available = chain[k].available
                                  /\ chain'[k].next = chain[k].next
  BY <1>1, <1>2, <1>3, DestroyedFacts
<1>5. TypeOK'
  <2>1. patient' \in [Consumers -> BOOLEAN]
    <3>1. (c \notin Timed \/ pc[c] = "retry") \in BOOLEAN
      OBVIOUS
    <3>. QED BY <1>1, <1>2, <3>1 DEF TypeOK
  <2>2. pc' \in [Threads -> ProducerLabel \cup ConsumerLabel]
    BY <1>1, <1>2 DEF TypeOK
  <2>3. head' \in 1..Len(chain') /\ tail' \in 1..Len(chain')
    BY <1>1, <1>2, <1>4, ChainFacts
  <2>. QED BY <1>1, <1>2, <1>4, <2>1, <2>2, <2>3 DEF TypeOK, Part, mutexes, producer, elements, proxy
<1>6. UNCHANGED <<tail, finished, done, prodMutex, chunk, amount, head, value, hasNext, pairs>>
  BY <1>1 DEF mutexes, producer
<1>7. consMutex' = IF "lock" \in Inside THEN c ELSE IF pc[c] \in Inside THEN Nobody ELSE consMutex
  BY <1>1, <1>2 DEF mutexes
<1>8. Credit' /\ Looks(c)'
  BY <1>1, <1>3 DEF Inv, Credit, Looks
<1>. QED BY <1>1, <1>2, <1>4, <1>5, <1>6, <1>7, <1>8, ConsumerStep

LEMMA LockInv ==
    ASSUME Inv, NEW c \in Consumers, Lock(c)
    PROVE  Inv'
<1>1. /\ UNCHANGED <<fifo, prodMutex, producer, hasNext, patient, elements, proxy>>
      /\ pc[c] = "lock" /\ consMutex = Nobody /\ consMutex' = c
      /\ want' = [want EXCEPT ![c] = step[c]] /\ pairs' = [pairs EXCEPT ![c] = <<>>]
      /\ pc' = [pc EXCEPT ![c] = "empty"]
  BY DEF Lock, Goto
<1>2. TypeOK /\ c \in Threads /\ "empty" \in ConsumerLabel /\ "empty" \in Inside /\ pc[c] \notin Inside
  BY <1>1, ThreadFacts DEF Inv, ConsumerLabel, Inside
<1>3. pc'[c] = "empty" /\ step[c] \in Nat /\ pc' \in [Threads -> ProducerLabel \cup ConsumerLabel]
  BY <1>1, <1>2 DEF TypeOK
<1>4. TypeOK'
  <2>1. want' \in [Consumers -> Nat]
    BY <1>1, <1>2, <1>3 DEF TypeOK
  <2>2. pairs' \in [Consumers -> Seq(Nat)]
    BY <1>1, <1>2, EmptySeq DEF TypeOK
  <2>. QED BY <1>1, <1>2, <1>3, <2>1, <2>2 DEF TypeOK, fifo, producer, elements, proxy
<1>5. /\ UNCHANGED <<tail, finished, done, prodMutex, chunk, amount, chain, head, value, hasNext>>
      /\ \A d \in Consumers : d # c => pairs'[d] = pairs[d]
  BY <1>1, <1>2 DEF fifo, producer, TypeOK
<1>6. consMutex' = IF "empty" \in Inside THEN c ELSE IF pc[c] \in Inside THEN Nobody ELSE consMutex
  BY <1>1, <1>2
<1>7. Credit' /\ Looks(c)'
  BY <1>3, <1>5 DEF Inv, Credit, Looks
<1>. QED BY <1>1, <1>2, <1>4, <1>5, <1>6, <1>7, ConsumerStep

LEMMA TimeoutInv ==
    ASSUME Inv, NEW c \in Consumers, Timeout(c)
    PROVE  Inv'
<1>1. /\ UNCHANGED <<fifo, prodMutex, producer, popping, elements, proxy>>
      /\ \/ pc[c] = "lock" /\ UNCHANGED consMutex
         \/ pc[c] = "wait" /\ consMutex' = Nobody
      /\ pc' = [pc EXCEPT ![c] = "retry"]
  BY DEF Timeout, Goto
<1>2. TypeOK /\ c \in Threads /\ "retry" \in ConsumerLabel /\ "retry" \notin Inside
  BY ThreadFacts DEF Inv, ConsumerLabel, Inside
<1>3. pc'[c] = "retry" /\ pc' \in [Threads -> ProducerLabel \cup ConsumerLabel]
  BY <1>1, <1>2 DEF TypeOK
<1>4. TypeOK'
  <2>1. consMutex' \in Consumers \cup {Nobody}
    BY <1>1, <1>2 DEF TypeOK
  <2>. QED BY <1>1, <1>2, <1>3, <2>1 DEF TypeOK, fifo, producer, popping, elements, proxy
<1>5. UNCHANGED <<tail, finished, done, prodMutex, chunk, amount, chain, head, value, hasNext, pairs>>
  BY <1>1 DEF fifo, producer, popping
<1>6. consMutex' = IF "retry" \in Inside THEN c ELSE IF pc[c] \in Inside THEN Nobody ELSE consMutex
  BY <1>1, <1>2 DEF Inside
<1>7. Credit' /\ Looks(c)'
  BY <1>3, <1>5 DEF Inv, Credit, Looks
<1>. QED BY <1>1, <1>2, <1>4, <1>5, <1>6, <1>7, ConsumerStep

\* The steps of pop.  An empty head without a next chunk is the end of the chain.
LEMMA TestEmptyInv ==
    ASSUME Inv, NEW c \in Consumers, TestEmpty(c)
    PROVE  Inv'
<1> DEFINE l == IF chain[head].available = <<>> THEN "terminated" ELSE "drain"
<1>1. /\ UNCHANGED <<fifo, mutexes, producer, pairs, want, patient, elements, proxy>>
      /\ pc[c] = "empty" /\ hasNext' = [hasNext EXCEPT ![c] = chain[head].next]
      /\ pc' = [pc EXCEPT ![c] = l]
  BY DEF TestEmpty, Goto
<1>2. TypeOK /\ c \in Threads /\ l \in ConsumerLabel /\ l \in Inside /\ pc[c] \in Inside
  BY <1>1, ThreadFacts DEF Inv, ConsumerLabel, Inside
<1>3. pc'[c] = l /\ pc' \in [Threads -> ProducerLabel \cup ConsumerLabel]
  BY <1>1, <1>2 DEF TypeOK
<1>4. head \in 1..Len(chain) /\ Len(chain) \in Nat /\ chain[head].next \in BOOLEAN
  BY <1>2, ChainFacts
<1>5. hasNext' \in [Consumers -> BOOLEAN] /\ hasNext'[c] = chain[head].next
  BY <1>1, <1>2, <1>4 DEF TypeOK
<1>6. TypeOK'
  BY <1>1, <1>2, <1>3, <1>5 DEF TypeOK, fifo, mutexes, producer, elements, proxy
<1>7. UNCHANGED <<tail, finished, done, prodMutex, chunk, amount, chain, head, value, pairs>>
  BY <1>1 DEF fifo, mutexes, producer
<1>8. consMutex' = IF l \in Inside THEN c ELSE IF pc[c] \in Inside THEN Nobody ELSE consMutex
  BY <1>1, <1>2 DEF mutexes, Inv, Exclusion
<1>9. Looks(c)'
  <2>1. CASE HeadEmpty
    <3>1. pc'[c] = "terminated" /\ HeadEmpty'
      BY <1>3, <1>7, <2>1 DEF HeadEmpty
    <3>2. ASSUME ~hasNext'[c] PROVE ~Left'
      <4>1. head = Len(chain)
        BY <1>4, <1>5, <3>2 DEF Inv, Linked
      <4>. QED BY <1>4, <1>7, <2>1, <4>1 DEF Left, HeadEmpty
    <3>. QED BY <1>5, <1>7, <3>1, <3>2 DEF Looks
  <2>2. CASE ~HeadEmpty
    BY <1>3, <1>7, <2>2 DEF Looks, HeadEmpty
  <2>. QED BY <2>1, <2>2
<1>10. Credit'
  BY <1>7 DEF Inv, Credit
<1> HIDE DEF l
<1>. QED BY <1>1, <1>2, <1>6, <1>7, <1>8, <1>9, <1>10, ConsumerStep

\* _head moves to the next chunk, and the consumer stays in pop.
LEMMA MoveHeadInv ==
    ASSUME Inv, NEW c \in Consumers, NEW l \in Inside, pc[c] \in Inside,
           MoveHead, head < Len(chain), pc' = [pc EXCEPT ![c] = l],
           UNCHANGED <<tail, value, finished, done, mutexes, producer, popping, elements, proxy>>,
           Looks(c)'
    PROVE  Inv'
<1>1. TypeOK /\ c \in Threads /\ l \in ConsumerLabel
  BY ThreadFacts DEF Inv, ConsumerLabel, Inside
<1>2. pc' \in [Threads -> ProducerLabel \cup ConsumerLabel]
  BY <1>1 DEF TypeOK
<1>3. /\ chain' \in Seq(Part) /\ Len(chain') = Len(chain) /\ head' \in 1..Len(chain)
      /\ \A k \in 1..Len(chain) : chain'[k].next = chain[k].next
  BY <1>1, MoveHeadFacts
<1>4. TypeOK'
  BY <1>1, <1>2, <1>3 DEF TypeOK, Part, mutexes, producer, popping, elements, proxy
<1>5. UNCHANGED <<tail, finished, done, prodMutex, chunk, amount, consMutex, value>>
  BY DEF mutexes, producer
<1>6. consMutex' = IF l \in Inside THEN c ELSE IF pc[c] \in Inside THEN Nobody ELSE consMutex
  BY <1>5 DEF Inv, Exclusion
<1>7. Credit'
  BY <1>5 DEF Inv, Credit
<1>. QED BY <1>1, <1>3, <1>4, <1>5, <1>6, <1>7, ConsumerStep

LEMMA TestTerminatedInv ==
    ASSUME Inv, NEW c \in Consumers, TestTerminated(c)
    PROVE  Inv'
<1>1. /\ UNCHANGED <<tail, value, finished, done, mutexes, producer, popping, elements, proxy>>
      /\ pc[c] = "terminated"
  BY DEF TestTerminated
<1>2. TypeOK /\ c \in Threads /\ pc[c] \in Inside
  BY <1>1, ThreadFacts DEF Inv, Inside
<1>3. UNCHANGED <<tail, finished, done, prodMutex, chunk, amount, value, hasNext, pairs, consMutex>>
  BY <1>1 DEF mutexes, producer, popping
<1>4. consMutex = c
  BY <1>2 DEF Inv, Exclusion
<1>5. Credit'
  BY <1>3 DEF Inv, Credit
<1>6. ASSUME NEW l \in {"drain", "wait"}, pc' = [pc EXCEPT ![c] = l], UNCHANGED <<chain, head>>,
             l = "drain" => Terminated, l = "wait" => ~hasNext[c]
      PROVE  Inv'
  <2>1. l \in ConsumerLabel /\ l \in Inside
    BY DEF ConsumerLabel, Inside
  <2>2. pc'[c] = l /\ pc' \in [Threads -> ProducerLabel \cup ConsumerLabel]
    BY <1>2, <1>6, <2>1 DEF TypeOK
  <2>3. TypeOK'
    BY <1>1, <1>2, <1>6, <2>2 DEF TypeOK, mutexes, producer, popping, elements, proxy
  <2>4. Looks(c)'
    <3>1. CASE l = "drain"
      BY <1>3, <1>6, <2>2, <3>1 DEF Looks, Terminated
    <3>2. CASE l = "wait"
      <4>1. Left => Heralded
        BY <1>1, <1>6, <3>2 DEF Inv, Looks
      <4>2. Left' => Left
        BY <1>6 DEF Left
      <4>3. Heralded => Heralded'
        <5>1. \A p \in Producers : pc'[p] = pc[p]
          BY <1>2, <1>6, ThreadFacts DEF TypeOK
        <5>. QED BY <1>3, <5>1 DEF Heralded
      <4>. QED BY <2>2, <3>2, <4>1, <4>2, <4>3 DEF Looks
    <3>. QED BY <3>1, <3>2
  <2>5. consMutex' = IF l \in Inside THEN c ELSE IF pc[c] \in Inside THEN Nobody ELSE consMutex
    BY <1>3, <1>4, <2>1
  <2>. QED BY <1>2, <1>3, <1>5, <1>6, <2>1, <2>3, <2>4, <2>5, ConsumerStep
<1>7. ASSUME hasNext[c], MoveHead, pc' = [pc EXCEPT ![c] = "empty"]
      PROVE  Inv'
  <2>1. "empty" \in Inside /\ pc'[c] = "empty"
    BY <1>2, <1>7 DEF Inside, TypeOK
  <2>2. head < Len(chain)
    BY <1>1, <1>2, <1>7, ChainFacts DEF Inv, Linked, Looks
  <2>3. Looks(c)'
    BY <2>1 DEF Looks
  <2>. QED BY <1>1, <1>2, <1>7, <2>1, <2>2, <2>3, MoveHeadInv
<1>. QED BY <1>6, <1>7 DEF TestTerminated, Goto

LEMMA WaitInv ==
    ASSUME Inv, NEW c \in Consumers, Wait(c)
    PROVE  Inv'
<1>1. /\ UNCHANGED <<chain, head, tail, finished, done, mutexes, producer, popping, elements, proxy>>
      /\ pc[c] = "wait" /\ (value > 0 \/ finished) /\ value' = value - Consumed(c)
      /\ pc' = [pc EXCEPT ![c] = "empty"]
  BY DEF Wait, Goto
<1>2. /\ TypeOK /\ c \in Threads /\ "empty" \in ConsumerLabel /\ "empty" \in Inside
      /\ pc[c] \in Inside
  BY <1>1, ThreadFacts DEF Inv, ConsumerLabel, Inside
<1>3. pc'[c] = "empty" /\ pc' \in [Threads -> ProducerLabel \cup ConsumerLabel]
  BY <1>1, <1>2 DEF TypeOK
<1>4. want[c] \in Nat /\ value \in Int
  BY <1>2 DEF TypeOK
<1>5. Consumed(c) \in Int /\ (~finished => Consumed(c) <= value)
  BY <1>1, <1>4 DEF Consumed, Least
<1>6. value' \in Int /\ Credit'
  BY <1>1, <1>4, <1>5 DEF Inv, Credit
<1>7. TypeOK'
  BY <1>1, <1>2, <1>3, <1>6 DEF TypeOK, mutexes, producer, popping, elements, proxy
<1>8. UNCHANGED <<tail, finished, done, prodMutex, chunk, amount, chain>>
  BY <1>1 DEF mutexes, producer
<1>9. consMutex' = IF "empty" \in Inside THEN c ELSE IF pc[c] \in Inside THEN Nobody ELSE consMutex
  BY <1>1, <1>2 DEF mutexes, Inv, Exclusion
<1>10. Looks(c)'
  BY <1>3 DEF Looks
<1>. QED BY <1>1, <1>2, <1>6, <1>7, <1>8, <1>9, <1>10, ConsumerStep

LEMMA TestDrainInv ==
    ASSUME Inv, NEW c \in Consumers, TestDrain(c)
    PROVE  Inv'
<1> DEFINE l == IF Terminated THEN "left" ELSE "take"
<1>1. /\ UNCHANGED <<fifo, mutexes, producer, popping, elements, proxy>>
      /\ pc[c] = "drain" /\ pc' = [pc EXCEPT ![c] = l]
  BY DEF TestDrain, Goto
<1>2. TypeOK /\ c \in Threads /\ l \in ConsumerLabel /\ l \in Inside /\ pc[c] \in Inside
  BY <1>1, ThreadFacts DEF Inv, ConsumerLabel, Inside
<1>3. pc'[c] = l /\ pc' \in [Threads -> ProducerLabel \cup ConsumerLabel]
  BY <1>1, <1>2 DEF TypeOK
<1>4. TypeOK'
  BY <1>1, <1>2, <1>3 DEF TypeOK, fifo, mutexes, producer, popping, elements, proxy
<1>5. UNCHANGED <<tail, finished, done, prodMutex, chunk, amount, chain, head, value, hasNext, pairs>>
  BY <1>1 DEF fifo, mutexes, producer, popping
<1>6. consMutex' = IF l \in Inside THEN c ELSE IF pc[c] \in Inside THEN Nobody ELSE consMutex
  BY <1>1, <1>2 DEF mutexes, Inv, Exclusion
<1>7. Looks(c)'
  <2>1. Terminated \/ ~HeadEmpty
    BY <1>1 DEF Inv, Looks
  <2>2. (Terminated' <=> Terminated) /\ (HeadEmpty' <=> HeadEmpty)
    BY <1>5 DEF Terminated, HeadEmpty
  <2>. QED BY <1>3, <2>1, <2>2 DEF Looks
<1>8. Credit'
  BY <1>5 DEF Inv, Credit
<1> HIDE DEF l
<1>. QED BY <1>1, <1>2, <1>4, <1>5, <1>6, <1>7, <1>8, ConsumerStep

LEMMA DrainInv ==
    ASSUME Inv, NEW c \in Consumers, Drain(c)
    PROVE  Inv'
<1>1. /\ UNCHANGED <<tail, value, finished, done, prodMutex, producer, popping, items, taken, proxy>>
      /\ pc[c] = "left"
  BY DEF Drain
<1>2. TypeOK /\ c \in Threads /\ pc[c] \in Inside
  BY <1>1, ThreadFacts DEF Inv, Inside
<1>3. UNCHANGED <<tail, finished, done, prodMutex, chunk, amount, value, hasNext, pairs>>
  BY <1>1 DEF producer, popping
<1>4. Credit' /\ consMutex = c
  BY <1>2, <1>3 DEF Inv, Credit, Exclusion
<1>5. ASSUME chain[head].available # <<>>, pc' = [pc EXCEPT ![c] = "take"],
             UNCHANGED <<chain, head, consMutex, ranges>>
      PROVE  Inv'
  <2>1. "take" \in ConsumerLabel /\ "take" \in Inside
    BY DEF ConsumerLabel, Inside
  <2>2. pc'[c] = "take" /\ pc' \in [Threads -> ProducerLabel \cup ConsumerLabel]
    BY <1>2, <1>5, <2>1 DEF TypeOK
  <2>3. TypeOK'
    BY <1>1, <1>2, <1>5, <2>2 DEF TypeOK, producer, popping, proxy
  <2>4. Looks(c)'
    BY <1>5, <2>2 DEF Looks, HeadEmpty
  <2>5. consMutex' = IF "take" \in Inside THEN c ELSE IF pc[c] \in Inside THEN Nobody ELSE consMutex
    BY <1>4, <1>5, <2>1
  <2>. QED BY <1>2, <1>3, <1>4, <1>5, <2>1, <2>3, <2>4, <2>5, ConsumerStep
<1>6. ASSUME chain[head].next, MoveHead, pc' = [pc EXCEPT ![c] = "drain"],
             UNCHANGED <<consMutex, ranges>>
      PROVE  Inv'
  <2>1. "drain" \in Inside /\ pc'[c] = "drain"
    BY <1>2, <1>6 DEF Inside, TypeOK
  <2>2. head < Len(chain)
    BY <1>2, <1>6, ChainFacts DEF Inv, Linked
  <2>3. Looks(c)'
    <3>1. Terminated'
      BY <1>1, <1>3 DEF Inv, Looks, Terminated
    <3>. QED BY <2>1, <3>1 DEF Looks
  <2>4. UNCHANGED <<tail, value, finished, done, mutexes, producer, popping, elements, proxy>>
    BY <1>1, <1>6 DEF mutexes, elements
  <2>. QED BY <1>2, <1>6, <2>1, <2>2, <2>3, <2>4, MoveHeadInv
<1>7. ASSUME ranges' = [ranges EXCEPT ![c] = <<>>], consMutex' = Nobody,
             pc' = [pc EXCEPT ![c] = "done"], UNCHANGED <<chain, head>>
      PROVE  Inv'
  <2>1. "done" \in ConsumerLabel /\ "done" \notin Inside
    BY DEF ConsumerLabel, Inside
  <2>2. pc'[c] = "done" /\ pc' \in [Threads -> ProducerLabel \cup ConsumerLabel]
    BY <1>2, <1>7, <2>1 DEF TypeOK
  <2>3. ranges' \in [Consumers -> Seq(Nat)]
    BY <1>2, <1>7, EmptySeq DEF TypeOK
  <2>4. TypeOK'
    BY <1>1, <1>2, <1>7, <2>2, <2>3 DEF TypeOK, producer, popping, proxy
  <2>5. Looks(c)'
    BY <2>2 DEF Looks
  <2>6. consMutex' = IF "done" \in Inside THEN c ELSE IF pc[c] \in Inside THEN Nobody ELSE consMutex
    BY <1>2, <1>7, <2>1
  <2>. QED BY <1>2, <1>3, <1>4, <1>7, <2>1, <2>4, <2>5, <2>6, ConsumerStep
<1>. QED BY <1>5, <1>6, <1>7 DEF Drain, Goto

LEMMA TakeInv ==
    ASSUME Inv, NEW c \in Consumers, Take(c)
    PROVE  Inv'
<1> DEFINE there == chain[head].available
           n == Least(want[c], Len(there))
           over == IF there = <<>> THEN ~chain[head].next
                                   ELSE n = want[c] \/ ~chain[head].next
           l == IF over THEN "return" ELSE "advance"
<1>1. /\ UNCHANGED <<head, tail, value, finished, done, mutexes, producer, hasNext, patient,
                     ranges, taken, proxy>>
      /\ pc[c] = "take" /\ pairs' = [pairs EXCEPT ![c] = Append(@, head)]
      /\ pc' = [pc EXCEPT ![c] = l]
  BY DEF Take, Goto
<1>2. TypeOK /\ c \in Threads /\ l \in ConsumerLabel /\ l \in Inside /\ pc[c] \in Inside
  BY <1>1, ThreadFacts DEF Inv, ConsumerLabel, Inside
<1>3. pc'[c] = l /\ pc' \in [Threads -> ProducerLabel \cup ConsumerLabel]
  BY <1>1, <1>2 DEF TypeOK
<1>4. /\ there \in Seq(Item) /\ n \in 0..Len(there) /\ n <= want[c] /\ want[c] \in Nat
      /\ chain' \in Seq(Part) /\ Len(chain') = Len(chain)
      /\ chain'[head].available = Rest(n, there)
      /\ \A k \in 1..Len(chain) : chain'[k].next = chain[k].next
      /\ items' = [items EXCEPT ![c] = items[c] \o Front(n, there)]
      /\ want' = [want EXCEPT ![c] = want[c] - n]
  BY <1>2, TakeFacts DEF TypeOK
<1>5. head \in 1..Len(chain) /\ head \in Nat /\ pairs[c] \in Seq(Nat) /\ items[c] \in Seq(Item)
  BY <1>2, ChainFacts DEF TypeOK
<1>6. pairs' \in [Consumers -> Seq(Nat)] /\ pairs'[c] # <<>>
  <2>1. Append(pairs[c], head) \in Seq(Nat) /\ Append(pairs[c], head) # <<>>
    BY <1>5, AppendProperties
  <2>. QED BY <1>1, <1>2, <2>1 DEF TypeOK
<1>7. TypeOK'
  <2>1. want' \in [Consumers -> Nat]
    <3>1. want[c] - n \in Nat
      BY <1>4
    <3>. QED BY <1>2, <1>4, <3>1 DEF TypeOK
  <2>2. items' \in [Consumers -> Seq(Item)]
    <3>1. Front(n, there) \in Seq(Item)
      BY <1>4, SplitType
    <3>2. items[c] \o Front(n, there) \in Seq(Item)
      BY <1>5, <3>1, ConcatProperties
    <3>. QED BY <1>2, <1>4, <3>2 DEF TypeOK
  <2>3. chain' \in Seq([available : Seq(Item), next : BOOLEAN, references : Int])
    BY <1>4 DEF Part
  <2>4. head' \in 1..Len(chain') /\ tail' \in 1..Len(chain')
    BY <1>1, <1>2, <1>4, ChainFacts
  <2>. QED BY <1>1, <1>2, <1>3, <1>6, <2>1, <2>2, <2>3, <2>4 DEF TypeOK, mutexes, producer, proxy
<1>8. over \in BOOLEAN
  BY <1>2, ChainFacts
<1>9. ~over => chain[head].next /\ Rest(n, there) = <<>>
  <2>1. ASSUME ~over PROVE chain[head].next
    BY <2>1
  <2>2. ASSUME ~over PROVE n = Len(there)
    <3>1. CASE there = <<>>
      BY <1>4, <3>1
    <3>2. CASE there # <<>>
      BY <1>4, <2>2, <3>2 DEF Least
    <3>. QED BY <3>1, <3>2
  <2>3. n = Len(there) => Rest(n, there) = <<>>
    <3>1. Rest(n, there) \in Seq(Item) /\ Len(Rest(n, there)) = Len(there) - n /\ Len(there) \in Nat
      BY <1>4, SplitType, LenProperties
    <3>. QED BY <3>1, EmptySeq
  <2>. QED BY <2>1, <2>2, <2>3
<1>10. Looks(c)'
  <2>1. CASE over
    BY <1>3, <1>6, <2>1 DEF Looks
  <2>2. CASE ~over
    <3>1. pc'[c] = "advance"
      BY <1>3, <2>2
    <3>2. chain'[head'].next /\ HeadEmpty'
      BY <1>1, <1>4, <1>5, <1>9, <2>2 DEF HeadEmpty
    <3>. QED BY <1>6, <3>1, <3>2 DEF Looks
  <2>. QED BY <2>1, <2>2
<1>11. UNCHANGED <<tail, finished, done, prodMutex, chunk, amount, value>>
  BY <1>1 DEF mutexes, producer
<1>12. consMutex' = IF l \in Inside THEN c ELSE IF pc[c] \in Inside THEN Nobody ELSE consMutex
  BY <1>1, <1>2 DEF mutexes, Inv, Exclusion
<1>13. Credit'
  BY <1>11 DEF Inv, Credit
<1> HIDE DEF l
<1>. QED BY <1>1, <1>2, <1>4, <1>7, <1>10, <1>11, <1>12, <1>13, ConsumerStep

LEMMA AdvanceInv ==
    ASSUME Inv, NEW c \in Consumers, Advance(c)
    PROVE  Inv'
<1>1. /\ UNCHANGED <<tail, value, finished, done, mutexes, producer, popping, elements, proxy>>
      /\ pc[c] = "advance"
  BY DEF Advance
<1>2. TypeOK /\ c \in Threads /\ pc[c] \in Inside /\ pairs[c] # <<>>
  BY <1>1, ThreadFacts DEF Inv, Inside, Looks
<1>3. UNCHANGED <<tail, finished, done, prodMutex, chunk, amount, value, hasNext, pairs, consMutex>>
  BY <1>1 DEF mutexes, producer, popping
<1>4. ASSUME pc' = [pc EXCEPT ![c] = "return"], UNCHANGED <<chain, head>>
      PROVE  Inv'
  <2>1. "return" \in ConsumerLabel /\ "return" \in Inside
    BY DEF ConsumerLabel, Inside
  <2>2. pc'[c] = "return" /\ pc' \in [Threads -> ProducerLabel \cup ConsumerLabel]
    BY <1>2, <1>4, <2>1 DEF TypeOK
  <2>3. TypeOK'
    BY <1>1, <1>2, <1>4, <2>2 DEF TypeOK, mutexes, producer, popping, elements, proxy
  <2>4. Looks(c)' /\ Credit'
    BY <1>2, <1>3, <2>2 DEF Looks, Inv, Credit
  <2>5. consMutex' = IF "return" \in Inside THEN c
                     ELSE IF pc[c] \in Inside THEN Nobody ELSE consMutex
    BY <1>2, <1>3, <2>1 DEF Inv, Exclusion
  <2>. QED BY <1>2, <1>3, <1>4, <2>1, <2>3, <2>4, <2>5, ConsumerStep
<1>5. ASSUME chain[head].next, MoveHead, pc' = [pc EXCEPT ![c] = "take"]
      PROVE  Inv'
  <2>1. "take" \in Inside /\ pc'[c] = "take"
    BY <1>2, <1>5 DEF Inside, TypeOK
  <2>2. head < Len(chain)
    BY <1>2, <1>5, ChainFacts DEF Inv, Linked
  <2>3. Looks(c)'
    BY <1>2, <1>3, <2>1 DEF Looks
  <2>. QED BY <1>1, <1>2, <1>5, <2>1, <2>2, <2>3, MoveHeadInv
<1>. QED BY <1>4, <1>5 DEF Advance, Goto

LEMMA ReturnInv ==
    ASSUME Inv, NEW c \in Consumers, Return(c)
    PROVE  Inv'
<1>1. /\ UNCHANGED <<fifo, prodMutex, producer, popping, items, taken>>
      /\ pc[c] = "return" /\ ranges' = [ranges EXCEPT ![c] = pairs[c]] /\ consMutex' = Nobody
      /\ CountMoved(c, step[c]) /\ pc' = [pc EXCEPT ![c] = "ready"]
  BY DEF Return, Goto
<1>2. /\ TypeOK /\ c \in Threads /\ "ready" \in ConsumerLabel /\ "ready" \notin Inside
      /\ pc[c] \in Inside
  BY <1>1, ThreadFacts DEF Inv, ConsumerLabel, Inside
<1>3. pc'[c] = "ready" /\ pc' \in [Threads -> ProducerLabel \cup ConsumerLabel]
  BY <1>1, <1>2 DEF TypeOK
<1>4. TypeOK'
  <2>1. step[c] \in Nat /\ pairs[c] \in Seq(Nat)
    BY <1>2 DEF TypeOK
  <2>2. /\ step' \in [Threads -> Nat \ {0}] /\ moved' \in [Threads -> Nat]
        /\ changed' \in [Threads -> BOOLEAN]
    BY <1>1, <1>2, <2>1, CountMovedType
  <2>3. ranges' \in [Consumers -> Seq(Nat)]
    BY <1>1, <1>2, <2>1 DEF TypeOK
  <2>. QED BY <1>1, <1>2, <1>3, <2>2, <2>3 DEF TypeOK, fifo, producer, popping
<1>5. UNCHANGED <<tail, finished, done, prodMutex, chunk, amount, chain, head, value, hasNext, pairs>>
  BY <1>1 DEF fifo, producer, popping
<1>6. consMutex' = IF "ready" \in Inside THEN c ELSE IF pc[c] \in Inside THEN Nobody ELSE consMutex
  BY <1>1, <1>2
<1>7. Credit' /\ Looks(c)'
  BY <1>3, <1>5 DEF Inv, Credit, Looks
<1>. QED BY <1>1, <1>2, <1>3, <1>4, <1>5, <1>6, <1>7, ConsumerStep
---------------------------------------------------------------------------------
LEMMA NextInv == Inv /\ [Next]_vars => Inv'
<1> SUFFICES ASSUME Inv, [Next]_vars PROVE Inv'
  OBVIOUS
<1>1. ASSUME NEW p \in Producers, Producing(p) PROVE Inv'
  BY <1>1, PushInv, PushImmediateInv, TerminateInv, LinkInv, MoveTailInv, PostInv, FinishInv,
     LastInv DEF Producing
<1>2. ASSUME NEW c \in Consumers, Consuming(c) PROVE Inv'
  BY <1>2, ReadInv, PrepareInv, LockInv, TimeoutInv, TestEmptyInv, TestTerminatedInv, WaitInv,
     TestDrainInv, DrainInv, TakeInv, AdvanceInv, ReturnInv DEF Consuming
<1>3. CASE UNCHANGED vars
  <2>1. UNCHANGED fifo /\ UNCHANGED mutexes /\ UNCHANGED producer /\ UNCHANGED popping
        /\ UNCHANGED elements /\ UNCHANGED proxy /\ pc' = pc
    BY <1>3 DEF vars
  <2>2. TypeOK'
    BY <2>1 DEF Inv, TypeOK, fifo, mutexes, producer, popping, elements, proxy
  <2>3. Places' /\ Exclusion' /\ Linked' /\ Counted' /\ Announced' /\ Credit'
    BY <2>1 DEF Inv, Places, Exclusion, Linked, Counted, Gone, Announced, Credit, fifo, mutexes,
                producer
  <2>4. ASSUME NEW c \in Consumers PROVE Looks(c)'
    BY <2>1 DEF Inv, Looks, HeadEmpty, Left, Heralded, Terminated, fifo, producer, popping
  <2>. QED BY <2>2, <2>3, <2>4 DEF Inv
<1>. QED BY <1>1, <1>2, <1>3 DEF Next, Over

THEOREM InvHolds == Spec => []Inv
BY InitInv, NextInv, PTL DEF Spec

\* _head and _tail stay in the chain, what was moved and taken stays in range.
THEOREM TypeCorrect == Spec => []TypeOK
BY InvHolds, PTL DEF Inv

(***************************************************************************)
(* push_chunk and pop throw neither of their exceptions, and a pop never   *)
(* hands out ranges that begin with an empty one: the link from _tail and  *)
(* its store are one step for those who take the producers' mutex, and the *)
(* consumer in pop is the only one to empty or to pass the head.           *)
(***************************************************************************)
THEOREM SharedPartNeverThrows == Spec => []NeitherThrows
<1>1. Inv => NeitherThrows
  <2> SUFFICES ASSUME Inv PROVE NeitherThrows
    OBVIOUS
  <2>1. ASSUME prodMutex = Nobody PROVE ~chain[tail].next
    <3>1. \A p \in Producers : pc[p] \notin Linking
      BY <2>1, ThreadFacts DEF Inv, Exclusion
    <3>2. tail = Len(chain) /\ Len(chain) \in 1..Len(chain)
      BY <3>1, ChainFacts DEF Inv, Linked, Linking
    <3>. QED BY <3>2 DEF Inv, Linked
  <2>2. ASSUME NEW c \in Consumers
        PROVE  /\ pc[c] = "advance" => chain[head].next
               /\ pc[c] = "take" /\ pairs[c] = <<>> => chain[head].available # <<>>
    BY DEF Inv, Looks, HeadEmpty
  <2>. QED BY <2>1, <2>2 DEF NeitherThrows, LinkedWhereExpected, FirstRangeHoldsSomething
<1>. QED BY <1>1, InvHolds, PTL

(***************************************************************************)
(* What the comment of push_chunk argues, for any number of threads: what  *)
(* is in the chain while a consumer waits has been posted, or the producer *)
(* that linked it is between its link and its post.                        *)
(***************************************************************************)
THEOREM WaiterIsAlwaysReleased == Spec => []WaiterIsReleased
<1>1. Inv => WaiterIsReleased
  BY DEF Inv, Looks, Left, Heralded, Linking, WaiterIsReleased
<1>. QED BY <1>1, InvHolds, PTL
---------------------------------------------------------------------------------
(***************************************************************************)
(* References.  use[c] are the positions of the chunks that c may still    *)
(* read; a chunk with n references is balanced when its users, the chain   *)
(* and the ranges of it, are at least n, and exactly n without timeouts.   *)
(***************************************************************************)
Ranges(use, k) == UNION {{c} \X {i \in DOMAIN use[c] : use[c][i] = k} : c \in Consumers}
UsersOf(h, use, k) == (IF k >= h THEN {<<Nobody, k>>} ELSE {}) \cup Ranges(use, k)

Balances(n, h, use, k) ==
    /\ IsFiniteSet(UsersOf(h, use, k))
    /\ n <= Cardinality(UsersOf(h, use, k))
    /\ Timed = {} => n = Cardinality(UsersOf(h, use, k))

LEMMA RangesMember ==
    ASSUME NEW use, NEW k, NEW x
    PROVE  x \in Ranges(use, k) <=>
               \E c \in Consumers : \E i \in DOMAIN use[c] : use[c][i] = k /\ x = <<c, i>>
BY DEF Ranges

LEMMA NobodyHasRanges == \A use, k : <<Nobody, k>> \notin Ranges(use, k)
BY RangesMember, ThreadFacts

\* FIFOChunk::pop adds a range of the head, and a reference.
LEMMA TakeBalances ==
    ASSUME NEW use \in [Consumers -> Seq(Nat)], NEW c \in Consumers, NEW h \in Nat,
           NEW k, NEW n \in Int, Balances(n, h, use, k)
    PROVE  LET new == [use EXCEPT ![c] = Append(use[c], h)] IN
           Balances(n + IF k = h THEN 1 ELSE 0, h, new, k)
<1> DEFINE new == [use EXCEPT ![c] = Append(use[c], h)]
           m == Len(use[c]) + 1
<1>1. /\ use[c] \in Seq(Nat) /\ Len(use[c]) \in Nat /\ DOMAIN use[c] = 1..Len(use[c])
      /\ new[c] = Append(use[c], h) /\ \A d \in Consumers : d # c => new[d] = use[d]
  BY LenProperties
<1>2. /\ DOMAIN new[c] = 1..m /\ new[c][m] = h
      /\ \A i \in 1..Len(use[c]) : new[c][i] = use[c][i]
  BY <1>1, AppendProperties
<1>3. DOMAIN new[c] = DOMAIN use[c] \cup {m} /\ m \notin DOMAIN use[c]
  BY <1>1, <1>2
<1> HIDE DEF new, m
<1>4. \A x : x \in Ranges(new, k) <=> x \in Ranges(use, k) \/ (k = h /\ x = <<c, m>>)
  <2> SUFFICES ASSUME NEW x
               PROVE  x \in Ranges(new, k) <=> x \in Ranges(use, k) \/ (k = h /\ x = <<c, m>>)
    OBVIOUS
  <2>1. ASSUME NEW d \in Consumers, NEW i \in DOMAIN new[d], new[d][i] = k, x = <<d, i>>
        PROVE  x \in Ranges(use, k) \/ (k = h /\ x = <<c, m>>)
    BY <1>1, <1>2, <1>3, <2>1, RangesMember
  <2>2. ASSUME NEW d \in Consumers, NEW i \in DOMAIN use[d], use[d][i] = k, x = <<d, i>>
        PROVE  x \in Ranges(new, k)
    BY <1>1, <1>2, <1>3, <2>2, RangesMember
  <2>3. k = h /\ x = <<c, m>> => x \in Ranges(new, k)
    BY <1>2, <1>3, RangesMember
  <2>. QED BY <2>1, <2>2, <2>3, RangesMember
<1>5. CASE k # h
  <2>1. Ranges(new, k) = Ranges(use, k)
    BY <1>4, <1>5
  <2>2. UsersOf(h, new, k) = UsersOf(h, use, k) /\ n + (IF k = h THEN 1 ELSE 0) = n
    BY <1>5, <2>1 DEF UsersOf
  <2>3. Balances(n, h, new, k)
    BY <2>2 DEF Balances
  <2>. QED BY <2>2, <2>3 DEF new
<1>6. CASE k = h
  <2>1. <<c, m>> \notin Ranges(use, k) /\ <<c, m>> # <<Nobody, k>>
    BY <1>3, RangesMember, ThreadFacts
  <2>2. UsersOf(h, new, k) = UsersOf(h, use, k) \cup {<<c, m>>}
    BY <1>4, <1>6 DEF UsersOf
  <2>3. <<c, m>> \notin UsersOf(h, use, k)
    BY <2>1 DEF UsersOf
  <2> HIDE DEF UsersOf
  <2>4. IsFiniteSet(UsersOf(h, use, k)) /\ Cardinality(UsersOf(h, use, k)) \in Nat
    BY FS_CardinalityType DEF Balances
  <2>5. /\ IsFiniteSet(UsersOf(h, new, k))
        /\ Cardinality(UsersOf(h, new, k)) = Cardinality(UsersOf(h, use, k)) + 1
    <3>1. /\ IsFiniteSet(UsersOf(h, use, k) \cup {<<c, m>>})
          /\ Cardinality(UsersOf(h, use, k) \cup {<<c, m>>}) =
                IF <<c, m>> \in UsersOf(h, use, k) THEN Cardinality(UsersOf(h, use, k))
                ELSE Cardinality(UsersOf(h, use, k)) + 1
      BY <2>4, FS_AddElement
    <3>. QED BY <2>2, <2>3, <3>1
  <2>6. n + (IF k = h THEN 1 ELSE 0) = n + 1
    BY <1>6
  <2>7. Balances(n + 1, h, new, k)
    BY <2>4, <2>5 DEF Balances
  <2>. QED BY <2>6, <2>7 DEF new
<1>. QED BY <1>5, <1>6 DEF new

\* _head passes a chunk, which the chain then does not reference any more.
LEMMA MoveBalances ==
    ASSUME NEW use, NEW h \in Nat, NEW k \in Nat, NEW n \in Int, Balances(n, h, use, k)
    PROVE  Balances(n - IF k = h THEN 1 ELSE 0, h + 1, use, k)
<1>1. CASE k # h
  <2>1. UsersOf(h + 1, use, k) = UsersOf(h, use, k)
    BY <1>1 DEF UsersOf
  <2>. QED BY <1>1, <2>1 DEF Balances
<1>2. CASE k = h
  <2>1. /\ UsersOf(h + 1, use, k) = UsersOf(h, use, k) \ {<<Nobody, k>>}
        /\ <<Nobody, k>> \in UsersOf(h, use, k)
    BY <1>2, NobodyHasRanges DEF UsersOf
  <2> HIDE DEF UsersOf
  <2>2. /\ IsFiniteSet(UsersOf(h + 1, use, k))
        /\ Cardinality(UsersOf(h + 1, use, k)) = Cardinality(UsersOf(h, use, k)) - 1
        /\ Cardinality(UsersOf(h, use, k)) \in Nat
    BY <2>1, FS_RemoveElement, FS_CardinalityType DEF Balances
  <2>. QED BY <1>2, <2>2 DEF Balances
<1>. QED BY <1>1, <1>2

\* destroy, for every range of c
LEMMA ClearBalances ==
    ASSUME NEW use \in [Consumers -> Seq(Nat)], NEW c \in Consumers, NEW h, NEW k,
           NEW n \in Int, Balances(n, h, use, k)
    PROVE  Balances(n - Holds(use[c], k), h, [use EXCEPT ![c] = <<>>], k)
<1> DEFINE new == [use EXCEPT ![c] = <<>>]
           S == {i \in DOMAIN use[c] : use[c][i] = k}
           gone == {c} \X S
<1>1. use[c] \in Seq(Nat) /\ new[c] = <<>> /\ \A d \in Consumers : d # c => new[d] = use[d]
  BY EmptySeq
<1>2. IsFiniteSet(S) /\ Cardinality(S) = Holds(use[c], k) /\ Holds(use[c], k) \in Nat
  BY <1>1, HoldsType DEF Holds
<1>3. DOMAIN new[c] = {}
  BY <1>1
<1> HIDE DEF new
<1>4. \A x : x \in gone <=> \E i \in DOMAIN use[c] : use[c][i] = k /\ x = <<c, i>>
  OBVIOUS
<1> HIDE DEF gone
<1>5. Ranges(new, k) = Ranges(use, k) \ gone /\ gone \subseteq Ranges(use, k)
  <2>1. ASSUME NEW x \in Ranges(new, k) PROVE x \in Ranges(use, k) \ gone
    <3>1. PICK d \in Consumers : \E i \in DOMAIN new[d] : new[d][i] = k /\ x = <<d, i>>
      BY <2>1, RangesMember
    <3>2. d # c
      BY <1>3, <3>1
    <3>. QED BY <1>1, <1>4, <3>1, <3>2, RangesMember
  <2>2. ASSUME NEW x \in Ranges(use, k), x \notin gone PROVE x \in Ranges(new, k)
    <3>1. PICK d \in Consumers : \E i \in DOMAIN use[d] : use[d][i] = k /\ x = <<d, i>>
      BY <2>2, RangesMember
    <3>2. d # c
      BY <1>4, <2>2, <3>1
    <3>. QED BY <1>1, <3>1, <3>2, RangesMember
  <2>3. gone \subseteq Ranges(use, k)
    BY <1>4, RangesMember
  <2>. QED BY <2>1, <2>2, <2>3
<1>6. <<Nobody, k>> \notin gone
  BY <1>4, ThreadFacts
<1>7. UsersOf(h, new, k) = UsersOf(h, use, k) \ gone /\ UsersOf(h, use, k) \cap gone = gone
  BY <1>5, <1>6 DEF UsersOf
<1>8. IsFiniteSet(gone) /\ Cardinality(gone) = Cardinality(S)
  <2>1. IsFiniteSet({c}) /\ Cardinality({c}) = 1
    BY FS_Singleton
  <2> HIDE DEF S
  <2>2. IsFiniteSet({c} \X S) /\ Cardinality({c} \X S) = Cardinality({c}) * Cardinality(S)
    BY <1>2, <2>1, FS_Product
  <2>3. Cardinality(S) \in Nat /\ 1 * Cardinality(S) = Cardinality(S)
    BY <1>2
  <2>. QED BY <2>1, <2>2, <2>3 DEF gone
<1> HIDE DEF UsersOf, S
<1>9. IsFiniteSet(UsersOf(h, use, k)) /\ Cardinality(UsersOf(h, use, k)) \in Nat
  BY FS_CardinalityType DEF Balances
<1>10. /\ IsFiniteSet(UsersOf(h, new, k))
       /\ Cardinality(UsersOf(h, new, k)) = Cardinality(UsersOf(h, use, k)) - Holds(use[c], k)
  <2> DEFINE U == UsersOf(h, use, k)
  <2>1. /\ IsFiniteSet(U \ gone)
        /\ Cardinality(U \ gone) = Cardinality(U) - Cardinality(U \cap gone)
    BY <1>9, FS_Difference
  <2>. QED BY <1>2, <1>7, <1>8, <2>1
<1>11. Balances(n - Holds(use[c], k), h, new, k)
  BY <1>2, <1>9, <1>10 DEF Balances
<1>. QED BY <1>11 DEF new

\* A chunk that nobody has popped from is referenced by the chain.
LEMMA NewBalances ==
    ASSUME NEW use, NEW h \in Nat, NEW k \in Nat, k >= h,
           \A c \in Consumers : \A i \in DOMAIN use[c] : use[c][i] # k
    PROVE  Balances(1, h, use, k)
<1>1. Ranges(use, k) = {}
  BY RangesMember
<1>2. UsersOf(h, use, k) = {<<Nobody, k>>}
  BY <1>1 DEF UsersOf
<1>3. IsFiniteSet(UsersOf(h, use, k)) /\ Cardinality(UsersOf(h, use, k)) = 1
  BY <1>2, FS_Singleton
<1>. QED BY <1>3 DEF Balances

Use == [c \in Consumers |-> InUse(c)]

\* Ranges are positions in the chain; the pop under way has none before its first Take.
Fresh(c) == pc[c] \in Inside \ {"take", "advance", "return"} => pairs[c] = <<>>
Known(c) == /\ \A i \in DOMAIN ranges[c] : ranges[c][i] <= Len(chain)
            /\ \A i \in DOMAIN pairs[c] : pairs[c][i] <= Len(chain)

\* Only a timed pop clears its ranges twice.
Retried(c) == /\ pc[c] \in Inside \cup {"lock"} => patient[c] \/ c \in Timed
              /\ pc[c] = "retry" => c \in Timed

Balanced == \A k \in 1..Len(chain) : Balances(chain[k].references, head, Use, k)

Refs == (\A c \in Consumers : Fresh(c) /\ Known(c) /\ Retried(c)) /\ Balanced

LEMMA UseType ==
    ASSUME TypeOK
    PROVE  /\ Use \in [Consumers -> Seq(Nat)]
           /\ \A c \in Consumers : Use[c] = InUse(c)
           /\ \A k \in 1..Len(chain) : k \in Nat /\ chain[k].references \in Int
           /\ head \in Nat /\ Len(chain) \in Nat
<1>1. \A c \in Consumers : InUse(c) \in Seq(Nat)
  BY EmptySeq DEF TypeOK, InUse
<1>2. \A k \in 1..Len(chain) : k \in Nat /\ chain[k].references \in Int
  BY ChainFacts
<1>. QED BY <1>1, <1>2, ChainFacts DEF Use

\* A step of c that keeps what the others hold
LEMMA RefsStep ==
    ASSUME TypeOK, Refs, NEW c \in Consumers, NEW l, pc' = [pc EXCEPT ![c] = l],
           Len(chain') = Len(chain),
           \A d \in Consumers : d # c => /\ ranges'[d] = ranges[d] /\ pairs'[d] = pairs[d]
                                         /\ patient'[d] = patient[d],
           l \in Inside \ {"take", "advance", "return"} => pairs'[c] = <<>>,
           \A i \in DOMAIN ranges'[c] : ranges'[c][i] <= Len(chain),
           \A i \in DOMAIN pairs'[c] : pairs'[c][i] <= Len(chain),
           l \in Inside \cup {"lock"} => patient'[c] \/ c \in Timed,
           l = "retry" => c \in Timed,
           Balanced'
    PROVE  Refs'
<1>1. pc'[c] = l /\ \A d \in Consumers : d # c => pc'[d] = pc[d]
  BY ThreadFacts DEF TypeOK
<1>2. ASSUME NEW d \in Consumers PROVE (Fresh(d) /\ Known(d) /\ Retried(d))'
  <2>1. CASE d = c
    BY <1>1, <2>1 DEF Fresh, Known, Retried
  <2>2. CASE d # c
    <3>1. Fresh(d) /\ Known(d) /\ Retried(d)
      BY DEF Refs
    <3>. QED BY <1>1, <2>2, <3>1 DEF Fresh, Known, Retried
  <2>. QED BY <2>1, <2>2
<1>. QED BY <1>2 DEF Refs

\* What c still reads is the same when the rest is.
LEMMA UseSame ==
    ASSUME TypeOK, NEW c \in Consumers, NEW l, pc' = [pc EXCEPT ![c] = l],
           \A d \in Consumers : d # c => ranges'[d] = ranges[d] /\ pairs'[d] = pairs[d]
    PROVE  /\ Use' = [Use EXCEPT ![c] = InUse(c)']
           /\ InUse(c)' = InUse(c) => Use' = Use
           /\ InUse(c)' = IF l = "ready" THEN ranges'[c]
                          ELSE IF l \in {"take", "advance", "return"} THEN pairs'[c] ELSE <<>>
<1>1. pc'[c] = l /\ \A d \in Consumers : d # c => pc'[d] = pc[d]
  BY ThreadFacts DEF TypeOK
<1>2. \A d \in Consumers : d # c => InUse(d)' = InUse(d)
  BY <1>1 DEF InUse
<1>3. InUse(c)' = IF l = "ready" THEN ranges'[c]
                  ELSE IF l \in {"take", "advance", "return"} THEN pairs'[c] ELSE <<>>
  BY <1>1 DEF InUse
<1>4. Use' = [d \in Consumers |-> InUse(d)'] /\ Use = [d \in Consumers |-> InUse(d)]
  BY DEF Use
<1> HIDE DEF InUse
<1>. QED BY <1>2, <1>3, <1>4

LEMMA SameBalanced ==
    ASSUME Refs, Use' = Use, chain' = chain, head' = head
    PROVE  Balanced'
BY DEF Refs, Balanced

LEMMA MoveHeadBalanced ==
    ASSUME TypeOK, Refs, Use' = Use, MoveHead, head < Len(chain)
    PROVE  Balanced' /\ Len(chain') = Len(chain)
<1>1. /\ Len(chain') = Len(chain) /\ head' = head + 1
      /\ \A k \in 1..Len(chain) :
            chain'[k].references = chain[k].references - IF k = head THEN 1 ELSE 0
  BY MoveHeadFacts
<1>2. ASSUME NEW k \in 1..Len(chain) PROVE Balances(chain'[k].references, head', Use', k)
  <2>1. /\ Balances(chain[k].references, head, Use, k)
        /\ k \in Nat /\ head \in Nat /\ chain[k].references \in Int
    BY UseType DEF Refs, Balanced
  <2>2. Balances(chain[k].references - IF k = head THEN 1 ELSE 0, head + 1, Use, k)
    BY <2>1, MoveBalances
  <2>. QED BY <1>1, <2>2
<1>. QED BY <1>1, <1>2 DEF Balanced

LEMMA ProducerRefs ==
    ASSUME Inv, Refs, NEW p \in Producers, Producing(p)
    PROVE  Refs'
<1>1. TypeOK /\ p \in Threads /\ head \in 1..Len(chain) /\ Len(chain) \in Nat
  BY ThreadFacts, ChainFacts DEF Inv
<1>2. UNCHANGED <<head, ranges, pairs, patient>> /\ \E l : pc' = [pc EXCEPT ![p] = l]
  BY DEF Producing, Push, PushImmediate, Terminate, Link, MoveTail, Post, Finish, Last, Goto,
         fifo, elements, popping
<1>3. \A c \in Consumers : pc'[c] = pc[c]
  BY <1>1, <1>2, ThreadFacts DEF TypeOK
<1>4. Use' = Use
  <2>1. \A c \in Consumers : InUse(c)' = InUse(c)
    BY <1>2, <1>3 DEF InUse
  <2>. QED BY <2>1 DEF Use
<1>5. ASSUME Len(chain') >= Len(chain), Len(chain') \in Nat, Balanced' PROVE Refs'
  <2>1. ASSUME NEW c \in Consumers PROVE (Fresh(c) /\ Known(c) /\ Retried(c))'
    <3>1. Fresh(c) /\ Known(c) /\ Retried(c) /\ ranges[c] \in Seq(Nat) /\ pairs[c] \in Seq(Nat)
      BY <1>1 DEF Refs, TypeOK
    <3>2. /\ \A i \in DOMAIN ranges[c] : ranges[c][i] \in Nat
          /\ \A i \in DOMAIN pairs[c] : pairs[c][i] \in Nat
      BY <3>1, ElementOfSeq, LenProperties
    <3>3. Known(c)'
      BY <1>1, <1>2, <1>5, <3>1, <3>2 DEF Known
    <3>. QED BY <1>2, <1>3, <3>1, <3>3 DEF Fresh, Retried
  <2>. QED BY <1>5, <2>1 DEF Refs
<1>6. CASE Link(p)
  <2>1. /\ Len(chain') = Len(chain) + Len(Pieces(p)) /\ Len(Pieces(p)) \in {1, 2}
        /\ \A k \in 1..Len(chain) : chain'[k].references = chain[k].references
        /\ \A i \in 1..Len(Pieces(p)) : chain'[Len(chain) + i].references = 1
    <3>1. /\ Len(chain') = Len(chain) + Len(Pieces(p))
          /\ \A k \in 1..Len(chain) : chain'[k].references = chain[k].references
      BY <1>1, <1>6, LinkFacts
    <3>2. \A i \in 1..Len(Pieces(p)) : chain'[Len(chain) + i] = Pieces(p)[i]
      BY <1>1, <1>6, LinkFacts
    <3>3. /\ Len(Pieces(p)) \in {1, 2}
          /\ \A i \in 1..Len(Pieces(p)) : Pieces(p)[i].references = 1
      BY <1>1, PiecesFacts
    <3>. QED BY <3>1, <3>2, <3>3
  <2>2. ASSUME NEW k \in 1..Len(chain') PROVE Balances(chain'[k].references, head', Use', k)
    <3>1. CASE k \in 1..Len(chain)
      BY <1>2, <1>4, <2>1, <3>1 DEF Refs, Balanced
    <3>2. CASE k \notin 1..Len(chain)
      <4>1. k - Len(chain) \in 1..Len(Pieces(p)) /\ Len(chain) + (k - Len(chain)) = k
        BY <1>1, <2>1, <3>2
      <4>2. chain'[k].references = 1
        BY <2>1, <4>1
      <4>3. k \in Nat /\ k >= head /\ k > Len(chain) /\ head \in Nat
        BY <1>1, <2>1, <3>2
      <4>4. \A c \in Consumers : \A i \in DOMAIN Use[c] : Use[c][i] # k
        <5>1. ASSUME NEW c \in Consumers, NEW i \in DOMAIN Use[c] PROVE Use[c][i] # k
          <6>1. Use[c] \in {ranges[c], pairs[c], <<>>} /\ Known(c)
            BY DEF Use, InUse, Refs
          <6>2. Use[c][i] <= Len(chain)
            BY <6>1 DEF Known
          <6>3. Use[c][i] \in Nat
            BY <1>1, UseType
          <6>. QED BY <1>1, <4>3, <6>2, <6>3
        <5>. QED BY <5>1
      <4>. QED BY <1>2, <1>4, <4>2, <4>3, <4>4, NewBalances
    <3>. QED BY <3>1, <3>2
  <2>. QED BY <1>1, <1>5, <2>1, <2>2 DEF Balanced
<1>7. CASE ~Link(p)
  <2>1. chain' = chain
    BY <1>7 DEF Producing, Push, PushImmediate, Terminate, MoveTail, Post, Finish, Last, fifo
  <2>. QED BY <1>1, <1>2, <1>4, <1>5, <2>1, SameBalanced
<1>. QED BY <1>6, <1>7

\* Steps of c that leave the chunks, the ranges and the kind of pop alone
LEMMA QuietRefs ==
    ASSUME TypeOK, Refs, NEW c \in Consumers, NEW l, pc' = [pc EXCEPT ![c] = l],
           UNCHANGED <<chain, head, pairs, patient, ranges>>,
           InUse(c)' = InUse(c),
           l \in Inside \ {"take", "advance", "return"} => pairs[c] = <<>>,
           l \in Inside \cup {"lock"} => patient[c] \/ c \in Timed,
           l = "retry" => c \in Timed
    PROVE  Refs'
<1>1. Known(c) /\ Balanced'
  BY UseSame, SameBalanced DEF Refs
<1>. QED BY <1>1, RefsStep DEF Known

\* MoveHead in the three loops of pop
LEMMA MoveHeadRefs ==
    ASSUME TypeOK, Refs, NEW c \in Consumers, NEW l, pc' = [pc EXCEPT ![c] = l],
           UNCHANGED <<pairs, patient, ranges>>, MoveHead, head < Len(chain),
           InUse(c)' = InUse(c), pc[c] \in Inside,
           l \in Inside \ {"take", "advance", "return"} => pairs[c] = <<>>,
           l # "retry"
    PROVE  Refs'
<1>1. Known(c) /\ Retried(c) /\ Balanced' /\ Len(chain') = Len(chain)
  BY UseSame, MoveHeadBalanced DEF Refs
<1>. QED BY <1>1, RefsStep DEF Known, Retried

LEMMA PrepareRefs ==
    ASSUME Inv, Refs, NEW c \in Consumers, Prepare(c)
    PROVE  Refs'
<1>1. /\ UNCHANGED <<head, pairs, ranges>> /\ pc[c] \in {"ready", "retry"}
      /\ chain' = Destroyed(ranges[c]) /\ pc' = [pc EXCEPT ![c] = "lock"]
      /\ patient' = [patient EXCEPT ![c] = c \notin Timed \/ pc[c] = "retry"]
  BY DEF Prepare, Goto, elements
<1>2. TypeOK /\ ranges[c] \in Seq(Nat) /\ patient \in [Consumers -> BOOLEAN]
  BY DEF Inv, TypeOK
<1>3. patient'[c] \/ c \in Timed
  BY <1>1, <1>2
<1>4. \A d \in Consumers : d # c => patient'[d] = patient[d]
  BY <1>1, <1>2
<1>5. /\ Len(chain') = Len(chain)
      /\ \A k \in 1..Len(chain) :
            chain'[k].references = chain[k].references - Holds(ranges[c], k)
  BY <1>1, <1>2, DestroyedFacts
<1>6. Known(c) /\ Retried(c)
  BY DEF Refs
<1>7. Use' = [Use EXCEPT ![c] = <<>>]
  <2>1. InUse(c)' = <<>> /\ Use' = [Use EXCEPT ![c] = InUse(c)']
    BY <1>1, <1>2, UseSame
  <2>. QED BY <2>1
<1>8. Balanced'
  <2> SUFFICES ASSUME NEW k \in 1..Len(chain) PROVE Balances(chain'[k].references, head', Use', k)
    BY <1>5 DEF Balanced
  <2>1. /\ Balances(chain[k].references, head, Use, k) /\ chain[k].references \in Int
        /\ Use \in [Consumers -> Seq(Nat)] /\ Holds(ranges[c], k) \in Nat
    BY <1>2, UseType, HoldsType DEF Refs, Balanced
  <2>2. CASE pc[c] = "ready"
    <3>1. Use[c] = ranges[c]
      BY <2>2 DEF Use, InUse
    <3>2. Balances(chain[k].references - Holds(Use[c], k), head, [Use EXCEPT ![c] = <<>>], k)
      BY <2>1, ClearBalances
    <3>. QED BY <1>1, <1>5, <1>7, <3>1, <3>2
  <2>3. CASE pc[c] = "retry"
    <3>1. Timed # {}
      BY <1>6, <2>3 DEF Retried
    <3>2. Use' = Use
      <4>1. Use[c] = <<>>
        BY <2>3 DEF Use, InUse
      <4>. QED BY <1>7, <2>1, <4>1
    <3>3. Cardinality(UsersOf(head, Use, k)) \in Nat
      BY <2>1, FS_CardinalityType DEF Balances
    <3>4. chain[k].references - Holds(ranges[c], k) <= Cardinality(UsersOf(head, Use, k))
      BY <2>1, <3>3 DEF Balances
    <3>. QED BY <1>1, <1>5, <2>1, <3>1, <3>2, <3>4 DEF Balances
  <2>. QED BY <1>1, <2>2, <2>3
<1>. QED BY <1>1, <1>2, <1>3, <1>4, <1>5, <1>6, <1>8, RefsStep DEF Known, Inside

LEMMA LockRefs ==
    ASSUME Inv, Refs, NEW c \in Consumers, Lock(c)
    PROVE  Refs'
<1>1. /\ UNCHANGED <<chain, head, ranges, patient>> /\ pc[c] = "lock"
      /\ pairs' = [pairs EXCEPT ![c] = <<>>] /\ pc' = [pc EXCEPT ![c] = "empty"]
  BY DEF Lock, Goto, elements, fifo
<1>2. TypeOK /\ pairs'[c] = <<>> /\ (\A d \in Consumers : d # c => pairs'[d] = pairs[d])
  BY <1>1 DEF Inv, TypeOK
<1>3. Known(c) /\ Retried(c)
  BY DEF Refs
<1>4. InUse(c)' = InUse(c)
  BY <1>1, <1>2, UseSame DEF InUse
<1>5. Balanced'
  BY <1>1, <1>2, <1>4, UseSame, SameBalanced
<1>6. \A i \in DOMAIN pairs'[c] : pairs'[c][i] <= Len(chain)
  BY <1>2
<1>. QED BY <1>1, <1>2, <1>3, <1>5, <1>6, RefsStep DEF Known, Retried

LEMMA TakeRefs ==
    ASSUME Inv, Refs, NEW c \in Consumers, Take(c)
    PROVE  Refs'
<1>1. /\ UNCHANGED <<head, ranges, patient>> /\ pc[c] = "take"
      /\ pairs' = [pairs EXCEPT ![c] = Append(pairs[c], head)]
      /\ \E l \in {"return", "advance"} : pc' = [pc EXCEPT ![c] = l]
  BY DEF Take, Goto
<1>2. PICK l \in {"return", "advance"} : pc' = [pc EXCEPT ![c] = l]
  BY <1>1
<1>3. /\ TypeOK /\ pairs[c] \in Seq(Nat) /\ pairs'[c] = Append(pairs[c], head)
      /\ \A d \in Consumers : d # c => pairs'[d] = pairs[d]
  BY <1>1 DEF Inv, TypeOK
<1>4. /\ Len(chain') = Len(chain) /\ head \in 1..Len(chain) /\ Len(chain) \in Nat
      /\ \A k \in 1..Len(chain) :
            chain'[k].references = chain[k].references + IF k = head THEN 1 ELSE 0
  BY <1>3, TakeFacts, ChainFacts
<1>5. Known(c) /\ Retried(c)
  BY DEF Refs
<1>6. \A i \in DOMAIN pairs'[c] : pairs'[c][i] <= Len(chain)
  <2>1. /\ DOMAIN pairs[c] = 1..Len(pairs[c]) /\ Len(pairs[c]) \in Nat
        /\ DOMAIN pairs'[c] = 1..Len(pairs[c]) + 1 /\ pairs'[c][Len(pairs[c]) + 1] = head
        /\ \A i \in 1..Len(pairs[c]) : pairs'[c][i] = pairs[c][i]
    BY <1>3, <1>4, AppendProperties, LenProperties
  <2>. QED BY <1>4, <1>5, <2>1 DEF Known
<1>7. Use' = [Use EXCEPT ![c] = Append(Use[c], head)]
  <2>1. Use' = [Use EXCEPT ![c] = InUse(c)'] /\ InUse(c)' = pairs'[c]
    BY <1>1, <1>2, <1>3, UseSame
  <2>2. Use[c] = pairs[c]
    BY <1>1 DEF Use, InUse
  <2>. QED BY <1>3, <2>1, <2>2
<1>8. Balanced'
  <2> SUFFICES ASSUME NEW k \in 1..Len(chain) PROVE Balances(chain'[k].references, head', Use', k)
    BY <1>4 DEF Balanced
  <2>1. /\ Balances(chain[k].references, head, Use, k) /\ chain[k].references \in Int
        /\ Use \in [Consumers -> Seq(Nat)] /\ head \in Nat
    BY <1>3, UseType DEF Refs, Balanced
  <2>2. Balances(chain[k].references + (IF k = head THEN 1 ELSE 0), head,
                 [Use EXCEPT ![c] = Append(Use[c], head)], k)
    BY <2>1, TakeBalances
  <2>. QED BY <1>1, <1>4, <1>7, <2>2
<1>. QED BY <1>1, <1>2, <1>3, <1>4, <1>5, <1>6, <1>8, RefsStep DEF Known, Retried, Inside

LEMMA ReturnRefs ==
    ASSUME Inv, Refs, NEW c \in Consumers, Return(c)
    PROVE  Refs'
<1>1. /\ UNCHANGED <<chain, head, pairs, patient>> /\ pc[c] = "return"
      /\ ranges' = [ranges EXCEPT ![c] = pairs[c]] /\ pc' = [pc EXCEPT ![c] = "ready"]
  BY DEF Return, Goto, popping, fifo
<1>2. TypeOK /\ ranges'[c] = pairs[c] /\ (\A d \in Consumers : d # c => ranges'[d] = ranges[d])
  BY <1>1 DEF Inv, TypeOK
<1>3. Known(c) /\ Retried(c)
  BY DEF Refs
<1>4. InUse(c)' = InUse(c)
  BY <1>1, <1>2, UseSame DEF InUse
<1>5. Balanced'
  BY <1>1, <1>2, <1>4, UseSame, SameBalanced
<1>. QED BY <1>1, <1>2, <1>3, <1>5, RefsStep DEF Known, Inside

LEMMA DrainRefs ==
    ASSUME Inv, Refs, NEW c \in Consumers, Drain(c)
    PROVE  Refs'
<1>1. UNCHANGED <<pairs, patient>> /\ pc[c] = "left" /\ pc[c] \in Inside
  BY DEF Drain, popping, Inside
<1>2. TypeOK /\ pairs[c] = <<>> /\ InUse(c) = <<>> /\ (patient[c] \/ c \in Timed) /\ Known(c)
  BY <1>1 DEF Inv, Refs, Fresh, Retried, Inside, InUse
<1>3. ASSUME pc' = [pc EXCEPT ![c] = "take"], UNCHANGED <<chain, head, ranges>> PROVE Refs'
  <2>1. InUse(c)' = InUse(c)
    <3>1. \A d \in Consumers : d # c => ranges'[d] = ranges[d] /\ pairs'[d] = pairs[d]
      BY <1>1, <1>3
    <3>2. InUse(c)' = IF "take" = "ready" THEN ranges'[c]
                      ELSE IF "take" \in {"take", "advance", "return"} THEN pairs'[c] ELSE <<>>
      BY <1>2, <1>3, <3>1, UseSame
    <3>3. InUse(c)' = pairs'[c]
      BY <3>2
    <3>. QED BY <1>1, <1>2, <3>3
  <2>. QED BY <1>1, <1>2, <1>3, <2>1, QuietRefs
<1>4. ASSUME pc' = [pc EXCEPT ![c] = "drain"], UNCHANGED ranges, MoveHead, chain[head].next
      PROVE  Refs'
  <2>1. InUse(c)' = InUse(c)
    <3>1. \A d \in Consumers : d # c => ranges'[d] = ranges[d] /\ pairs'[d] = pairs[d]
      BY <1>1, <1>4
    <3>2. InUse(c)' = <<>>
      BY <1>2, <1>4, <3>1, UseSame
    <3>. QED BY <1>2, <3>2
  <2>2. head < Len(chain)
    BY <1>2, <1>4, ChainFacts DEF Inv, Linked
  <2>. QED BY <1>1, <1>2, <1>4, <2>1, <2>2, MoveHeadRefs
<1>5. ASSUME pc' = [pc EXCEPT ![c] = "done"], UNCHANGED <<chain, head>>,
             ranges' = [ranges EXCEPT ![c] = <<>>]
      PROVE  Refs'
  <2>1. ranges'[c] = <<>> /\ (\A d \in Consumers : d # c => ranges'[d] = ranges[d])
    BY <1>2, <1>5 DEF TypeOK
  <2>2. InUse(c)' = InUse(c)
    BY <1>1, <1>2, <1>5, <2>1, UseSame
  <2>3. Balanced'
    BY <1>1, <1>2, <1>5, <2>1, <2>2, UseSame, SameBalanced
  <2>4. \A i \in DOMAIN ranges'[c] : ranges'[c][i] <= Len(chain)
    BY <2>1
  <2>. QED BY <1>1, <1>2, <1>5, <2>1, <2>3, <2>4, RefsStep DEF Known, Inside
<1>. QED BY <1>3, <1>4, <1>5 DEF Drain, Goto

LEMMA ConsumerRefs ==
    ASSUME Inv, Refs, NEW c \in Consumers, Consuming(c)
    PROVE  Refs'
<1>1. TypeOK /\ Fresh(c) /\ Retried(c)
  BY DEF Inv, Refs
<1>2. CASE Read(c)
  <2>1. UNCHANGED <<chain, head, pairs, patient, ranges, pc>> /\ pc[c] = "ready"
    BY <1>2 DEF Read, fifo, popping
  <2>2. pc' = [pc EXCEPT ![c] = "ready"] /\ InUse(c)' = InUse(c)
    BY <1>1, <2>1, ThreadFacts DEF TypeOK, InUse
  <2>. QED BY <1>1, <2>1, <2>2, QuietRefs DEF Inside
<1>3. CASE Timeout(c)
  <2>1. /\ UNCHANGED <<chain, head, pairs, patient, ranges>> /\ pc[c] \in {"lock", "wait"}
        /\ ~patient[c] /\ pc' = [pc EXCEPT ![c] = "retry"]
    BY <1>3 DEF Timeout, Goto, fifo, popping, elements
  <2>2. InUse(c)' = InUse(c)
    BY <1>1, <2>1, UseSame DEF InUse
  <2>3. c \in Timed
    BY <1>1, <2>1 DEF Retried, Inside
  <2>. QED BY <1>1, <2>1, <2>2, <2>3, QuietRefs DEF Inside
<1>4. CASE TestEmpty(c)
  <2>1. /\ UNCHANGED <<chain, head, pairs, patient, ranges>> /\ pc[c] = "empty"
        /\ \E l \in {"terminated", "drain"} : pc' = [pc EXCEPT ![c] = l]
    BY <1>4 DEF TestEmpty, Goto, fifo, elements
  <2>2. PICK l \in {"terminated", "drain"} : pc' = [pc EXCEPT ![c] = l]
    BY <2>1
  <2>3. InUse(c)' = InUse(c)
    BY <1>1, <2>1, <2>2, UseSame DEF InUse
  <2>. QED BY <1>1, <2>1, <2>2, <2>3, QuietRefs DEF Inside, Fresh, Retried
<1>5. CASE TestTerminated(c)
  <2>1. UNCHANGED <<pairs, patient, ranges>> /\ pc[c] = "terminated"
    BY <1>5 DEF TestTerminated, popping, elements
  <2>2. ASSUME NEW l \in {"drain", "wait"}, pc' = [pc EXCEPT ![c] = l], UNCHANGED <<chain, head>>
        PROVE  Refs'
    <3>1. InUse(c)' = InUse(c)
      BY <1>1, <2>1, <2>2, UseSame DEF InUse
    <3>. QED BY <1>1, <2>1, <2>2, <3>1, QuietRefs DEF Inside, Fresh, Retried
  <2>3. ASSUME hasNext[c], MoveHead, pc' = [pc EXCEPT ![c] = "empty"] PROVE Refs'
    <3>1. InUse(c)' = InUse(c)
      BY <1>1, <2>1, <2>3, UseSame DEF InUse
    <3>2. head < Len(chain)
      BY <1>1, <2>1, <2>3, ChainFacts DEF Inv, Linked, Looks
    <3>. QED BY <1>1, <2>1, <2>3, <3>1, <3>2, MoveHeadRefs DEF Inside, Fresh
  <2>. QED BY <1>5, <2>2, <2>3 DEF TestTerminated, Goto
<1>6. CASE Wait(c)
  <2>1. /\ UNCHANGED <<chain, head, pairs, patient, ranges>> /\ pc[c] = "wait"
        /\ pc' = [pc EXCEPT ![c] = "empty"]
    BY <1>6 DEF Wait, Goto, popping, elements
  <2>2. InUse(c)' = InUse(c)
    BY <1>1, <2>1, UseSame DEF InUse
  <2>. QED BY <1>1, <2>1, <2>2, QuietRefs DEF Inside, Fresh, Retried
<1>7. CASE TestDrain(c)
  <2>1. /\ UNCHANGED <<chain, head, pairs, patient, ranges>> /\ pc[c] = "drain"
        /\ \E l \in {"left", "take"} : pc' = [pc EXCEPT ![c] = l]
    BY <1>7 DEF TestDrain, Goto, fifo, popping, elements
  <2>2. PICK l \in {"left", "take"} : pc' = [pc EXCEPT ![c] = l]
    BY <2>1
  <2>3. pairs[c] = <<>> /\ InUse(c) = <<>>
    BY <1>1, <2>1 DEF Fresh, Inside, InUse
  <2>4. InUse(c)' = InUse(c)
    BY <1>1, <2>1, <2>2, <2>3, UseSame
  <2>. QED BY <1>1, <2>1, <2>2, <2>3, <2>4, QuietRefs DEF Inside, Retried
<1>8. CASE Advance(c)
  <2>1. UNCHANGED <<pairs, patient, ranges>> /\ pc[c] = "advance"
    BY <1>8 DEF Advance, popping, elements
  <2>2. ASSUME pc' = [pc EXCEPT ![c] = "return"], UNCHANGED <<chain, head>> PROVE Refs'
    <3>1. InUse(c)' = InUse(c)
      BY <1>1, <2>1, <2>2, UseSame DEF InUse
    <3>. QED BY <1>1, <2>1, <2>2, <3>1, QuietRefs DEF Inside, Retried
  <2>3. ASSUME chain[head].next, MoveHead, pc' = [pc EXCEPT ![c] = "take"] PROVE Refs'
    <3>1. InUse(c)' = InUse(c)
      BY <1>1, <2>1, <2>3, UseSame DEF InUse
    <3>2. head < Len(chain)
      BY <1>1, <2>3, ChainFacts DEF Inv, Linked
    <3>. QED BY <1>1, <2>1, <2>3, <3>1, <3>2, MoveHeadRefs DEF Inside
  <2>. QED BY <1>8, <2>2, <2>3 DEF Advance, Goto
<1>. QED BY <1>2, <1>3, <1>4, <1>5, <1>6, <1>7, <1>8, PrepareRefs, LockRefs, TakeRefs, ReturnRefs,
            DrainRefs DEF Consuming

LEMMA InitRefs == Init => Refs
<1> SUFFICES ASSUME Init PROVE Refs
  OBVIOUS
<1>1. /\ head = 1 /\ Len(chain) = 1 /\ chain[1].references = 1
      /\ \A c \in Consumers : pc[c] = "ready" /\ ranges[c] = <<>> /\ pairs[c] = <<>>
  BY ThreadFacts DEF Init, Chunk
<1>2. ASSUME NEW c \in Consumers PROVE Fresh(c) /\ Known(c) /\ Retried(c)
  BY <1>1 DEF Fresh, Known, Retried, Inside
<1>3. \A c \in Consumers : Use[c] = <<>>
  BY <1>1 DEF Use, InUse
<1>4. Balances(1, head, Use, 1)
  BY <1>1, <1>3, NewBalances
<1>. QED BY <1>1, <1>2, <1>4 DEF Refs, Balanced

LEMMA NextRefs == Inv /\ Refs /\ [Next]_vars => Refs'
<1> SUFFICES ASSUME Inv, Refs, [Next]_vars PROVE Refs'
  OBVIOUS
<1>1. CASE UNCHANGED vars
  <2>1. UNCHANGED <<chain, head, ranges, pairs, patient, pc>>
    BY <1>1 DEF vars, fifo, elements, popping
  <2>2. Use' = Use
    BY <2>1 DEF Use, InUse
  <2>3. ASSUME NEW c \in Consumers PROVE (Fresh(c) /\ Known(c) /\ Retried(c))'
    BY <2>1 DEF Refs, Fresh, Known, Retried
  <2>. QED BY <2>1, <2>2, <2>3, SameBalanced DEF Refs
<1>. QED BY <1>1, ProducerRefs, ConsumerRefs DEF Next, Over

(***************************************************************************)
(* With timeouts a chunk may be freed too early, when the same ranges are  *)
(* cleared twice; without them each chunk has exactly as many references   *)
(* as users, so that none is freed in use and none is leaked.              *)
(***************************************************************************)
THEOREM ReferencesAlwaysBalanced == Spec => []ReferencesBalanced
<1>1. ASSUME Inv, Refs PROVE ReferencesBalanced
  <2> SUFFICES ASSUME NEW k \in DOMAIN chain
               PROVE  \/ chain[k].references = Cardinality(Users(k))
                      \/ Timed # {} /\ chain[k].references < Cardinality(Users(k))
    BY DEF ReferencesBalanced
  <2>1. k \in 1..Len(chain) /\ chain[k].references \in Int
    BY <1>1, ChainFacts DEF Inv
  <2>2. Users(k) = UsersOf(head, Use, k)
    <3>1. \A c \in Consumers : Use[c] = InUse(c)
      BY DEF Use
    <3>. QED BY <3>1 DEF Users, UsersOf, Ranges
  <2>3. Balances(chain[k].references, head, Use, k)
    BY <1>1, <2>1 DEF Refs, Balanced
  <2>4. /\ Cardinality(Users(k)) \in Nat /\ chain[k].references <= Cardinality(Users(k))
        /\ Timed = {} => chain[k].references = Cardinality(Users(k))
    BY <2>2, <2>3, FS_CardinalityType DEF Balances
  <2>. QED BY <2>1, <2>4
<1>. QED BY <1>1, InitInv, NextInv, InitRefs, NextRefs, PTL DEF Spec
---------------------------------------------------------------------------------
(***************************************************************************)
(* What the refinement needs beside Inv: the items of a producer stand in  *)
(* the chain in the order they were pushed, before the ones in its own     *)
(* chunk; what _head has passed is empty; and a consumer that looks for    *)
(* elements, or was told that there are none, holds none.                  *)
(***************************************************************************)
Ascending(s) == \A i, j \in DOMAIN s : i < j /\ s[i][1] = s[j][1] => s[i][2] < s[j][2]
Before(S, T) == \A x \in S, y \in T : x[1] = y[1] => x[2] < y[2]

There(k) == Elements(chain[k].available)

InOrder ==
    /\ \A k \in 1..Len(chain) : /\ Ascending(chain[k].available)
                                /\ \A x \in There(k) : x[2] <= pushed[x[1]]
    /\ \A k, l \in 1..Len(chain) : k < l => Before(There(k), There(l))
    /\ \A p \in Producers :
          /\ Ascending(chunk[p])
          /\ \A x \in Elements(chunk[p]) : x[1] = p /\ x[2] <= pushed[p]
          /\ \A k \in 1..Len(chain) : Before(There(k), Elements(chunk[p]))

Passed == \A k \in 1..head-1 : chain[k].available = <<>>
Reading == {"ready", "take", "advance", "return"}
Holding == \A c \in Consumers : pc[c] \notin Reading => items[c] = <<>>

Chan == InOrder /\ Passed /\ Holding

\* Splitting ordered items after m of them.
LEMMA SplitOrder ==
    ASSUME NEW s \in Seq(Item), NEW m \in 0..Len(s), Ascending(s)
    PROVE  /\ Ascending(Front(m, s)) /\ Ascending(Rest(m, s))
           /\ Before(Elements(Front(m, s)), Elements(Rest(m, s)))
           /\ Elements(s) = Elements(Front(m, s)) \cup Elements(Rest(m, s))
           /\ DOMAIN Front(m, s) = 1..m /\ DOMAIN Rest(m, s) = 1..(Len(s) - m)
           /\ DOMAIN s = 1..Len(s) /\ Len(s) \in Nat
           /\ \A i \in 1..m : Front(m, s)[i] = s[i]
           /\ \A i \in 1..(Len(s) - m) : Rest(m, s)[i] = s[m + i]
<1>1. Len(s) \in Nat /\ DOMAIN s = 1..Len(s) /\ \A i \in 1..Len(s) : s[i] \in Item
  BY LenProperties, ElementOfSeq
<1>2. /\ DOMAIN Front(m, s) = 1..m
      /\ DOMAIN Rest(m, s) = 1..(Len(s) - m)
  <2>1. /\ Front(m, s) \in Seq(Item) /\ Len(Front(m, s)) = m
        /\ Rest(m, s) \in Seq(Item) /\ Len(Rest(m, s)) = Len(s) - m
    BY SplitType
  <2>. QED BY <2>1, LenProperties
<1>3. \A i \in 1..m : Front(m, s)[i] = s[i]
  <2>1. \A i \in 1..m : s[i] \in Item
    BY <1>1
  <2>2. \A i \in 1..m - 1 + 1 : SubSeq(s, 1, m)[i] = s[1 + i - 1]
    BY <1>1, <2>1, SubSeqProperties, m \in Int
  <2>. QED BY <1>1, <2>2 DEF Front
<1>4. \A i \in 1..(Len(s) - m) : Rest(m, s)[i] = s[m + i]
  <2>1. \A i \in m+1..Len(s) : s[i] \in Item
    BY <1>1
  <2>2. \A i \in 1..Len(s) - (m + 1) + 1 : SubSeq(s, m + 1, Len(s))[i] = s[m + 1 + i - 1]
    BY <1>1, <2>1, SubSeqProperties, m + 1 \in Int, Len(s) \in Int
  <2>. QED BY <1>1, <2>2 DEF Rest
<1>5. Ascending(Front(m, s))
  BY <1>1, <1>2, <1>3 DEF Ascending
<1>6. Ascending(Rest(m, s))
  <2>1. ASSUME NEW i \in 1..(Len(s) - m), NEW j \in 1..(Len(s) - m),
               i < j, Rest(m, s)[i][1] = Rest(m, s)[j][1]
        PROVE  Rest(m, s)[i][2] < Rest(m, s)[j][2]
    <3>1. m + i \in 1..Len(s) /\ m + j \in 1..Len(s) /\ m + i < m + j
      BY <1>1, <2>1
    <3>2. Rest(m, s)[i] = s[m + i] /\ Rest(m, s)[j] = s[m + j]
      BY <1>4
    <3>. QED BY <1>1, <2>1, <3>1, <3>2 DEF Ascending
  <2>. QED BY <1>2, <2>1 DEF Ascending
<1>7. Before(Elements(Front(m, s)), Elements(Rest(m, s)))
  <2>1. ASSUME NEW i \in 1..m, NEW j \in 1..(Len(s) - m), Front(m, s)[i][1] = Rest(m, s)[j][1]
        PROVE  Front(m, s)[i][2] < Rest(m, s)[j][2]
    <3>1. i \in 1..Len(s) /\ m + j \in 1..Len(s) /\ i < m + j
      BY <1>1
    <3>2. Front(m, s)[i] = s[i] /\ Rest(m, s)[j] = s[m + j]
      BY <1>3, <1>4
    <3>. QED BY <1>1, <2>1, <3>1, <3>2 DEF Ascending
  <2>. QED BY <1>2, <2>1 DEF Before, Elements
<1>8. Elements(s) = Elements(Front(m, s)) \cup Elements(Rest(m, s))
  <2>1. ASSUME NEW i \in 1..Len(s)
        PROVE  s[i] \in Elements(Front(m, s)) \cup Elements(Rest(m, s))
    <3>1. CASE i \in 1..m
      BY <1>2, <1>3, <3>1 DEF Elements
    <3>2. CASE i \notin 1..m
      <4>1. i - m \in 1..(Len(s) - m) /\ m + (i - m) = i
        BY <1>1, <3>2
      <4>. QED BY <1>2, <1>4, <4>1 DEF Elements
    <3>. QED BY <3>1, <3>2
  <2>2. Elements(Front(m, s)) \subseteq Elements(s)
    BY <1>1, <1>2, <1>3 DEF Elements
  <2>3. ASSUME NEW j \in 1..(Len(s) - m) PROVE Rest(m, s)[j] \in Elements(s)
    <3>1. m + j \in 1..Len(s)
      BY <1>1
    <3>. QED BY <1>1, <1>4, <3>1 DEF Elements
  <2>. QED BY <1>1, <1>2, <2>1, <2>2, <2>3 DEF Elements
<1>. QED BY <1>1, <1>2, <1>3, <1>4, <1>5, <1>6, <1>7, <1>8

\* A batch taken from the front of an ordered chunk is one a consumer of the channel may claim.
LEMMA ClaimableBatch ==
    ASSUME NEW s \in Seq(Item), NEW m \in 1..Len(s), Ascending(s),
           NEW others \in SUBSET Item, Before(Elements(s), others)
    PROVE  LET batch == Elements(Front(m, s))
               unclaimed == Elements(s) \cup others
           IN  /\ batch # {} /\ batch \subseteq unclaimed
               /\ \A x \in batch, y \in unclaimed : Abstract!Older(y, x) => y \in batch
               /\ Elements(Rest(m, s)) \cup others = unclaimed \ batch
               /\ Front(m, s) \in Abstract!Arrangements(batch)
<1> DEFINE front == Front(m, s)
           rest == Rest(m, s)
           batch == Elements(front)
<1>1. /\ Ascending(front) /\ Ascending(rest) /\ Before(batch, Elements(rest))
      /\ Elements(s) = Elements(front) \cup Elements(rest)
      /\ DOMAIN front = 1..m /\ DOMAIN rest = 1..(Len(s) - m)
      /\ DOMAIN s = 1..Len(s) /\ Len(s) \in Nat
      /\ \A i \in 1..m : front[i] = s[i]
      /\ \A i \in 1..(Len(s) - m) : rest[i] = s[m + i]
  <2>1. m \in 0..Len(s)
    OBVIOUS
  <2>. QED BY <2>1, SplitOrder
<1>2. \A i \in 1..Len(s) : s[i] \in Item /\ s[i][2] \in Nat
  BY <1>1, ElementOfSeq DEF Item
<1>3. m \in Nat /\ \A i \in 1..m : i \in 1..Len(s)
  BY <1>1
<1>4. front \in Seq(Item)
  BY <1>3, SplitType
<1> HIDE DEF front, rest
<1>5. \A x \in batch : \E i \in 1..m : x = front[i] /\ x = s[i] /\ i \in 1..Len(s)
  BY <1>1, <1>3 DEF Elements
<1>6. batch # {}
  <2>1. 1 \in 1..m
    BY <1>3
  <2>. QED BY <1>1, <2>1 DEF Elements
<1>7. ASSUME NEW x \in batch, NEW y \in others PROVE x[1] = y[1] => x[2] < y[2] /\ x # y
  <2>1. PICK i \in 1..m : x = s[i] /\ i \in 1..Len(s)
    BY <1>5
  <2>2. y[2] \in Nat /\ x[2] \in Nat
    BY <1>2, <2>1 DEF Item
  <2>3. x[1] = y[1] => x[2] < y[2]
    BY <1>1 DEF Before
  <2>4. x = y => x[1] = y[1] /\ x[2] = y[2]
    OBVIOUS
  <2>. QED BY <2>2, <2>3, <2>4
<1>8. ASSUME NEW x \in batch, NEW y \in Elements(rest) PROVE x[1] = y[1] => x[2] < y[2] /\ x # y
  <2>1. PICK i \in 1..m : x = front[i] /\ x = s[i] /\ i \in 1..Len(s)
    BY <1>5
  <2>2. PICK j \in 1..(Len(s) - m) : y = rest[j]
    BY <1>1 DEF Elements
  <2>3. m + j \in 1..Len(s)
    BY <1>1, <1>3
  <2>4. y[2] \in Nat /\ x[2] \in Nat
    BY <1>1, <1>2, <2>1, <2>2, <2>3
  <2>5. x[1] = y[1] => x[2] < y[2]
    BY <1>1 DEF Before
  <2>6. x = y => x[1] = y[1] /\ x[2] = y[2]
    OBVIOUS
  <2>. QED BY <2>4, <2>5, <2>6
<1>9. \A x \in batch : x[2] \in Nat
  BY <1>2, <1>5
<1>10. \A y \in Elements(rest) \cup others : y[2] \in Nat
  <2>1. ASSUME NEW j \in 1..(Len(s) - m) PROVE rest[j][2] \in Nat
    <3>1. m + j \in 1..Len(s)
      BY <1>1, <1>3
    <3>. QED BY <1>1, <1>2, <3>1
  <2>. QED BY <1>1, <2>1 DEF Elements, Item
<1>11. \A x \in batch, y \in batch \cup Elements(rest) \cup others :
          Abstract!Older(y, x) => y \in batch
  BY <1>7, <1>8, <1>9, <1>10 DEF Abstract!Older
<1>12. \A x \in batch : x \notin Elements(rest) \cup others
  BY <1>7, <1>8
<1>13. front \in Abstract!Arrangements(batch)
  <2>1. front \in [1..m -> batch]
    BY <1>1, <1>4, LenProperties DEF Elements
  <2>2. ASSUME NEW i \in 1..m, NEW j \in 1..m, i < j
        PROVE  front[i] # front[j] /\ ~Abstract!Older(front[j], front[i])
    <3>1. front[i][2] \in Nat /\ front[j][2] \in Nat
      BY <1>1, <1>2, <1>3
    <3>2. front[i][1] = front[j][1] => front[i][2] < front[j][2]
      BY <1>1, <2>2 DEF Ascending
    <3>3. front[i] # front[j]
      BY <3>1, <3>2
    <3>4. ~Abstract!Older(front[j], front[i])
      BY <3>1, <3>2 DEF Abstract!Older
    <3>. QED BY <3>3, <3>4
  <2>3. front \in Bijection(1..m, batch)
    <3>1. \A i, j \in 1..m : front[i] = front[j] => i = j
      BY <1>3, <2>2
    <3>2. \A x \in batch : \E i \in 1..m : front[i] = x
      BY <1>5
    <3>. QED BY <2>1, <3>1, <3>2 DEF Bijection, Injection, Surjection, IsInjective
  <2>4. Cardinality(batch) = m
    BY <1>3, <2>3, FS_CountingElements DEF ExistsBijection
  <2>5. \A i, j \in DOMAIN front : i < j => front[i] # front[j] /\ ~Abstract!Older(front[j], front[i])
    BY <1>1, <2>2
  <2> HIDE DEF batch
  <2>6. Abstract!Cardinality(batch) = Cardinality(batch)
    BY DEF Abstract!Cardinality, Cardinality
  <2>7. front \in [1..Abstract!Cardinality(batch) -> batch]
    BY <2>1, <2>4, <2>6
  <2>. QED BY <2>5, <2>7 DEF Abstract!Arrangements
<1>. QED BY <1>1, <1>6, <1>11, <1>12, <1>13 DEF front, rest
---------------------------------------------------------------------------------
(* Every step keeps the order, and is one of the channel or none. *)

Unlinked == UNION {Elements(chunk[p]) : p \in Producers}
Pool == Unlinked \cup UNION {There(k) : k \in 1..Len(chain)}
Closed == {p \in Producers : pc[p] \in {"last", "done"}}
Ended == {c \in Consumers : pc[c] = "done"}

LEMMA PoolMember ==
    \A x : x \in Pool <=> \/ \E p \in Producers : x \in Elements(chunk[p])
                          \/ \E k \in 1..Len(chain) : x \in There(k)
BY DEF Pool, Unlinked

LEMMA PoolIsAbstract ==
    ASSUME TypeOK
    PROVE  Pool = (UNION {Elements(chunk[p]) : p \in Producers})
                  \cup UNION {Elements(chain[k].available) : k \in DOMAIN chain}
<1>1. DOMAIN chain = 1..Len(chain)
  BY ChainFacts
<1>2. UNION {There(k) : k \in 1..Len(chain)} = UNION {Elements(chain[k].available) : k \in DOMAIN chain}
  BY <1>1 DEF There
<1>3. Pool = (UNION {Elements(chunk[p]) : p \in Producers}) \cup UNION {There(k) : k \in 1..Len(chain)}
  BY DEF Pool, Unlinked
<1>. QED BY <1>2, <1>3

LEMMA PoolIsAbstractNext ==
    ASSUME TypeOK'
    PROVE  Pool' = (UNION {Elements(chunk'[p]) : p \in Producers})
                   \cup UNION {Elements(chain'[k].available) : k \in DOMAIN chain'}
<1>1. DOMAIN chain' = 1..Len(chain')
  BY LenProperties DEF TypeOK
<1>2. UNION {Elements(chain'[k].available) : k \in 1..Len(chain')}
          = UNION {Elements(chain'[k].available) : k \in DOMAIN chain'}
  BY <1>1
<1>3. Pool' = Unlinked' \cup UNION {Elements(chain'[k].available) : k \in 1..Len(chain')}
  BY DEF Pool, There, Elements
<1>4. Unlinked' = UNION {Elements(chunk'[p]) : p \in Producers}
  BY DEF Unlinked, Elements
<1>. QED BY <1>2, <1>3, <1>4

LEMMA EmptyElements == Elements(<<>>) = {} /\ Ascending(<<>>)
BY DEF Elements, Ascending

\* A step that moves no item
LEMMA QuietStep ==
    ASSUME TypeOK, TypeOK', Chan, Len(chain') = Len(chain),
           \A k \in 1..Len(chain) : chain'[k].available = chain[k].available,
           UNCHANGED <<chunk, pushed, items, taken>>,
           head' = head \/ (head' = head + 1 /\ HeadEmpty),
           \A c \in Consumers : pc'[c] \notin Reading /\ pc[c] \in Reading => items[c] = <<>>
    PROVE  Chan' /\ Pool' = Pool
<1>1. \A k \in 1..Len(chain) : There(k)' = There(k)
  BY DEF There, Elements
<1>2. \A p \in Producers : Elements(chunk[p])' = Elements(chunk[p])
  BY DEF Elements
<1>3. Unlinked' = Unlinked
  BY DEF Unlinked
<1>4. UNION {There(k)' : k \in 1..Len(chain)} = UNION {There(k) : k \in 1..Len(chain)}
  BY <1>1
<1>5. Pool' = Pool
  BY <1>3, <1>4 DEF Pool
<1>6. InOrder'
  <2>1. \A k \in 1..Len(chain) : /\ Ascending(chain'[k].available)
                                 /\ \A x \in There(k)' : x[2] <= pushed'[x[1]]
    BY <1>1 DEF Chan, InOrder
  <2>2. \A k, l \in 1..Len(chain) : k < l => Before(There(k)', There(l)')
    BY <1>1 DEF Chan, InOrder
  <2>3. ASSUME NEW p \in Producers
        PROVE  /\ Ascending(chunk'[p])
               /\ \A x \in Elements(chunk[p])' : x[1] = p /\ x[2] <= pushed'[p]
               /\ \A k \in 1..Len(chain) : Before(There(k)', Elements(chunk[p])')
    BY <1>1, <1>2 DEF Chan, InOrder
  <2>. QED BY <2>1, <2>2, <2>3 DEF InOrder
<1>7. Passed'
  <2>1. head \in Nat /\ head \in 1..Len(chain) /\ Len(chain) \in Nat /\ head' \in 1..Len(chain)
    BY ChainFacts DEF TypeOK
  <2>2. ASSUME NEW k \in 1..head'-1 PROVE chain[k].available = <<>> /\ k \in 1..Len(chain)
    BY <2>1 DEF Chan, Passed, HeadEmpty
  <2>. QED BY <2>2 DEF Passed
<1>8. Holding'
  BY DEF Chan, Holding
<1>. QED BY <1>5, <1>6, <1>7, <1>8 DEF Chan

LEMMA ItemFacts ==
    ASSUME TypeOK
    PROVE  /\ \A k \in 1..Len(chain) : There(k) \subseteq Item
           /\ \A p \in Producers : Elements(chunk[p]) \subseteq Item
           /\ \A x \in Item : x[1] \in Producers /\ x[2] \in Nat
<1>1. \A s \in Seq(Item) : Elements(s) \subseteq Item
  BY ElementOfSeq, LenProperties DEF Elements
<1>2. \A k \in 1..Len(chain) : chain[k].available \in Seq(Item)
  BY ChainFacts
<1>3. \A p \in Producers : chunk[p] \in Seq(Item)
  BY DEF TypeOK
<1>. QED BY <1>1, <1>2, <1>3 DEF There, Item

\* What the append of a newer item of the same producer gives
LEMMA AppendOrder ==
    ASSUME NEW s \in Seq(Item), NEW x \in Item, Ascending(s),
           \A y \in Elements(s) : y[1] = x[1] => y[2] < x[2]
    PROVE  Ascending(Append(s, x)) /\ Elements(Append(s, x)) = Elements(s) \cup {x}
<1> DEFINE t == Append(s, x)
           n == Len(s) + 1
<1>1. /\ Len(s) \in Nat /\ DOMAIN s = 1..Len(s) /\ DOMAIN t = 1..n /\ t[n] = x
      /\ \A i \in 1..Len(s) : t[i] = s[i]
  BY AppendProperties, LenProperties
<1> HIDE DEF t
<1>2. /\ \A i \in 1..n : i \in 1..Len(s) \/ i = n
      /\ \A i \in 1..Len(s) : i \in 1..n /\ i < n
      /\ n \in 1..n
  BY <1>1
<1> HIDE DEF n
<1>3. Elements(t) = Elements(s) \cup {x}
  <2>1. \A y : y \in Elements(t) => y \in Elements(s) \cup {x}
    BY <1>1, <1>2 DEF Elements
  <2>2. x \in Elements(t)
    BY <1>1, <1>2 DEF Elements
  <2>3. \A y : y \in Elements(s) => y \in Elements(t)
    BY <1>1, <1>2 DEF Elements
  <2>. QED BY <2>1, <2>2, <2>3
<1>4. ASSUME NEW i \in DOMAIN t, NEW j \in DOMAIN t, i < j, t[i][1] = t[j][1]
      PROVE  t[i][2] < t[j][2]
  <2>1. i \in 1..Len(s) /\ t[i] = s[i] /\ s[i] \in Elements(s)
    <3>1. i # n
      BY <1>1, <1>2, <1>4 DEF n
    <3>. QED BY <1>1, <1>2, <3>1 DEF Elements
  <2>2. CASE j \in 1..Len(s)
    BY <1>1, <1>4, <2>1, <2>2 DEF Ascending
  <2>3. CASE j = n
    BY <1>1, <1>4, <2>1, <2>3
  <2>. QED BY <1>1, <1>2, <2>2, <2>3
<1>. QED BY <1>3, <1>4 DEF t, Ascending

LEMMA PushChan ==
    ASSUME Inv, Inv', Chan, NEW p \in Producers, Push(p)
    PROVE  Chan' /\ Pool' = Pool \cup {<<p, pushed[p] + 1>>}
<1> DEFINE x == <<p, pushed[p] + 1>>
<1>1. /\ chunk' = [chunk EXCEPT ![p] = Append(chunk[p], x)]
      /\ pushed' = [pushed EXCEPT ![p] = pushed[p] + 1]
      /\ UNCHANGED <<chain, head, items, taken>> /\ pc[p] = "ready"
      /\ \E l \in {"link", "ready"} : pc' = [pc EXCEPT ![p] = l]
  BY DEF Push, Goto, fifo, elements
<1>2. TypeOK /\ x \in Item /\ chunk[p] \in Seq(Item) /\ pushed \in [Producers -> 0..N] /\ N \in Nat
  BY HeldItem, FifoSizes DEF Inv, TypeOK
<1>3. x[1] = p /\ x[2] = pushed[p] + 1
  OBVIOUS
<1> HIDE DEF x
<1>4. /\ \A q \in Producers : pushed[q] \in Nat /\ pushed'[q] \in Nat /\ pushed[q] <= pushed'[q]
      /\ pushed'[p] = pushed[p] + 1
  BY <1>1, <1>2
<1>5. /\ chunk'[p] = Append(chunk[p], x)
      /\ \A q \in Producers : q # p => chunk'[q] = chunk[q]
  BY <1>1, <1>2 DEF Inv, TypeOK
<1>6. Ascending(Append(chunk[p], x)) /\ Elements(Append(chunk[p], x)) = Elements(chunk[p]) \cup {x}
  <2>1. Ascending(chunk[p]) /\ \A y \in Elements(chunk[p]) : y[1] = p /\ y[2] <= pushed[p]
    BY DEF Chan, InOrder
  <2>2. \A y \in Elements(chunk[p]) : y[2] \in Nat
    BY <1>2, ItemFacts
  <2>3. \A y \in Elements(chunk[p]) : y[2] < x[2]
    BY <1>3, <1>4, <2>1, <2>2
  <2>. QED BY <1>2, <2>1, <2>3, AppendOrder
<1>7. \A q \in Producers : Elements(chunk'[q]) =
                               IF q = p THEN Elements(chunk[p]) \cup {x} ELSE Elements(chunk[q])
  BY <1>5, <1>6
<1>8. \A k \in 1..Len(chain) : There(k)' = There(k)
  BY <1>1 DEF There, Elements
<1>9. Pool' = Pool \cup {x}
  <2>1. Unlinked' = UNION {Elements(chunk'[q]) : q \in Producers}
    BY DEF Unlinked, Elements
  <2>2. UNION {Elements(chunk'[q]) : q \in Producers} = Unlinked \cup {x}
    <3>1. \A y : (\E q \in Producers : y \in Elements(chunk'[q]))
                     <=> (\E q \in Producers : y \in Elements(chunk[q])) \/ y = x
      BY <1>7
    <3>. QED BY <3>1 DEF Unlinked
  <2>3. UNION {There(k)' : k \in 1..Len(chain)} = UNION {There(k) : k \in 1..Len(chain)}
    BY <1>8
  <2>. QED BY <1>1, <2>1, <2>2, <2>3 DEF Pool
<1>10. InOrder'
  <2>1. ASSUME NEW k \in 1..Len(chain)
        PROVE  /\ Ascending(chain'[k].available)
               /\ \A y \in There(k)' : y[2] <= pushed'[y[1]]
    <3>1. \A y \in There(k) : y[2] <= pushed[y[1]] /\ y[1] \in Producers /\ y[2] \in Nat
      BY <1>2, ItemFacts DEF Chan, InOrder
    <3>2. \A n \in Nat, q \in Producers : n <= pushed[q] => n <= pushed'[q]
      BY <1>4
    <3>3. \A y \in There(k) : y[2] <= pushed'[y[1]]
      BY <3>1, <3>2
    <3>. QED BY <1>1, <1>8, <3>3 DEF Chan, InOrder
  <2>2. \A k, l \in 1..Len(chain) : k < l => Before(There(k)', There(l)')
    BY <1>8 DEF Chan, InOrder
  <2>3. ASSUME NEW q \in Producers
        PROVE  /\ Ascending(chunk'[q])
               /\ \A y \in Elements(chunk'[q]) : y[1] = q /\ y[2] <= pushed'[q]
               /\ \A k \in 1..Len(chain) : Before(There(k)', Elements(chunk'[q]))
    <3>1. CASE q = p
      <4>1. \A y \in Elements(chunk[p]) : y[1] = p /\ y[2] <= pushed[p] /\ y[2] \in Nat
        BY <1>2, ItemFacts DEF Chan, InOrder
      <4>2. \A y \in Elements(chunk'[p]) : y[1] = p /\ y[2] <= pushed'[p]
        BY <1>3, <1>4, <1>7, <4>1
      <4>3. ASSUME NEW k \in 1..Len(chain) PROVE Before(There(k)', Elements(chunk'[p]))
        <5>1. Before(There(k), Elements(chunk[p]))
          BY DEF Chan, InOrder
        <5>2. \A y \in There(k) : y[1] = p => y[2] < x[2]
          <6>1. \A y \in There(k) : y[2] <= pushed[y[1]] /\ y[2] \in Nat
            BY <1>2, ItemFacts DEF Chan, InOrder
          <6>. QED BY <1>3, <1>4, <6>1
        <5>. QED BY <1>3, <1>7, <1>8, <5>1, <5>2 DEF Before
      <4>. QED BY <1>5, <1>6, <3>1, <4>2, <4>3
    <3>2. CASE q # p
      <4>1. pushed'[q] = pushed[q]
        BY <1>1, <1>2, <3>2
      <4>. QED BY <1>5, <1>8, <3>2, <4>1 DEF Chan, InOrder
    <3>. QED BY <3>1, <3>2
  <2>4. \A q \in Producers : Elements(chunk[q])' = Elements(chunk'[q])
    BY DEF Elements
  <2>. QED BY <1>1, <2>1, <2>2, <2>3, <2>4 DEF InOrder
<1>11. Passed' /\ Holding'
  <2>1. \A c \in Consumers : pc'[c] = pc[c]
    BY <1>1, <1>2, ThreadFacts DEF TypeOK
  <2>. QED BY <1>1, <2>1 DEF Chan, Passed, Holding
<1>. QED BY <1>9, <1>10, <1>11 DEF Chan, x

\* The chunk that is linked is newer than the chain, and older than what p pushes after it.
LEMMA LinkChan ==
    ASSUME Inv, Inv', Chan, NEW p \in Producers, Link(p)
    PROVE  Chan' /\ Pool' = Pool
<1> DEFINE m == Kept(p)
           s == chunk[p]
           n == Len(Pieces(p))
           piece(i) == Elements(Pieces(p)[i].available)
<1>1. /\ chunk' = [chunk EXCEPT ![p] = <<>>] /\ UNCHANGED <<head, pushed, items, taken>>
      /\ \E l : pc' = [pc EXCEPT ![p] = l]
  BY DEF Link, Goto, elements
<1>2. TypeOK /\ TypeOK' /\ Len(chain) \in Nat /\ head \in 1..Len(chain)
  BY ChainFacts DEF Inv
<1>3. /\ s \in Seq(Item) /\ m \in 0..Len(s) /\ n \in {1, 2}
      /\ Pieces(p)[1].available = Front(m, s)
      /\ n = 1 => m = Len(s)
      /\ n = 2 => Pieces(p)[2].available = Rest(m, s)
  BY <1>2, PiecesFacts
<1>4. /\ Len(chain') = Len(chain) + n
      /\ \A k \in 1..Len(chain) : chain'[k].available = chain[k].available
      /\ \A i \in 1..n : chain'[Len(chain) + i] = Pieces(p)[i]
  BY <1>2, LinkFacts
<1>5. /\ chunk'[p] = <<>> /\ \A q \in Producers : q # p => chunk'[q] = chunk[q]
  BY <1>1, <1>2 DEF TypeOK
<1>6. /\ Ascending(s) /\ (\A x \in Elements(s) : x[1] = p /\ x[2] <= pushed[p])
      /\ \A k \in 1..Len(chain) : Before(There(k), Elements(s))
  BY DEF Chan, InOrder
<1>7. /\ Ascending(Front(m, s)) /\ Ascending(Rest(m, s))
      /\ Before(Elements(Front(m, s)), Elements(Rest(m, s)))
      /\ Elements(s) = Elements(Front(m, s)) \cup Elements(Rest(m, s))
  BY <1>3, <1>6, SplitOrder
<1>8. n = 1 => Elements(Rest(m, s)) = {}
  <2>1. m = Len(s) => Rest(m, s) = <<>>
    <3>1. Rest(m, s) \in Seq(Item) /\ Len(Rest(m, s)) = Len(s) - m /\ Len(s) \in Nat
      BY <1>3, SplitType, LenProperties
    <3>. QED BY <3>1, EmptySeq
  <2>. QED BY <1>3, <2>1, EmptyElements
<1>9. /\ \A i \in 1..n : Ascending(Pieces(p)[i].available) /\ piece(i) \subseteq Elements(s)
      /\ \A x : x \in Elements(s) <=> \E i \in 1..n : x \in piece(i)
      /\ \A i, j \in 1..n : i < j => Before(piece(i), piece(j))
  <2>1. CASE n = 1
    <3>1. piece(1) = Elements(s) /\ Ascending(Pieces(p)[1].available) /\ 1..n = {1}
      BY <1>3, <1>7, <1>8, <2>1
    <3>2. \A i \in 1..n : i = 1
      BY <3>1
    <3>. QED BY <3>1, <3>2
  <2>2. CASE n = 2
    <3>1. /\ piece(1) = Elements(Front(m, s)) /\ piece(2) = Elements(Rest(m, s))
          /\ Ascending(Pieces(p)[1].available) /\ Ascending(Pieces(p)[2].available)
      BY <1>3, <1>7, <2>2
    <3>2. 1 \in 1..n /\ 2 \in 1..n /\ \A i \in 1..n : i = 1 \/ i = 2
      BY <2>2
    <3> HIDE DEF piece, n
    <3>3. \A i \in 1..n : Ascending(Pieces(p)[i].available) /\ piece(i) \subseteq Elements(s)
      BY <1>7, <3>1, <3>2
    <3>4. \A x : x \in Elements(s) <=> \E i \in 1..n : x \in piece(i)
      BY <1>7, <3>1, <3>2
    <3>5. \A i, j \in 1..n : i < j => i = 1 /\ j = 2
      BY <3>2
    <3>6. \A i, j \in 1..n : i < j => Before(piece(i), piece(j))
      BY <1>7, <3>1, <3>5
    <3>. QED BY <3>3, <3>4, <3>6
  <2>. QED BY <1>3, <2>1, <2>2
<1> HIDE DEF s, m
<1>10. /\ \A k \in 1..Len(chain) : There(k)' = There(k)
       /\ \A q \in Producers : Elements(chunk[q])' = Elements(chunk'[q])
  <2>1. \A k \in 1..Len(chain) : There(k)' = There(k)
    BY <1>4 DEF There, Elements
  <2>2. \A q \in Producers : Elements(chunk[q])' = Elements(chunk'[q])
    BY DEF Elements
  <2>. QED BY <2>1, <2>2
<1>11. \A i \in 1..n : Elements(chain'[Len(chain) + i].available) = piece(i)
  BY <1>4
<1> HIDE DEF piece
<1>12. \A k \in 1..Len(chain') :
          \/ k \in 1..Len(chain) /\ There(k)' = There(k) /\ chain'[k].available = chain[k].available
          \/ \E i \in 1..n : /\ k = Len(chain) + i /\ There(k)' = piece(i)
                             /\ Ascending(chain'[k].available)
  <2> SUFFICES ASSUME NEW k \in 1..Len(chain'), k \notin 1..Len(chain)
               PROVE  \E i \in 1..n : /\ k = Len(chain) + i /\ There(k)' = piece(i)
                                      /\ Ascending(chain'[k].available)
    BY <1>4, <1>10
  <2>1. k - Len(chain) \in 1..n /\ k = Len(chain) + (k - Len(chain))
    BY <1>2, <1>3, <1>4
  <2>2. There(k)' = Elements(chain'[k].available)
    BY DEF There, Elements
  <2>. QED BY <1>4, <1>9, <1>11, <2>1, <2>2
<1>13. \A i \in 1..n : \E k \in 1..Len(chain') : There(k)' = piece(i)
  <2>1. \A i \in 1..n : Len(chain) + i \in 1..Len(chain')
    BY <1>2, <1>3, <1>4
  <2>2. \A k \in 1..Len(chain') : There(k)' = Elements(chain'[k].available)
    BY DEF There, Elements
  <2>3. ASSUME NEW i \in 1..n PROVE \E k \in 1..Len(chain') : There(k)' = piece(i)
    <3>1. \E k \in 1..Len(chain') : k = Len(chain) + i
      BY <2>1
    <3>. QED BY <1>11, <2>2, <3>1
  <2>. QED BY <2>3
<1>14. \A k \in 1..Len(chain) : k \in 1..Len(chain')
  BY <1>2, <1>3, <1>4
<1>15. Elements(chunk'[p]) = {} /\ Ascending(chunk'[p])
  BY <1>5, EmptyElements
<1>16. Pool' = Pool
  <2>1. ASSUME NEW x PROVE x \in Pool' <=> x \in Pool
    <3>1. x \in Pool' <=> \/ \E q \in Producers : x \in Elements(chunk'[q])
                          \/ \E k \in 1..Len(chain') : x \in There(k)'
      BY DEF Pool, Unlinked, Elements, There
    <3>2. (\E q \in Producers : x \in Elements(chunk'[q]))
              <=> \E q \in Producers : q # p /\ x \in Elements(chunk[q])
      BY <1>5, <1>15
    <3>3. (\E k \in 1..Len(chain') : x \in There(k)')
              <=> (\E k \in 1..Len(chain) : x \in There(k)) \/ x \in Elements(s)
      <4>1. (\E k \in 1..Len(chain') : x \in There(k)')
                => (\E k \in 1..Len(chain) : x \in There(k)) \/ (\E i \in 1..n : x \in piece(i))
        BY <1>12
      <4>2. (\E k \in 1..Len(chain) : x \in There(k)) => \E k \in 1..Len(chain') : x \in There(k)'
        BY <1>10, <1>14
      <4>3. (\E i \in 1..n : x \in piece(i)) => \E k \in 1..Len(chain') : x \in There(k)'
        BY <1>13
      <4>4. x \in Elements(s) <=> \E i \in 1..n : x \in piece(i)
        BY <1>9
      <4>. QED BY <4>1, <4>2, <4>3, <4>4
    <3>4. x \in Elements(s) <=> x \in Elements(chunk[p])
      BY DEF s
    <3>. QED BY <3>1, <3>2, <3>3, <3>4, PoolMember
  <2>. QED BY <2>1
<1>17. InOrder'
  <2>1. ASSUME NEW k \in 1..Len(chain')
        PROVE  Ascending(chain'[k].available) /\ \A x \in There(k)' : x[2] <= pushed'[x[1]]
    <3>1. CASE k \in 1..Len(chain) /\ There(k)' = There(k)
               /\ chain'[k].available = chain[k].available
      BY <1>1, <3>1 DEF Chan, InOrder
    <3>2. ASSUME NEW i \in 1..n, There(k)' = piece(i), Ascending(chain'[k].available)
          PROVE  Ascending(chain'[k].available) /\ \A x \in There(k)' : x[2] <= pushed'[x[1]]
      BY <1>1, <1>6, <1>9, <3>2
    <3>. QED BY <1>12, <3>1, <3>2
  <2>2. ASSUME NEW k \in 1..Len(chain'), NEW l \in 1..Len(chain'), k < l
        PROVE  Before(There(k)', There(l)')
    <3>1. CASE l \in 1..Len(chain)
      <4>1. k \in 1..Len(chain)
        BY <1>2, <2>2, <3>1
      <4>. QED BY <1>10, <2>2, <3>1, <4>1 DEF Chan, InOrder
    <3>2. CASE l \notin 1..Len(chain)
      <4>1. PICK j \in 1..n : l = Len(chain) + j /\ There(l)' = piece(j)
        BY <1>12, <3>2
      <4>2. CASE k \in 1..Len(chain)
        BY <1>6, <1>9, <1>10, <4>1, <4>2 DEF Before
      <4>3. CASE k \notin 1..Len(chain)
        <5>1. PICK i \in 1..n : k = Len(chain) + i /\ There(k)' = piece(i)
          BY <1>12, <4>3
        <5>2. i < j
          BY <1>2, <1>3, <2>2, <4>1, <5>1
        <5>. QED BY <1>9, <4>1, <5>1, <5>2
      <4>. QED BY <4>2, <4>3
    <3>. QED BY <3>1, <3>2
  <2>3. ASSUME NEW q \in Producers
        PROVE  /\ Ascending(chunk'[q])
               /\ \A x \in Elements(chunk'[q]) : x[1] = q /\ x[2] <= pushed'[q]
               /\ \A k \in 1..Len(chain') : Before(There(k)', Elements(chunk'[q]))
    <3>1. CASE q = p
      BY <1>15, <3>1 DEF Before
    <3>2. CASE q # p
      <4>1. /\ chunk'[q] = chunk[q] /\ Ascending(chunk[q])
            /\ \A x \in Elements(chunk[q]) : x[1] = q /\ x[2] <= pushed[q]
            /\ \A k \in 1..Len(chain) : Before(There(k), Elements(chunk[q]))
        BY <1>5, <3>2 DEF Chan, InOrder
      <4>2. ASSUME NEW k \in 1..Len(chain') PROVE Before(There(k)', Elements(chunk[q]))
        <5>1. CASE k \in 1..Len(chain)
          BY <1>10, <4>1, <5>1
        <5>2. CASE k \notin 1..Len(chain)
          <6>1. PICK i \in 1..n : There(k)' = piece(i)
            BY <1>12, <5>2
          <6>2. \A x \in piece(i) : x[1] = p
            BY <1>6, <1>9
          <6>. QED BY <3>2, <4>1, <6>1, <6>2 DEF Before
        <5>. QED BY <5>1, <5>2
      <4>. QED BY <1>1, <4>1, <4>2
    <3>. QED BY <3>1, <3>2
  <2>. QED BY <1>10, <2>1, <2>2, <2>3 DEF InOrder
<1>18. Passed'
  <2>1. \A k \in 1..head-1 : k \in 1..Len(chain)
    BY <1>2
  <2>. QED BY <1>1, <1>4, <2>1 DEF Chan, Passed
<1>19. Holding'
  <2>1. \A c \in Consumers : pc'[c] = pc[c]
    BY <1>1, <1>2, ThreadFacts DEF TypeOK
  <2>. QED BY <1>1, <2>1 DEF Chan, Holding
<1>. QED BY <1>16, <1>17, <1>18, <1>19 DEF Chan

\* The items that are not in the head, and which of them are behind it
Behind == Unlinked \cup UNION {There(k) : k \in (1..Len(chain)) \ {head}}

LEMMA HeadIsFirst ==
    ASSUME Inv, Chan
    PROVE  /\ Before(There(head), Behind) /\ Behind \in SUBSET Item
           /\ Pool = There(head) \cup Behind
<1>1. TypeOK /\ head \in 1..Len(chain) /\ Len(chain) \in Nat
  BY ChainFacts DEF Inv
<1>2. \A x : x \in Behind <=> \/ \E p \in Producers : x \in Elements(chunk[p])
                              \/ \E k \in 1..Len(chain) : k # head /\ x \in There(k)
  BY DEF Behind, Unlinked
<1>3. \A x \in Behind : x \in Item
  BY <1>1, <1>2, ItemFacts
<1>4. \A p \in Producers : Before(There(head), Elements(chunk[p]))
  BY <1>1 DEF Chan, InOrder
<1>5. ASSUME NEW k \in 1..Len(chain), k # head PROVE Before(There(head), There(k))
  <2>1. CASE k < head
    <3>1. chain[k].available = <<>>
      BY <1>1, <2>1 DEF Chan, Passed
    <3>2. There(k) = {}
      BY <3>1, EmptyElements DEF There
    <3>. QED BY <3>2 DEF Before
  <2>2. CASE k > head
    BY <1>1, <2>2 DEF Chan, InOrder
  <2>. QED BY <1>1, <1>5, <2>1, <2>2
<1>6. Before(There(head), Behind)
  BY <1>2, <1>4, <1>5 DEF Before
<1>7. \A x : x \in Pool <=> x \in There(head) \cup Behind
  BY <1>1, <1>2, PoolMember
<1>. QED BY <1>3, <1>6, <1>7

\* What pop takes from the head is a batch of the channel, or nothing.
LEMMA TakeChan ==
    ASSUME Inv, Inv', Chan, NEW c \in Consumers, Take(c)
    PROVE  /\ Chan'
           /\ \/ Pool' = Pool /\ items' = items
              \/ \E batch \in SUBSET Pool :
                    /\ batch # {}
                    /\ \A x \in batch, y \in Pool : Abstract!Older(y, x) => y \in batch
                    /\ Pool' = Pool \ batch
                    /\ \E s \in Abstract!Arrangements(batch) :
                          items' = [items EXCEPT ![c] = @ \o s]
<1> DEFINE s == chain[head].available
           n == Least(want[c], Len(s))
<1>1. /\ UNCHANGED <<head, chunk, pushed, taken>> /\ pc[c] = "take"
      /\ \E l \in {"return", "advance"} : pc' = [pc EXCEPT ![c] = l]
  BY DEF Take, Goto, producer
<1>2. TypeOK /\ head \in 1..Len(chain) /\ Len(chain) \in Nat /\ items[c] \in Seq(Item)
      /\ items \in [Consumers -> Seq(Item)]
  BY ChainFacts DEF Inv, TypeOK
<1>3. /\ s \in Seq(Item) /\ n \in 0..Len(s) /\ Len(s) \in Nat
      /\ Len(chain') = Len(chain) /\ chain'[head].available = Rest(n, s)
      /\ \A k \in 1..Len(chain) : k # head => chain'[k].available = chain[k].available
      /\ items' = [items EXCEPT ![c] = items[c] \o Front(n, s)]
  BY <1>2, TakeFacts, LenProperties
<1>4. /\ Ascending(s) /\ There(head) = Elements(s)
  BY <1>2 DEF Chan, InOrder, There
<1> HIDE DEF s, n
<1>5. Ascending(Rest(n, s)) /\ Elements(s) = Elements(Front(n, s)) \cup Elements(Rest(n, s))
  BY <1>3, <1>4, SplitOrder
<1>6. /\ There(head)' = Elements(Rest(n, s))
      /\ \A k \in 1..Len(chain) : k # head => There(k)' = There(k)
      /\ \A k \in 1..Len(chain) : There(k)' \subseteq There(k)
      /\ \A p \in Producers : Elements(chunk[p])' = Elements(chunk[p])
  <2>1. \A k : There(k)' = Elements(chain'[k].available)
    BY DEF There, Elements
  <2>2. \A k \in 1..Len(chain) : k # head => There(k)' = There(k)
    BY <1>3, <2>1 DEF There
  <2>3. There(head)' = Elements(Rest(n, s))
    <3>1. Elements(chain'[head].available) = Elements(Rest(n, s))
      BY <1>3
    <3>. QED BY <1>1, <3>1 DEF There, Elements
  <2>4. \A k \in 1..Len(chain) : k = head => There(k)' = Elements(Rest(n, s))
    BY <1>3, <2>1
  <2>5. \A p \in Producers : Elements(chunk[p])' = Elements(chunk[p])
    BY <1>1 DEF Elements
  <2>. QED BY <1>4, <1>5, <2>2, <2>3, <2>4, <2>5
<1>7. InOrder'
  <2>1. ASSUME NEW k \in 1..Len(chain)
        PROVE  Ascending(chain'[k].available) /\ \A x \in There(k)' : x[2] <= pushed'[x[1]]
    <3>1. Ascending(chain'[k].available)
      BY <1>3, <1>5 DEF Chan, InOrder
    <3>. QED BY <1>1, <1>6, <3>1 DEF Chan, InOrder
  <2>2. ASSUME NEW k \in 1..Len(chain), NEW l \in 1..Len(chain), k < l
        PROVE  Before(There(k)', There(l)')
    <3>1. Before(There(k), There(l))
      BY <2>2 DEF Chan, InOrder
    <3>. QED BY <1>6, <3>1 DEF Before
  <2>3. ASSUME NEW p \in Producers
        PROVE  /\ Ascending(chunk'[p])
               /\ \A x \in Elements(chunk[p])' : x[1] = p /\ x[2] <= pushed'[p]
               /\ \A k \in 1..Len(chain) : Before(There(k)', Elements(chunk[p])')
    <3>1. \A k \in 1..Len(chain) : Before(There(k), Elements(chunk[p]))
      BY DEF Chan, InOrder
    <3>. QED BY <1>1, <1>6, <3>1 DEF Chan, InOrder, Before
  <2>. QED BY <1>3, <2>1, <2>2, <2>3 DEF InOrder
<1>8. Passed'
  <2>1. \A k \in 1..head-1 : k \in 1..Len(chain) /\ k # head
    BY <1>2
  <2>. QED BY <1>1, <1>3, <2>1 DEF Chan, Passed
<1>9. Holding'
  <2>1. pc'[c] \in Reading
    BY <1>1, <1>2, ThreadFacts DEF TypeOK, Reading
  <2>2. \A d \in Consumers : d # c => pc'[d] = pc[d] /\ items'[d] = items[d]
    BY <1>1, <1>2, <1>3, ThreadFacts DEF TypeOK
  <2>. QED BY <2>1, <2>2 DEF Chan, Holding
<1>10. Pool' = Elements(Rest(n, s)) \cup Behind
  <2>1. Unlinked' = Unlinked
    BY <1>1 DEF Unlinked, Elements
  <2>2. \A x : x \in Pool' <=> x \in Unlinked' \/ \E k \in 1..Len(chain) : x \in There(k)'
    BY <1>3 DEF Pool
  <2>3. \A x : x \in Behind <=> x \in Unlinked \/ \E k \in 1..Len(chain) : k # head /\ x \in There(k)
    BY DEF Behind
  <2>4. \A k \in 1..Len(chain) :
            There(k)' = IF k = head THEN Elements(Rest(n, s)) ELSE There(k)
    <3>1. \A k : There(k)' = Elements(chain'[k].available)
      BY DEF There, Elements
    <3>2. \A k \in 1..Len(chain) : k = head => There(k)' = Elements(Rest(n, s))
      BY <1>3, <3>1
    <3>. QED BY <1>6, <3>2
  <2>. QED BY <1>2, <2>1, <2>2, <2>3, <2>4
<1>11. /\ Before(Elements(s), Behind) /\ Behind \in SUBSET Item
       /\ Pool = Elements(s) \cup Behind
  BY <1>4, HeadIsFirst
<1>12. CASE n = 0
  <2>1. Front(n, s) = <<>>
    <3>1. Front(n, s) \in Seq(Item) /\ Len(Front(n, s)) = 0
      BY <1>3, <1>12, SplitType
    <3>. QED BY <3>1, EmptySeq
  <2>2. items' = items
    BY <1>2, <1>3, <2>1, ConcatEmptySeq
  <2>3. Pool' = Pool
    BY <1>5, <1>10, <1>11, <2>1, EmptyElements
  <2>. QED BY <1>7, <1>8, <1>9, <2>2, <2>3 DEF Chan
<1>13. CASE n # 0
  <2> DEFINE batch == Elements(Front(n, s))
  <2>1. n \in 1..Len(s)
    BY <1>3, <1>13
  <2>2. /\ batch # {} /\ batch \subseteq Pool
        /\ \A x \in batch, y \in Pool : Abstract!Older(y, x) => y \in batch
        /\ Elements(Rest(n, s)) \cup Behind = Pool \ batch
        /\ Front(n, s) \in Abstract!Arrangements(batch)
    BY <1>3, <1>4, <1>11, <2>1, ClaimableBatch
  <2> HIDE DEF batch
  <2>3. \E f \in Abstract!Arrangements(batch) : items' = [items EXCEPT ![c] = @ \o f]
    BY <1>3, <2>2
  <2>. QED BY <1>7, <1>8, <1>9, <1>10, <2>2, <2>3 DEF Chan
<1>. QED BY <1>12, <1>13

\* The variables of the channel, in the terms above
LEMMA ChannelVars ==
    ASSUME TypeOK, TypeOK'
    PROVE  /\ Abstract!vars = <<pushed, Pool, items, taken, Closed, Ended>>
           /\ Abstract!vars' = <<pushed', Pool', items', taken', Closed', Ended'>>
<1>1. Abstract!vars = <<pushed, Pool, items, taken, Closed, Ended>>
  BY PoolIsAbstract DEF Abstract!vars, Closed, Ended
<1>2. Abstract!vars' = <<pushed', Pool', items', taken', Closed', Ended'>>
  BY PoolIsAbstractNext DEF Abstract!vars, Closed, Ended, Elements
<1>. QED BY <1>1, <1>2

LEMMA QuietProducer ==
    ASSUME Inv, Inv', Chan, NEW p \in Producers, NEW l, pc' = [pc EXCEPT ![p] = l],
           UNCHANGED <<chain, head, chunk, pushed, items, taken>>,
           l \in {"last", "done"} <=> pc[p] \in {"last", "done"}
    PROVE  Chan' /\ UNCHANGED Abstract!vars
<1>0. TypeOK /\ TypeOK'
  BY DEF Inv
<1>1. TypeOK /\ TypeOK' /\ \A c \in Consumers : pc'[c] = pc[c]
  <2>1. pc \in [Threads -> ProducerLabel \cup ConsumerLabel]
    BY <1>0 DEF TypeOK
  <2>. QED BY <1>0, <2>1, ThreadFacts
<1>2. \A q \in Producers : pc'[q] \in {"last", "done"} <=> pc[q] \in {"last", "done"}
  BY <1>1, ThreadFacts DEF TypeOK
<1>3. Chan' /\ Pool' = Pool
  BY <1>1, QuietStep
<1>4. Closed' = Closed /\ Ended' = Ended
  BY <1>1, <1>2 DEF Closed, Ended
<1>. QED BY <1>1, <1>3, <1>4, ChannelVars

LEMMA QuietConsumer ==
    ASSUME Inv, Inv', Chan, NEW c \in Consumers, NEW l, pc' = [pc EXCEPT ![c] = l],
           Len(chain') = Len(chain),
           \A k \in 1..Len(chain) : chain'[k].available = chain[k].available,
           UNCHANGED <<chunk, pushed, items, taken>>,
           head' = head \/ (head' = head + 1 /\ HeadEmpty),
           l \notin Reading /\ pc[c] \in Reading => items[c] = <<>>
    PROVE  /\ Chan' /\ Pool' = Pool /\ Closed' = Closed
           /\ (l = "done" <=> pc[c] = "done") => UNCHANGED Abstract!vars
           /\ l = "done" => Ended' = Ended \cup {c}
<1>0. TypeOK /\ TypeOK'
  BY DEF Inv
<1>1. TypeOK /\ TypeOK' /\ \A p \in Producers : pc'[p] = pc[p]
  <2>1. pc \in [Threads -> ProducerLabel \cup ConsumerLabel]
    BY <1>0 DEF TypeOK
  <2>. QED BY <1>0, <2>1, ThreadFacts
<1>2. pc'[c] = l /\ \A d \in Consumers : d # c => pc'[d] = pc[d]
  BY <1>1, ThreadFacts DEF TypeOK
<1>3. \A d \in Consumers : pc'[d] \notin Reading /\ pc[d] \in Reading => items[d] = <<>>
  BY <1>2
<1>4. Chan' /\ Pool' = Pool
  BY <1>1, <1>3, QuietStep
<1>5. Closed' = Closed
  BY <1>1 DEF Closed
<1>6. l = "done" => Ended' = Ended \cup {c}
  BY <1>2 DEF Ended
<1>7. (l = "done" <=> pc[c] = "done") => Ended' = Ended
  BY <1>2 DEF Ended
<1>. QED BY <1>1, <1>4, <1>5, <1>6, <1>7, ChannelVars

\* The steps of a consumer that move no item and tell no end
LEMMA QuietPop ==
    ASSUME Inv, Inv', Chan, NEW c \in Consumers, NEW l, pc' = [pc EXCEPT ![c] = l],
           l # "done", pc[c] # "done",
           Len(chain') = Len(chain),
           \A k \in 1..Len(chain) : chain'[k].available = chain[k].available,
           chunk' = chunk, pushed' = pushed, items' = items, taken' = taken,
           head' = head \/ (head' = head + 1 /\ HeadEmpty),
           l \in Reading \/ pc[c] \notin Reading \/ items[c] = <<>>
    PROVE  Chan' /\ [Abstract!Next]_Abstract!vars
BY QuietConsumer

LEMMA ProducerRefines ==
    ASSUME Inv, Inv', Chan, NEW p \in Producers, Producing(p)
    PROVE  Chan' /\ [Abstract!Next]_Abstract!vars
<1>1. TypeOK /\ TypeOK' /\ p \in Threads
  BY ThreadFacts DEF Inv
<1>2. CASE Push(p)
  <2>1. Chan' /\ Pool' = Pool \cup {<<p, pushed[p] + 1>>}
    BY <1>2, PushChan
  <2>2. /\ pushed[p] < N /\ pushed' = [pushed EXCEPT ![p] = @ + 1] /\ pc[p] = "ready"
        /\ UNCHANGED <<items, taken>> /\ \E l \in {"link", "ready"} : pc' = [pc EXCEPT ![p] = l]
    BY <1>2 DEF Push, Goto, elements
  <2>3. PICK l \in {"link", "ready"} : pc' = [pc EXCEPT ![p] = l]
    BY <2>2
  <2>4. /\ pc'[p] \in {"link", "ready"} /\ \A q \in Producers : q # p => pc'[q] = pc[q]
        /\ \A c \in Consumers : pc'[c] = pc[c]
    BY <1>1, <2>3, ThreadFacts DEF TypeOK
  <2>5. Closed' = Closed /\ Ended' = Ended /\ p \notin Closed
    BY <2>2, <2>4 DEF Closed, Ended
  <2>6. Abstract!Send(p)
    <3>1. /\ pushed' = [pushed EXCEPT ![p] = @ + 1] /\ p \notin Closed /\ pushed[p] < N
          /\ Pool' = Pool \cup {<<p, pushed[p] + 1>>} /\ UNCHANGED <<items, taken, Closed, Ended>>
      BY <2>1, <2>2, <2>5
    <3>. QED BY <1>1, <3>1, PoolIsAbstract, PoolIsAbstractNext
         DEF Abstract!Send, Closed, Ended, Elements
  <2>. QED BY <2>1, <2>6 DEF Abstract!Next
<1>3. CASE Link(p)
  <2>1. Chan' /\ Pool' = Pool
    BY <1>3, LinkChan
  <2>2. /\ pc[p] \in {"link", "linklast"} /\ pc' = [pc EXCEPT ![p] = AfterLink[pc[p]]]
        /\ UNCHANGED <<pushed, items, taken>> /\ AfterLink[pc[p]] \in {"tail", "taillast"}
    BY <1>3 DEF Link, Goto, elements, AfterLink
  <2>3. /\ pc'[p] \in {"tail", "taillast"} /\ \A q \in Producers : q # p => pc'[q] = pc[q]
        /\ \A c \in Consumers : pc'[c] = pc[c]
    BY <1>1, <2>2, ThreadFacts DEF TypeOK
  <2>4. Closed' = Closed /\ Ended' = Ended
    BY <2>2, <2>3 DEF Closed, Ended
  <2>. QED BY <1>1, <2>1, <2>2, <2>4, ChannelVars
<1>4. CASE Finish(p)
  <2>1. /\ UNCHANGED <<chain, head, chunk, pushed, items, taken>> /\ pc[p] = "finish"
        /\ pc' = [pc EXCEPT ![p] = "last"]
    BY <1>4 DEF Finish, Goto, producer, elements
  <2>2. /\ pc'[p] = "last" /\ \A q \in Producers : q # p => pc'[q] = pc[q]
        /\ \A c \in Consumers : pc'[c] = pc[c]
    BY <1>1, <2>1, ThreadFacts DEF TypeOK
  <2>3. Chan' /\ Pool' = Pool
    BY <1>1, <2>1, <2>2, QuietStep
  <2>4. Closed' = Closed \cup {p} /\ p \notin Closed /\ Ended' = Ended
    BY <2>1, <2>2 DEF Closed, Ended
  <2>5. Abstract!Close(p)
    BY <1>1, <2>1, <2>3, <2>4, PoolIsAbstract, PoolIsAbstractNext
    DEF Abstract!Close, Closed, Ended, Elements
  <2>. QED BY <2>3, <2>5 DEF Abstract!Next
<1>5. CASE PushImmediate(p) \/ Terminate(p) \/ MoveTail(p) \/ Post(p) \/ Last(p)
  <2>1. UNCHANGED <<chain, head, chunk, pushed, items, taken>>
    BY <1>5 DEF PushImmediate, Terminate, MoveTail, Post, Last, fifo, producer, elements
  <2>2. CASE PushImmediate(p)
    <3>1. pc[p] = "ready" /\ pc' = [pc EXCEPT ![p] = "link"]
      BY <2>2 DEF PushImmediate, Goto
    <3>. QED BY <2>1, <3>1, QuietProducer
  <2>3. CASE Terminate(p)
    <3>1. pc[p] = "ready" /\ pc' = [pc EXCEPT ![p] = "linklast"]
      BY <2>3 DEF Terminate, Goto
    <3>. QED BY <2>1, <3>1, QuietProducer
  <2>4. CASE MoveTail(p)
    <3>1. pc[p] \in {"tail", "taillast"} /\ pc' = [pc EXCEPT ![p] = AfterTail[pc[p]]]
      BY <2>4 DEF MoveTail, Goto
    <3>2. AfterTail[pc[p]] \in {"post", "postlast"}
      BY <3>1 DEF AfterTail
    <3>. QED BY <2>1, <3>1, <3>2, QuietProducer
  <2>5. CASE Post(p)
    <3>1. pc[p] \in {"post", "postlast"} /\ pc' = [pc EXCEPT ![p] = AfterPost[pc[p]]]
      BY <2>5 DEF Post, Goto
    <3>2. AfterPost[pc[p]] \in {"ready", "finish"}
      BY <3>1 DEF AfterPost
    <3>. QED BY <2>1, <3>1, <3>2, QuietProducer
  <2>6. CASE Last(p)
    <3>1. pc[p] = "last" /\ pc' = [pc EXCEPT ![p] = "done"]
      BY <2>6 DEF Last, Goto
    <3>. QED BY <2>1, <3>1, QuietProducer
  <2>. QED BY <1>5, <2>2, <2>3, <2>4, <2>5, <2>6
<1>. QED BY <1>2, <1>3, <1>4, <1>5 DEF Producing

\* Moving _head: only an empty chunk with a next one is left behind.
LEMMA HeadMoves ==
    ASSUME Inv, MoveHead, HeadEmpty, chain[head].next
    PROVE  /\ Len(chain') = Len(chain) /\ head' = head + 1
           /\ \A k \in 1..Len(chain) : chain'[k].available = chain[k].available
<1>1. TypeOK /\ head \in 1..Len(chain) /\ Len(chain) \in Nat
  BY ChainFacts DEF Inv
<1>2. head < Len(chain)
  BY <1>1 DEF Inv, Linked
<1>. QED BY <1>1, <1>2, MoveHeadFacts

LEMMA ReadRefines ==
    ASSUME Inv, Inv', Chan, NEW c \in Consumers, Read(c)
    PROVE  Chan' /\ Abstract!Receive(c)
<1>1. TypeOK /\ TypeOK' /\ items \in [Consumers -> Seq(Item)]
  BY DEF Inv, TypeOK
<1>2. /\ UNCHANGED <<chain, head, chunk, pushed, pc>> /\ pc[c] = "ready" /\ items[c] # <<>>
      /\ items' = [items EXCEPT ![c] = Tail(@)]
      /\ taken' = [taken EXCEPT ![c] = Append(@, Head(items[c]))]
  BY DEF Read, fifo, producer
<1>3. InOrder'
  BY <1>2 DEF Chan, InOrder, There, Elements
<1>4. Passed'
  BY <1>2 DEF Chan, Passed
<1>5. Holding'
  <2>1. \A d \in Consumers : d # c => items'[d] = items[d]
    BY <1>1, <1>2
  <2>. QED BY <1>2, <2>1 DEF Chan, Holding, Reading
<1>6. Pool' = Pool
  BY <1>2 DEF Pool, Unlinked, There, Elements
<1>7. Closed' = Closed /\ Ended' = Ended
  BY <1>2 DEF Closed, Ended
<1>8. Abstract!Receive(c)
  BY <1>1, <1>2, <1>6, <1>7, PoolIsAbstract, PoolIsAbstractNext
  DEF Abstract!Receive, Closed, Ended, Elements
<1>. QED BY <1>3, <1>4, <1>5, <1>8 DEF Chan

\* The end is told when all producers are counted and _head is the last chunk and empty.
LEMMA DrainRefines ==
    ASSUME Inv, Inv', Chan, NEW c \in Consumers, Drain(c)
    PROVE  Chan' /\ [Abstract!Next]_Abstract!vars
<1>1. TypeOK /\ TypeOK' /\ head \in 1..Len(chain) /\ Len(chain) \in Nat
  BY ChainFacts DEF Inv
<1>2. pc[c] = "left" /\ UNCHANGED <<chunk, pushed, items, taken>>
  BY DEF Drain, producer
<1>3. CASE chain[head].available # <<>>
  <2>1. UNCHANGED <<chain, head>> /\ pc' = [pc EXCEPT ![c] = "take"]
    BY <1>3 DEF Drain, Goto, Exhausted
  <2>. QED BY <1>2, <2>1, QuietPop DEF Reading
<1>4. CASE HeadEmpty /\ chain[head].next
  <2>1. MoveHead /\ pc' = [pc EXCEPT ![c] = "drain"]
    BY <1>4 DEF Drain, Goto, Exhausted, HeadEmpty
  <2>2. /\ Len(chain') = Len(chain) /\ head' = head + 1
        /\ \A k \in 1..Len(chain) : chain'[k].available = chain[k].available
    BY <1>4, <2>1, HeadMoves
  <2>. QED BY <1>2, <1>4, <2>1, <2>2, QuietPop DEF Reading
<1>5. CASE HeadEmpty /\ ~chain[head].next
  <2>1. UNCHANGED <<chain, head>> /\ pc' = [pc EXCEPT ![c] = "done"]
    BY <1>5 DEF Drain, Goto, HeadEmpty
  <2>2. Chan' /\ Pool' = Pool /\ Closed' = Closed /\ Ended' = Ended \cup {c}
    BY <1>2, <2>1, QuietConsumer DEF Reading
  <2>3. \A p \in Producers : pc[p] \in {"last", "done"}
    BY <1>2, AllGone DEF Inv, Looks
  <2>4. \A p \in Producers : chunk[p] = <<>>
    BY <2>3 DEF Inv, Announced
  <2>5. head = Len(chain)
    BY <1>1, <1>5 DEF Inv, Linked
  <2>6. \A k \in 1..Len(chain) : chain[k].available = <<>>
    BY <1>1, <1>5, <2>5 DEF Chan, Passed, HeadEmpty
  <2>7. Pool = {}
    BY <2>4, <2>6, PoolMember, EmptyElements DEF There
  <2>8. /\ Closed = Producers /\ c \notin Ended /\ items[c] = <<>>
    BY <1>2, <2>3 DEF Closed, Ended, Chan, Holding, Reading
  <2>9. Abstract!End(c)
    BY <1>1, <1>2, <2>2, <2>7, <2>8, PoolIsAbstract, PoolIsAbstractNext
    DEF Abstract!End, Closed, Ended, Elements
  <2>. QED BY <2>2, <2>9 DEF Abstract!Next
<1>. QED BY <1>1, <1>3, <1>4, <1>5, ChainFacts DEF HeadEmpty

LEMMA TakeRefines ==
    ASSUME Inv, Inv', Chan, NEW c \in Consumers, Take(c)
    PROVE  Chan' /\ [Abstract!Next]_Abstract!vars
<1>1. TypeOK /\ TypeOK' /\ pc \in [Threads -> ProducerLabel \cup ConsumerLabel]
  BY DEF Inv, TypeOK
<1>2. UNCHANGED <<pushed, taken>> /\ pc[c] = "take"
      /\ \E l \in {"return", "advance"} : pc' = [pc EXCEPT ![c] = l]
  BY DEF Take, Goto, producer
<1>3. /\ pc'[c] \in {"return", "advance"} /\ \A p \in Producers : pc'[p] = pc[p]
      /\ \A d \in Consumers : d # c => pc'[d] = pc[d]
  BY <1>1, <1>2, ThreadFacts
<1>4. Closed' = Closed /\ Ended' = Ended
  BY <1>2, <1>3 DEF Closed, Ended
<1>5. CASE Pool' = Pool /\ items' = items
  BY <1>1, <1>2, <1>4, <1>5, TakeChan, ChannelVars
<1>6. ASSUME NEW batch \in SUBSET Pool, batch # {},
             \A x \in batch, y \in Pool : Abstract!Older(y, x) => y \in batch,
             Pool' = Pool \ batch,
             \E s \in Abstract!Arrangements(batch) : items' = [items EXCEPT ![c] = @ \o s]
      PROVE  Abstract!Next
  <2>1. Abstract!Claim(c, batch)
    BY <1>1, <1>2, <1>4, <1>6, PoolIsAbstract, PoolIsAbstractNext
    DEF Abstract!Claim, Closed, Ended, Elements
  <2>. QED BY <1>1, <2>1, PoolIsAbstract DEF Abstract!Next
<1>. QED BY <1>5, <1>6, TakeChan

LEMMA ConsumerRefines ==
    ASSUME Inv, Inv', Chan, NEW c \in Consumers, Consuming(c)
    PROVE  Chan' /\ [Abstract!Next]_Abstract!vars
<1>1. TypeOK /\ head \in 1..Len(chain) /\ Len(chain) \in Nat
  BY ChainFacts DEF Inv
<1>2. CASE Read(c)
  BY <1>2, ReadRefines DEF Abstract!Next
<1>3. CASE Prepare(c)
  <2>1. /\ pc[c] \in {"ready", "retry"} /\ pc' = [pc EXCEPT ![c] = "lock"] /\ items[c] = <<>>
        /\ chain' = Destroyed(ranges[c])
        /\ UNCHANGED <<head, chunk, pushed, items, taken>>
    BY <1>3 DEF Prepare, Goto, producer, elements
  <2>2. ranges[c] \in Seq(Nat)
    BY <1>1 DEF TypeOK
  <2>3. /\ Len(chain') = Len(chain)
        /\ \A k \in 1..Len(chain) : chain'[k].available = chain[k].available
    BY <1>1, <2>1, <2>2, DestroyedFacts
  <2>. QED BY <2>1, <2>3, QuietPop DEF Reading
<1>4. CASE Lock(c)
  <2>1. /\ pc[c] = "lock" /\ pc' = [pc EXCEPT ![c] = "empty"]
        /\ UNCHANGED <<chain, head, chunk, pushed, items, taken>>
    BY <1>4 DEF Lock, Goto, fifo, producer, elements
  <2>. QED BY <2>1, QuietPop DEF Reading
<1>5. CASE Timeout(c)
  <2>1. /\ pc[c] \in {"lock", "wait"} /\ pc' = [pc EXCEPT ![c] = "retry"]
        /\ UNCHANGED <<chain, head, chunk, pushed, items, taken>>
    BY <1>5 DEF Timeout, Goto, fifo, producer, elements
  <2>. QED BY <2>1, QuietPop DEF Reading
<1>6. CASE TestEmpty(c)
  <2>1. /\ pc[c] = "empty"
        /\ UNCHANGED <<chain, head, chunk, pushed, items, taken>>
    BY <1>6 DEF TestEmpty, fifo, producer, elements
  <2>2. PICK l \in {"terminated", "drain"} : pc' = [pc EXCEPT ![c] = l]
    BY <1>6 DEF TestEmpty, Goto
  <2>. QED BY <2>1, <2>2, QuietPop DEF Reading
<1>7. CASE TestTerminated(c)
  <2>1. pc[c] = "terminated" /\ UNCHANGED <<chunk, pushed, items, taken>>
    BY <1>7 DEF TestTerminated, producer, elements
  <2>2. HeadEmpty /\ (hasNext[c] => chain[head].next)
    BY <2>1 DEF Inv, Looks
  <2>3. PICK l \in {"drain", "empty", "wait"} : pc' = [pc EXCEPT ![c] = l]
    BY <1>7 DEF TestTerminated, Goto
  <2>4. UNCHANGED <<chain, head>> \/ (MoveHead /\ hasNext[c])
    BY <1>7 DEF TestTerminated
  <2>5. /\ Len(chain') = Len(chain) /\ (head' = head \/ head' = head + 1)
        /\ \A k \in 1..Len(chain) : chain'[k].available = chain[k].available
    BY <2>2, <2>4, HeadMoves
  <2>. QED BY <2>1, <2>2, <2>3, <2>5, QuietPop DEF Reading
<1>8. CASE Wait(c)
  <2>1. /\ pc[c] = "wait" /\ pc' = [pc EXCEPT ![c] = "empty"]
        /\ UNCHANGED <<chain, head, chunk, pushed, items, taken>>
    BY <1>8 DEF Wait, Goto, producer, elements
  <2>. QED BY <2>1, QuietPop DEF Reading
<1>9. CASE TestDrain(c)
  <2>1. /\ pc[c] = "drain"
        /\ UNCHANGED <<chain, head, chunk, pushed, items, taken>>
    BY <1>9 DEF TestDrain, fifo, producer, elements
  <2>2. PICK l \in {"left", "take"} : pc' = [pc EXCEPT ![c] = l]
    BY <1>9 DEF TestDrain, Goto
  <2>. QED BY <2>1, <2>2, QuietPop DEF Reading
<1>10. CASE Drain(c)
  BY <1>10, DrainRefines
<1>11. CASE Take(c)
  BY <1>11, TakeRefines
<1>12. CASE Advance(c)
  <2>1. pc[c] = "advance" /\ UNCHANGED <<chunk, pushed, items, taken>>
    BY <1>12 DEF Advance, producer, elements
  <2>2. HeadEmpty /\ chain[head].next
    BY <2>1 DEF Inv, Looks
  <2>3. PICK l \in {"return", "take"} : pc' = [pc EXCEPT ![c] = l]
    BY <1>12 DEF Advance, Goto
  <2>4. UNCHANGED <<chain, head>> \/ MoveHead
    BY <1>12 DEF Advance
  <2>5. /\ Len(chain') = Len(chain) /\ (head' = head \/ head' = head + 1)
        /\ \A k \in 1..Len(chain) : chain'[k].available = chain[k].available
    BY <2>2, <2>4, HeadMoves
  <2>. QED BY <2>1, <2>2, <2>3, <2>5, QuietPop DEF Reading
<1>13. CASE Return(c)
  <2>1. /\ pc[c] = "return" /\ pc' = [pc EXCEPT ![c] = "ready"]
        /\ UNCHANGED <<chain, head, chunk, pushed, items, taken>>
    BY <1>13 DEF Return, Goto, fifo, producer
  <2>. QED BY <2>1, QuietPop DEF Reading
<1>. QED BY <1>2, <1>3, <1>4, <1>5, <1>6, <1>7, <1>8, <1>9, <1>10, <1>11, <1>12, <1>13
         DEF Consuming

LEMMA InitChan == Init => Chan /\ Abstract!Init
<1>1. SUFFICES ASSUME Init PROVE Chan /\ Abstract!Init
  OBVIOUS
<1>2. /\ Len(chain) = 1 /\ chain[1].available = <<>> /\ head = 1 /\ DOMAIN chain = {1}
      /\ \A p \in Producers : chunk[p] = <<>> /\ pushed[p] = 0
      /\ \A c \in Consumers : items[c] = <<>>
  BY <1>1 DEF Init, Chunk
<1>3. /\ \A k \in 1..Len(chain) : There(k) = {} /\ Ascending(chain[k].available)
      /\ \A p \in Producers : Elements(chunk[p]) = {} /\ Ascending(chunk[p])
  BY <1>2, EmptyElements DEF There
<1>4. Chan
  <2>1. InOrder
    BY <1>2, <1>3 DEF InOrder, Before
  <2>2. Passed /\ Holding
    BY <1>2 DEF Passed, Holding
  <2>. QED BY <2>1, <2>2 DEF Chan
<1>5. Pool = {}
  BY <1>3, PoolMember
<1>6. \A t \in Threads : pc[t] = "ready"
  BY <1>1 DEF Init
<1>7. Closed = {} /\ Ended = {}
  BY <1>6, ThreadFacts DEF Closed, Ended
<1>8. TypeOK
  BY <1>1, InitInv DEF Inv
<1>9. Abstract!Init
  BY <1>1, <1>5, <1>7, <1>8, PoolIsAbstract DEF Init, Abstract!Init, Closed, Ended
<1>. QED BY <1>4, <1>9

LEMMA NextChan ==
    ASSUME Inv, Inv', Chan, [Next]_vars
    PROVE  Chan' /\ [Abstract!Next]_Abstract!vars
<1>1. CASE UNCHANGED vars
  <2>1. UNCHANGED <<chain, head, chunk, pushed, items, taken, pc>>
    BY <1>1 DEF vars, fifo, producer, elements
  <2>2. Chan'
    BY <2>1 DEF Chan, InOrder, Passed, Holding, There, Elements
  <2>3. UNCHANGED Abstract!vars
    BY <2>1 DEF Abstract!vars, Elements
  <2>. QED BY <2>2, <2>3
<1>2. ASSUME NEW p \in Producers, Producing(p) PROVE Chan' /\ [Abstract!Next]_Abstract!vars
  BY <1>2, ProducerRefines
<1>3. ASSUME NEW c \in Consumers, Consuming(c) PROVE Chan' /\ [Abstract!Next]_Abstract!vars
  BY <1>3, ConsumerRefines
<1>. QED BY <1>1, <1>2, <1>3 DEF Next, Over

\* The smart FIFO implements the channel: whatever the steps, the timeouts and the moment a chunk
\* is linked, no item is lost, duplicated or overtaken by a later one of its producer, and the
\* end is told when all is taken (smart_fifo.h: push, push_chunk, pop, terminate_producer).
THEOREM SmartFifoImplementsChannel == Spec => ImplementsChannel
<1>1. Init => Inv
  BY InitInv
<1>2. Inv /\ [Next]_vars => Inv'
  BY NextInv
<1>3. Init => Chan /\ Abstract!Init
  BY InitChan
<1>4. Inv /\ Inv' /\ Chan /\ [Next]_vars => Chan' /\ [Abstract!Next]_Abstract!vars
  BY NextChan
<1>. QED BY <1>1, <1>2, <1>3, <1>4, PTL DEF Spec, ImplementsChannel, Abstract!Spec
==================================================================================
