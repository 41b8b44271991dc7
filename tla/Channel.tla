--------------------------------- MODULE Channel ---------------------------------
(***************************************************************************)
(* What the queues promise to the threads that use them: a channel from    *)
(* producers to consumers.  Every item sent is received by exactly one     *)
(* consumer; one consumer receives the items of one producer in the order  *)
(* they were sent; the end of the stream is reported only when every       *)
(* producer has closed and no item is left for anyone to claim.            *)
(* The batching, the buffers or chunks, their reconfiguration and how      *)
(* threads wait for each other are all invisible here.                     *)
(***************************************************************************)
EXTENDS Naturals, Sequences, FiniteSets

CONSTANTS Producers, Consumers,
          N                      \* items a producer sends at most

VARIABLES sent,                  \* how many items each producer has sent
          pool,                  \* the items no consumer has claimed
          claimed,               \* what each consumer holds, next item first
          received,              \* what each consumer has received
          closed,                \* producers that will send no more
          ended                  \* consumers told that the stream is over

vars == <<sent, pool, claimed, received, closed, ended>>

Item == Producers \X (1..N)

Init == /\ sent = [p \in Producers |-> 0]
        /\ pool = {}
        /\ claimed = [c \in Consumers |-> <<>>]
        /\ received = [c \in Consumers |-> <<>>]
        /\ closed = {}
        /\ ended = {}

Send(p) == /\ p \notin closed
           /\ sent[p] < N
           /\ sent' = [sent EXCEPT ![p] = @ + 1]
           /\ pool' = pool \cup {<<p, sent[p] + 1>>}
           /\ UNCHANGED <<claimed, received, closed, ended>>

Close(p) == /\ p \notin closed
            /\ closed' = closed \cup {p}
            /\ UNCHANGED <<sent, pool, claimed, received, ended>>

Older(x, y) == x[1] = y[1] /\ x[2] < y[2]

\* Orders in which a batch can be claimed: the items of a producer keep theirs.
Arrangements(batch) ==
    {s \in [1..Cardinality(batch) -> batch] :
        \A i, j \in DOMAIN s : i < j => s[i] # s[j] /\ ~Older(s[j], s[i])}

\* A consumer may claim more before it has received what it holds.
Claim(c, batch) ==
    /\ batch # {}
    /\ \A x \in batch, y \in pool : Older(y, x) => y \in batch
    /\ pool' = pool \ batch
    /\ \E s \in Arrangements(batch) : claimed' = [claimed EXCEPT ![c] = @ \o s]
    /\ UNCHANGED <<sent, received, closed, ended>>

Receive(c) == /\ claimed[c] # <<>>
              /\ received' = [received EXCEPT ![c] = Append(@, Head(claimed[c]))]
              /\ claimed' = [claimed EXCEPT ![c] = Tail(@)]
              /\ UNCHANGED <<sent, pool, closed, ended>>

End(c) == /\ c \notin ended
          /\ closed = Producers
          /\ pool = {}
          /\ claimed[c] = <<>>
          /\ ended' = ended \cup {c}
          /\ UNCHANGED <<sent, pool, claimed, received, closed>>

Next == \/ \E p \in Producers : Send(p) \/ Close(p)
        \/ \E c \in Consumers : \/ \E batch \in SUBSET pool : Claim(c, batch)
                                \/ Receive(c)
                                \/ End(c)

Spec == Init /\ [][Next]_vars
==================================================================================
