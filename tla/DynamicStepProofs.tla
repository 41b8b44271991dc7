-------------------------- MODULE DynamicStepProofs --------------------------
(***************************************************************************)
(* For any number of values, any steps and any calls of set_step: a        *)
(* published index is never ahead of the values stored, and it is never    *)
(* taken back unless the promise is in the mode whose set_step publishes   *)
(* without the lock.                                                       *)
(***************************************************************************)
EXTENDS DynamicStep, TLAPS

(***************************************************************************)
(* The inductive invariant.  What is stored goes up to next, or to the     *)
(* index before it as long as the producer has not stored that value; no   *)
(* index the promise or a caller holds is above it.  With unblock, current *)
(* is the bound of what set and set_step publish.                          *)
(***************************************************************************)
Storing == {"index", "load", "decide", "immediate", "store"}
LastStored == IF pc[Producer] \in Storing THEN next ELSE next - 1

StoredInOrder ==
    /\ values = 0 .. LastStored
    /\ pc[Producer] \in Storing => next <= Last

NoIndexAhead ==
    /\ strong <= LastStored /\ current <= LastStored
    /\ \A a \in Caller: loaded[a] <= LastStored

CurrentBounds ==
    Unblocks(mode) =>
        /\ strong <= current
        /\ pc[Producer] \in {"load", "decide", "store"} => current = next

Comparing == {"compare", "current", "strong", "unblock"}

CallsArePrepared ==
    \A a \in Caller:
        /\ pc[a] \in Comparing => Unblocks(mode)
        /\ pc[a] \in Comparing \cup {"change"} => new[a] \in 1 .. Last + 1

Inv == TypeOK /\ StoredInOrder /\ NoIndexAhead /\ CallsArePrepared

LEMMA BoundedStep == \A s \in Nat: Bounded(s) \in 1 .. Last + 1
  BY LastAssumption DEF Bounded

LEMMA InitInv == Init => Inv /\ CurrentBounds
<1> SUFFICES ASSUME Init PROVE Inv /\ CurrentBounds
  OBVIOUS
<1>. USE LastAssumption DEF Init, None, Nobody, Caller, Producer, Changer, Storing, LastStored
<1>1. TypeOK
  BY StepsAssumption DEF TypeOK, Indices
<1>2. StoredInOrder /\ NoIndexAhead /\ CallsArePrepared /\ CurrentBounds
  BY DEF StoredInOrder, NoIndexAhead, CallsArePrepared, Comparing, CurrentBounds
<1>. QED BY <1>1, <1>2 DEF Inv

\* A step of the producer inside set or set_immediate
LEMMA ProducerInv ==
    ASSUME Inv, ProducerStep PROVE Inv'
<1>. USE LastAssumption DEF Inv, TypeOK, Indices, None, Nobody, Caller, Producer, Changer,
        StoredInOrder, NoIndexAhead, CallsArePrepared, Comparing, Storing, LastStored, Go
<1>1. CASE StoreValue
  BY <1>1 DEF StoreValue
<1>2. CASE StoreIndex
  BY <1>2 DEF StoreIndex, set_current_index, IndexOf
<1>3. CASE LoadStrong
  BY <1>3 DEF LoadStrong, Take
<1>4. CASE Decide
  BY <1>4 DEF Decide, Release
<1>5. CASE EnterImmediate
  BY <1>5 DEF EnterImmediate, Take, set_current_index, IndexOf
<1>6. CASE StoreStrong
  BY <1>6 DEF StoreStrong, Release
<1>. QED BY <1>1, <1>2, <1>3, <1>4, <1>5, <1>6 DEF ProducerStep
\* A step inside set_step, by the producer or by the thread on the other side
LEMMA SetStepInv ==
    ASSUME Inv, NEW a \in Caller, set_step(a) PROVE Inv'
<1>. USE LastAssumption DEF Inv, TypeOK, Indices, None, Nobody, Caller, Producer, Changer,
        StoredInOrder, NoIndexAhead, CallsArePrepared, Comparing, Storing, LastStored, Go
<1>1. CASE CompareSteps(a)
  BY <1>1 DEF CompareSteps, Take
<1>2. CASE LoadCurrent(a)
  BY <1>2 DEF LoadCurrent, promise
<1>3. CASE CompareIndices(a)
  BY <1>3 DEF CompareIndices, promise
<1>4. CASE UnblockConsumers(a)
  BY <1>4 DEF UnblockConsumers
<1>5. CASE ChangeStep(a)
  <2>1. pc[a] = "change" /\ new[a] \in 0 .. Last + 1
    BY <1>5 DEF ChangeStep
  <2>. QED BY <1>5, <2>1 DEF ChangeStep, Release, Returned
<1>. QED BY <1>1, <1>2, <1>3, <1>4, <1>5 DEF set_step

\* A step outside of the promise's calls: a call of set_step, a get
LEMMA CallInv ==
    ASSUME Inv, NEW a \in Caller, CallSetStep(a) PROVE Inv'
<1>. USE LastAssumption DEF Inv, TypeOK, Indices, None, Caller, Producer, Changer
<1>1. PICK s \in Requests(a): new' = [new EXCEPT ![a] = Bounded(s)]
  BY DEF CallSetStep
<1>2. s \in Nat
  BY StepsAssumption DEF Requests
<1>3. Bounded(s) \in 1 .. Last + 1
  BY <1>2, BoundedStep
<1>4. /\ pc' = [pc EXCEPT ![a] = IF Unblocks(mode) THEN "compare" ELSE "change"]
      /\ pc[a] = "ready" /\ changes' \in 0 .. MaxChanges
      /\ UNCHANGED <<mode, step, strong, current, values, owner, weak, next, wanted, loaded>>
  BY DEF CallSetStep, Go, promise
<1>5. TypeOK'
  BY <1>1, <1>3, <1>4
<1>6. LastStored' = LastStored /\ StoredInOrder' /\ NoIndexAhead'
  BY <1>4 DEF StoredInOrder, NoIndexAhead, LastStored, Storing
<1>7. CallsArePrepared'
  BY <1>1, <1>3, <1>4 DEF CallsArePrepared, Comparing, Unblocks
<1>. QED BY <1>5, <1>6, <1>7

LEMMA GetInv ==
    ASSUME Inv, NEW c \in Consumers, get(c) PROVE Inv'
<1>1. /\ UNCHANGED <<mode, step, strong, current, values, owner, next, pc, new, loaded, changes>>
      /\ wanted[c] <= Last /\ wanted' = [wanted EXCEPT ![c] = @ + 1]
      /\ weak' = weak \/ weak' = [weak EXCEPT ![c] = strong]
  BY DEF get, promise
<1>2. TypeOK'
  BY <1>1, LastAssumption DEF Inv, TypeOK, Indices, None
<1>3. StoredInOrder' /\ NoIndexAhead' /\ CallsArePrepared'
  BY <1>1 DEF Inv, StoredInOrder, NoIndexAhead, CallsArePrepared, LastStored
<1>. QED BY <1>2, <1>3 DEF Inv

LEMMA StepInv == Inv /\ [Next]_vars => Inv'
<1> SUFFICES ASSUME Inv, [Next]_vars PROVE Inv'
  OBVIOUS
<1>1. ASSUME NEW a \in Caller, CallSetStep(a) \/ set_step(a) PROVE Inv'
  BY <1>1, CallInv, SetStepInv
<1>2. CASE UNCHANGED vars
  BY <1>2 DEF vars, promise, Inv, TypeOK, Indices, StoredInOrder, NoIndexAhead,
        CallsArePrepared, Comparing, LastStored
<1>. QED BY ProducerInv, GetInv, <1>1, <1>2 DEF Next
(* Every variable keeps its type; a step of 0 is never stored. *)
THEOREM TypeCorrect == Spec => []TypeOK
<1>1. Inv => TypeOK
  BY DEF Inv
<1>. QED BY <1>1, InitInv, StepInv, PTL DEF Spec

(* A consumer that sees an index finds the values up to it stored, for any  *)
(* mode, any number of values and any steps.                                *)
THEOREM ValuesPublished == Spec => []PublishedIsStored
<1>1. Inv => PublishedIsStored
  BY LastAssumption DEF Inv, TypeOK, Indices, None, StoredInOrder, NoIndexAhead, LastStored,
        PublishedIsStored
<1>. QED BY <1>1, InitInv, StepInv, PTL DEF Spec

(***************************************************************************)
(* Modes whose set_step may publish take _step_m, but for one.             *)
(***************************************************************************)
NoUnlockedUnblock == {"consumer", "unblock"} \notin Modes

LEMMA UnblocksLocked ==
    ASSUME NoUnlockedUnblock, mode \in Modes, Unblocks(mode) PROVE RequiresLock(mode)
<1>1. mode \in DynamicStepPromiseMode /\ "unblock" \in mode /\ mode # {"consumer", "unblock"}
  BY ModesAssumption DEF NoUnlockedUnblock, Unblocks
<1>2. \A c \in Callers: "unblock" \notin c
  BY DEF Callers
<1>3. PICK c \in Callers: mode = c \cup {"unblock"}
  BY <1>1, <1>2 DEF DynamicStepPromiseMode
<1>4. CASE c = {"consumer"}
  BY <1>1, <1>3, <1>4
<1>5. CASE "producer" \in c \/ "both" \in c
  BY <1>3, <1>5 DEF RequiresLock, Unblocks, IsProducer
<1>. QED BY <1>4, <1>5 DEF Callers

LEMMA CurrentInv ==
    ASSUME NoUnlockedUnblock, Inv, CurrentBounds, [Next]_vars
    PROVE  CurrentBounds' /\ strong' >= strong
<1>. USE DEF Inv, TypeOK, Indices, None, Caller, Producer, Changer, CurrentBounds, Go
<1>0. Last \in Nat /\ strong \in Int /\ current \in Int /\ next \in Nat
  BY LastAssumption
<1>1. CASE StoreValue
  BY <1>0, <1>1 DEF StoreValue
<1>2. CASE StoreIndex
  BY <1>0, <1>2 DEF StoreIndex, set_current_index, IndexOf, NoIndexAhead, LastStored, Storing
<1>3. CASE LoadStrong
  BY <1>0, <1>3 DEF LoadStrong
<1>4. CASE Decide
  BY <1>0, <1>4 DEF Decide
<1>5. CASE EnterImmediate
  BY <1>0, <1>5 DEF EnterImmediate, set_current_index, IndexOf, NoIndexAhead, LastStored, Storing
<1>6. CASE StoreStrong
  BY <1>0, <1>6 DEF StoreStrong, NoIndexAhead, LastStored, Storing
<1>7. ASSUME NEW a \in Caller, set_step(a) PROVE CurrentBounds' /\ strong' >= strong
  <2>1. CASE UnblockConsumers(a)
    <3>1. Unblocks(mode) /\ RequiresLock(mode)
      BY <2>1, UnblocksLocked DEF UnblockConsumers, CallsArePrepared, Comparing
    <3>2. strong' = current /\ strong <= current
      BY <2>1, <3>1 DEF UnblockConsumers
    <3>3. /\ UNCHANGED <<mode, current, next>>
          /\ pc'[Producer] = pc[Producer] \/ pc'[Producer] = "change"
      BY <2>1 DEF UnblockConsumers
    <3>. QED BY <1>0, <3>2, <3>3
  <2>2. CASE ~UnblockConsumers(a)
    <3>1. UNCHANGED <<mode, strong, current, next>>
      BY <1>7, <2>2 DEF set_step, CompareSteps, LoadCurrent, CompareIndices, ChangeStep, promise
    <3>2. pc'[Producer] \in {"load", "decide", "store"} => pc[Producer] = pc'[Producer]
      BY <1>7, <2>2 DEF set_step, CompareSteps, LoadCurrent, CompareIndices, ChangeStep, Returned
    <3>. QED BY <1>0, <3>1, <3>2
  <2>. QED BY <2>1, <2>2
<1>8. ASSUME NEW a \in Caller, CallSetStep(a) PROVE CurrentBounds' /\ strong' >= strong
  BY <1>0, <1>8 DEF CallSetStep, promise
<1>9. ASSUME NEW c \in Consumers, get(c) PROVE CurrentBounds' /\ strong' >= strong
  BY <1>0, <1>9 DEF get, promise
<1>10. CASE UNCHANGED vars
  BY <1>0, <1>10 DEF vars, promise
<1>. QED BY <1>1, <1>2, <1>3, <1>4, <1>5, <1>6, <1>7, <1>8, <1>9, <1>10 DEF Next, ProducerStep

(* A change of the step never takes an index back, in every mode but the    *)
(* one whose set_step publishes without the lock.                           *)
THEOREM PublishedKept ==
    ASSUME NoUnlockedUnblock PROVE Spec => PublishedNeverMovesBack
<1>1. Init => Inv /\ CurrentBounds
  BY InitInv
<1>2. Inv /\ CurrentBounds /\ [Next]_vars => (Inv /\ CurrentBounds)'
  BY StepInv, CurrentInv, NoUnlockedUnblock
<1>3. Inv /\ CurrentBounds /\ [Next]_vars => [strong' >= strong]_vars
  BY CurrentInv, NoUnlockedUnblock
<1>. QED BY <1>1, <1>2, <1>3, PTL DEF Spec, PublishedNeverMovesBack
==============================================================================
