----------------------------- MODULE DynamicStep -----------------------------
(***************************************************************************)
(* DynamicStepPromise (src/src/promises/dynamic_step_promise.h): a         *)
(* producer stores values by increasing index, consumers wait for an       *)
(* index, and set_step changes while they run how many values the producer *)
(* stores between two publications.  The mode, a template parameter, says  *)
(* who calls set_step, whether a call may publish, and with that whether   *)
(* _step_m is taken.                                                       *)
(*                                                                         *)
(* The producer calls set for every index but the last, and set_immediate  *)
(* for the last one.  Each access to an atomic is an action of its own.    *)
(***************************************************************************)
EXTENDS Integers

CONSTANTS Consumers,    \* the threads that call get
          Modes,        \* the modes to choose from
          Last,         \* the last index
          NewSteps,     \* what set_step is called with, and the first step
          MaxChanges    \* bound: calls of set_step

(***************************************************************************)
(* DynamicStepPromiseMode, a mode as its set of bits.                      *)
(***************************************************************************)
Callers == {{"producer"}, {"consumer"}, {"both"}, {"producer", "timer"}}
DynamicStepPromiseMode ==
    Callers \cup {c \cup {"unblock"}: c \in Callers} \cup {{"monitor"}, {"never"}}

ASSUME ModesAssumption == Modes \subseteq DynamicStepPromiseMode
ASSUME LastAssumption == Last \in Nat /\ MaxChanges \in Nat
ASSUME StepsAssumption == NewSteps \subseteq Nat

Unblocks(mode) == "unblock" \in mode
IsTimer(mode) == "timer" \in mode
IsProducer(mode) == "producer" \in mode
\* Mutated form: no mode takes _step_m.
RequiresLockNever(mode) == FALSE
RequiresLock(mode) == Unblocks(mode) /\ (IsProducer(mode) \/ "both" \in mode)

\* Who calls set_step: the producer, or another thread on the consumers' side.
Producer == "producer"
Changer == "changer"
Caller == {Producer, Changer}
MayCall(mode) == (IF IsProducer(mode) \/ "both" \in mode THEN {Producer} ELSE {})
                 \cup (IF mode \cap {"consumer", "both", "monitor"} # {} THEN {Changer} ELSE {})

VARIABLES
    mode,
    step,       \* _step
    strong,     \* _last_unblock_index_strong
    current,    \* _current_index
    weak,       \* _last_unblock_index_weak, by consumer
    values,     \* the indices whose value is stored
    owner,      \* who holds _step_m
    next,       \* the index the producer is at
    wanted,     \* the index each consumer is at
    pc,         \* where the callers are
    new,        \* set_step's argument
    loaded,     \* the index a caller has loaded, one per caller
    changes     \* calls of set_step so far

promise == <<step, strong, current, values, owner>>
vars == <<mode, promise, weak, next, wanted, pc, new, loaded, changes>>

Nobody == "nobody"
None == -1

Init ==
    /\ mode \in Modes
    /\ step \in NewSteps \ {0}
    /\ strong = None /\ current = None
    /\ weak = [c \in Consumers |-> None]
    /\ values = {} /\ owner = Nobody
    /\ next = 0
    /\ wanted = [c \in Consumers |-> 0]
    /\ pc = [a \in Caller |-> "ready"]
    /\ new = [a \in Caller |-> 0]
    /\ loaded = [a \in Caller |-> None]
    /\ changes = 0

\* The difference of two ints compared with an unsigned step.
AtLeast(difference, s) == difference < 0 \/ difference >= s

Go(a, where) == pc' = [pc EXCEPT ![a] = where]
Take(a) == IF RequiresLock(mode) THEN owner = Nobody /\ owner' = a ELSE UNCHANGED owner
Release == IF RequiresLock(mode) THEN owner' = Nobody ELSE UNCHANGED owner

(***************************************************************************)
(* set_no_timer and set_immediate_no_timer.                                *)
(***************************************************************************)
StoreValue ==
    /\ pc[Producer] \in {"ready", "value"} /\ next <= Last
    /\ values' = values \cup {next}
    /\ Go(Producer, IF next = Last THEN "immediate" ELSE "index")
    /\ UNCHANGED <<mode, step, strong, current, owner, weak, next, wanted, new, loaded, changes>>

\* Mutated form: the index of the value after this one.
IndexOfNext(i) == i + 1
IndexOf(i) == i

set_current_index ==
    IF Unblocks(mode) THEN current' = IndexOf(next) ELSE UNCHANGED current

StoreIndex ==
    /\ pc[Producer] = "index"
    /\ set_current_index
    /\ Go(Producer, "load")
    /\ UNCHANGED <<mode, step, strong, values, owner, weak, next, wanted, new, loaded, changes>>

LoadStrong ==
    /\ pc[Producer] = "load"
    /\ Take(Producer)
    /\ loaded' = [loaded EXCEPT ![Producer] = strong]
    /\ Go(Producer, "decide")
    /\ UNCHANGED <<mode, step, strong, current, values, weak, next, wanted, new, changes>>

\* The step is read after the index; a publication is one more access.
Decide ==
    /\ pc[Producer] = "decide"
    /\ IF AtLeast(next - loaded[Producer], step)
       THEN Go(Producer, "store") /\ UNCHANGED <<owner, next>>
       ELSE Go(Producer, "ready") /\ next' = next + 1 /\ Release
    /\ UNCHANGED <<mode, step, strong, current, values, weak, wanted, new, loaded, changes>>

\* Mutated form: set_immediate decides like set.
EnterAsSet ==
    /\ pc[Producer] = "immediate"
    /\ set_current_index
    /\ Go(Producer, "load")
    /\ UNCHANGED <<mode, step, strong, values, owner, weak, next, wanted, new, loaded, changes>>

EnterImmediate ==
    /\ pc[Producer] = "immediate"
    /\ Take(Producer)
    /\ set_current_index
    /\ Go(Producer, "store")
    /\ UNCHANGED <<mode, step, strong, values, weak, next, wanted, new, loaded, changes>>

StoreStrong ==
    /\ pc[Producer] = "store"
    /\ strong' = next
    /\ Release
    /\ next' = next + 1
    /\ Go(Producer, "ready")
    /\ UNCHANGED <<mode, step, current, values, weak, wanted, new, loaded, changes>>

(***************************************************************************)
(* set_step.  With a timer, set and set_immediate call it themselves with  *)
(* twice the step, or the step over 1.5, before they store the value.      *)
(***************************************************************************)
\* Mutated form: a step of 0 is taken as it is.
BoundedAbove(s) == IF s >= Last + 1 THEN Last + 1 ELSE s
Bounded(s) == IF s = 0 THEN 1 ELSE IF s >= Last + 1 THEN Last + 1 ELSE s

Requests(a) == IF IsTimer(mode) THEN {step * 2, (step * 2) \div 3} ELSE NewSteps
Returned(a) == IF a = Producer /\ IsTimer(mode) THEN "value" ELSE "ready"

CallSetStep(a) ==
    /\ a \in MayCall(mode) /\ pc[a] = "ready"
    /\ a = Producer => next <= Last
    /\ changes < MaxChanges /\ changes' = changes + 1
    /\ \E s \in Requests(a):
          /\ Bounded(s) # step
          /\ new' = [new EXCEPT ![a] = Bounded(s)]
    /\ Go(a, IF Unblocks(mode) THEN "compare" ELSE "change")
    /\ UNCHANGED <<mode, promise, weak, next, wanted, loaded>>

CompareSteps(a) ==
    /\ pc[a] = "compare"
    /\ Take(a)
    /\ Go(a, IF new[a] < step THEN "current" ELSE "change")
    /\ UNCHANGED <<mode, step, strong, current, values, weak, next, wanted, new, loaded, changes>>

LoadCurrent(a) ==
    /\ pc[a] = "current"
    /\ loaded' = [loaded EXCEPT ![a] = current]
    /\ Go(a, "strong")
    /\ UNCHANGED <<mode, promise, weak, next, wanted, new, changes>>

CompareIndices(a) ==
    /\ pc[a] = "strong"
    /\ Go(a, IF AtLeast(loaded[a] - strong, new[a]) THEN "unblock" ELSE "change")
    /\ UNCHANGED <<mode, promise, weak, next, wanted, new, loaded, changes>>

\* With the lock the index is loaded again, without it the loaded one is used.
UnblockConsumers(a) ==
    /\ pc[a] = "unblock"
    /\ strong' = IF RequiresLock(mode) THEN current ELSE loaded[a]
    /\ Go(a, "change")
    /\ UNCHANGED <<mode, step, current, values, owner, weak, next, wanted, new, loaded, changes>>

ChangeStep(a) ==
    /\ pc[a] = "change"
    /\ step' = new[a]
    /\ Release
    /\ Go(a, Returned(a))
    /\ UNCHANGED <<mode, strong, current, values, weak, next, wanted, new, loaded, changes>>

(***************************************************************************)
(* get: the consumer's own copy of the index, then the shared one until it *)
(* reaches the wanted index.                                               *)
(***************************************************************************)
get(c) ==
    /\ wanted[c] <= Last
    /\ \/ weak[c] >= wanted[c] /\ UNCHANGED weak
       \/ /\ weak[c] < wanted[c] /\ strong >= wanted[c]
          /\ weak' = [weak EXCEPT ![c] = strong]
    /\ wanted' = [wanted EXCEPT ![c] = @ + 1]
    /\ UNCHANGED <<mode, promise, next, pc, new, loaded, changes>>

ProducerStep ==
    StoreValue \/ StoreIndex \/ LoadStrong \/ Decide \/ EnterImmediate \/ StoreStrong

set_step(a) ==
    CompareSteps(a) \/ LoadCurrent(a) \/ CompareIndices(a) \/ UnblockConsumers(a) \/ ChangeStep(a)

Next ==
    \/ ProducerStep
    \/ \E a \in Caller: CallSetStep(a) \/ set_step(a)
    \/ \E c \in Consumers: get(c)

Spec == Init /\ [][Next]_vars

\* Every thread runs on; nobody has to call set_step.
FairSpec ==
    /\ Spec
    /\ WF_vars(ProducerStep)
    /\ \A a \in Caller: WF_vars(set_step(a))
    /\ \A c \in Consumers: WF_vars(get(c))

(***************************************************************************)
(* Properties.                                                             *)
(***************************************************************************)
Indices == None .. Last

(* Every variable keeps its type; the step is never 0. *)
TypeOK ==
    /\ mode \in Modes
    /\ step \in (NewSteps \cup 1 .. Last + 1) \ {0}
    /\ strong \in Indices /\ current \in Indices /\ weak \in [Consumers -> Indices]
    /\ values \subseteq 0 .. Last
    /\ owner \in Caller \cup {Nobody}
    /\ next \in 0 .. Last + 1 /\ wanted \in [Consumers -> 0 .. Last + 1]
    /\ pc \in [Caller -> {"ready", "value", "index", "load", "decide", "immediate", "store",
                          "compare", "current", "strong", "unblock", "change"}]
    /\ new \in [Caller -> 0 .. Last + 1] /\ loaded \in [Caller -> Indices]
    /\ changes \in 0 .. MaxChanges

(* A consumer that returns from get finds its value, and all those before   *)
(* it, stored: an index is published, by set or by a smaller step, only     *)
(* after the values up to it.                                               *)
PublishedIsStored == \A i \in 0 .. strong: i \in values

(* A published index is never taken back: a consumer that could have gone   *)
(* on before a change of the step can still go on after it.                 *)
PublishedNeverMovesBack == [][strong' >= strong]_vars

(* Every get returns, whatever the steps were on the way: the last call is  *)
(* set_immediate, and nothing that was published is hidden after it.        *)
EveryGetReturns == <>(\A c \in Consumers: wanted[c] = Last + 1)
==============================================================================
