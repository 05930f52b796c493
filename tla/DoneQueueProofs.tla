-------------------------- MODULE DoneQueueProofs --------------------------
(***************************************************************************)
(* The threads of threads/ that share a buffer until main sets a flag: what *)
(* becomes of the elements, and of the notifications, for any number of     *)
(* producers and consumers and any capacity.                               *)
(***************************************************************************)
EXTENDS DoneQueue, FiniteSetTheorems, TLAPS

Places == {"test", "lock", "check", "wait", "woken", "notify", "consume", "store", "ended"}

BufferInv == buffer \in Seq(Nat) /\ Len(buffer) \in Nat /\ Len(buffer) <= MAX

TypeInv ==
  /\ program \in {"elements", "cons_work", "prod_cons"}
  /\ mutex \in Threads \cup {Free}
  /\ waiters \in [{"produce", "consume"} -> SUBSET Threads]
  /\ waiters["produce"] \subseteq Producers /\ waiters["consume"] \subseteq Consumers
  /\ pc \in [Threads -> Places]
  /\ done \in BOOLEAN
  /\ BufferInv
  /\ el \subseteq Threads
  /\ numProduced \in Nat /\ numConsumed \in Nat /\ made \in Nat /\ taken \in Nat
  /\ lost \in Nat /\ phantom \in Nat
  /\ reg \in [Threads -> Nat]

(* Who holds the mutex, and that a thread about to block has found the      *)
(* buffer full, or empty, and that it still is.                             *)
LockInv ==
  /\ \A t \in Threads : pc[t] \in {"check", "wait"} <=> mutex = t
  /\ \A t \in Threads : pc[t] = "wait" => MustWait(t)
  /\ \A cv \in {"produce", "consume"} : \A t \in waiters[cv] : pc[t] = "woken"

(* In whose hands an element is.                                            *)
ElementInv ==
  /\ \A p \in Producers : p \in el <=> pc[p] \in {"store", "lock", "check", "wait", "woken"}
  /\ perElement => \A c \in Consumers : c \in el <=> pc[c] \in {"notify", "consume"}

(* The counters: a value that was read and not stored yet is behind.        *)
CounterInv ==
  /\ \A t \in Threads : pc[t] = "store" => ~atomic
  /\ \A p \in Producers : pc[p] = "store" => reg[p] < made
  /\ \A c \in Consumers : pc[c] = "store" => reg[c] < taken
  /\ numProduced <= made /\ numConsumed <= taken
  /\ atomic => numProduced = made /\ numConsumed = taken

Balance == made + phantom = taken + Len(buffer) + Cardinality(el) + lost

(* What DropInv and PassInv make of LossIsBounded and Accounted: losses in  *)
(* the threads, ...                                                         *)
DropInv ==
  perElement =>
    /\ lost > 0 => done
    /\ phantom = 0
    /\ lost <= Cardinality({p \in Producers : pc[p] = "ended"})

(* ... and the buffer: it has the last elements stored, in order; each taking*)
(* removed one; and an element that was removed was taken over, or a younger*)
(* one that was in the buffer with it.                                      *)
PassInv ==
  /\ stored \in Nat /\ doubled \in Nat /\ copied \subseteq 1..stored
  /\ Len(buffer) <= stored
  /\ \A i \in 1..Len(buffer) : buffer[i] = stored - Len(buffer) + i
  /\ stored - Len(buffer) = Cardinality(copied) + doubled
  /\ \A e \in 1..(stored - Len(buffer)) :
       e \in copied \/ \E d \in copied : e < d /\ d < e + MAX

(* Where main is, and whom its notify_all has already been for.              *)
MainInv ==
  /\ main \in {"sleep", "notifyConsumers", "notifyProducers", "join", "ended"}
  /\ done <=> main # "sleep"
  /\ missed \subseteq Threads

Notified ==
  CASE main \in {"join", "ended"} -> Threads
    [] main = "notifyProducers" /\ perElement -> Consumers
    [] main = "notifyConsumers" /\ ~perElement -> Producers
    [] OTHER -> {}

(* Of those it was for, who sleeps or is about to is one that it missed.    *)
SleepersMissed ==
  \A t \in Notified : t \in waiters[Queue(t)] \/ pc[t] = "wait" => t \in missed

IInv == TypeInv /\ LockInv /\ ElementInv /\ CounterInv /\ Balance /\ DropInv
        /\ PassInv /\ NoLostWakeup /\ MainInv /\ SleepersMissed
-----------------------------------------------------------------------------
(* Threads are finitely many, and no producer is a consumer.                *)
LEMMA Groups ==
  /\ IsFiniteSet(Producers) /\ IsFiniteSet(Consumers) /\ IsFiniteSet(Threads)
  /\ \A p \in Producers : p \in Threads /\ p \notin Consumers
  /\ \A c \in Consumers : c \in Threads /\ c \notin Producers
  /\ Free \notin Threads /\ MAX \in Nat \ {0}
BY DoneQueueAssumption, FS_Union DEF DoneQueueAssumption, Threads

(* At the start nothing is stored, held, lost or owed.                      *)
LEMMA InitIInv == Init => IInv
<1> SUFFICES ASSUME Init PROVE IInv
  OBVIOUS
<1> USE DEF Init
<1>1. TypeInv
  <2>1. /\ waiters \in [{"produce", "consume"} -> SUBSET Threads]
        /\ waiters["produce"] = {} /\ waiters["consume"] = {}
    OBVIOUS
  <2>2. /\ pc \in [Threads -> Places] /\ reg \in [Threads -> Nat]
    BY Groups DEF Places
  <2>3. BufferInv
    BY Groups DEF BufferInv
  <2> QED
    BY <2>1, <2>2, <2>3 DEF TypeInv
<1>2. LockInv /\ ElementInv /\ CounterInv
  BY Groups DEF LockInv, ElementInv, CounterInv, perElement, atomic
<1>3. Cardinality({}) = 0 /\ {p \in Producers : pc[p] = "ended"} = {}
  BY Groups, FS_EmptySet
<1>4. Balance /\ DropInv /\ PassInv /\ NoLostWakeup
  <2>1. Len(buffer) = 0 /\ 1..0 = {}
    OBVIOUS
  <2>2. Cardinality(el) = 0 /\ Cardinality({p \in Producers : pc[p] = "ended"}) = 0
    BY <1>3
  <2>5. Balance /\ DropInv
    BY <2>1, <2>2 DEF Balance, DropInv
  <2>3. PassInv
    BY <1>3, <2>1 DEF PassInv
  <2>4. NoLostWakeup
    BY DEF NoLostWakeup
  <2> QED
    BY <2>3, <2>4, <2>5
<1>5. MainInv /\ SleepersMissed
  BY DEF MainInv, SleepersMissed, Notified
<1> QED
  BY <1>1, <1>2, <1>4, <1>5 DEF IInv
-----------------------------------------------------------------------------
(* What a step of a thread may do to the monitor.                           *)
LEMMA OneNotified ==
  ASSUME TypeInv, NEW cv \in {"produce", "consume"}, NotifyOne(cv)
  PROVE  /\ waiters' \in [{"produce", "consume"} -> SUBSET Threads]
         /\ \A d \in {"produce", "consume"} : waiters'[d] \subseteq waiters[d]
BY DEF NotifyOne, TypeInv

(* A notification only takes threads out of a queue.                        *)
LEMMA Woken ==
  ASSUME TypeInv, NEW t, WakesUnasked(t)
  PROVE  /\ waiters' \in [{"produce", "consume"} -> SUBSET Threads]
         /\ \A d \in {"produce", "consume"} : waiters'[d] \subseteq waiters[d]
BY DEF WakesUnasked, TypeInv

(* Every step keeps the types.                                              *)
LEMMA TypeStep == TypeInv /\ PassInv /\ [Next]_vars => TypeInv'
<1> SUFFICES ASSUME TypeInv, PassInv, [Next]_vars PROVE TypeInv'
  OBVIOUS
<1> USE DEF TypeInv, Places
<1>0. ASSUME buffer' = buffer PROVE BufferInv'
  BY <1>0 DEF BufferInv
<1>1. ASSUME NEW t \in Threads, UNCHANGED program, Enter(t) \/ Decide(t) \/ Return(t)
      PROVE  TypeInv'
  BY <1>0, <1>1 DEF Enter, Decide, Return, Lock, Unlock, Goto, monitorVars, counters, history
<1>2. ASSUME NEW t \in Threads, UNCHANGED program, Sleep(t) PROVE TypeInv'
  <2>1. /\ waiters' = [waiters EXCEPT ![Queue(t)] = @ \cup {t}] /\ mutex' = Free
        /\ pc' = [pc EXCEPT ![t] = "woken"]
        /\ UNCHANGED <<done, buffer, el, counters, history>>
    BY <1>2 DEF Sleep, Wait, Goto
  <2>2. /\ Queue(t) = "produce" => t \in Producers
        /\ Queue(t) = "consume" => t \in Consumers
        /\ Queue(t) \in {"produce", "consume"}
    BY DEF Queue, Threads
  <2> QED
    BY <1>0, <1>2, <2>1, <2>2 DEF counters, history
<1>3. ASSUME NEW t \in Threads, UNCHANGED program, SpuriousWakeup(t) PROVE TypeInv'
  BY <1>0, <1>3, Woken DEF SpuriousWakeup, counters, history
<1>4. ASSUME NEW p \in Producers, UNCHANGED program, ProducerLoop(p) \/ StoreProduced(p)
      PROVE  TypeInv'
  BY <1>0, <1>4, Groups DEF ProducerLoop, StoreProduced, Increment, Goto, monitorVars, counters, history
<1>5. ASSUME NEW p \in Producers, UNCHANGED program, Emplace(p) PROVE TypeInv'
  <2>1. /\ Len(buffer) # MAX /\ buffer' = Append(buffer, stored + 1) /\ stored \in Nat
    BY <1>5, Groups DEF Emplace, MustWait, PassInv, BufferInv
  <2>2. BufferInv'
    BY <2>1, Groups DEF BufferInv
  <2> QED
    BY <1>5, <2>2, Groups DEF Emplace, Unlock, Goto, counters
<1>6. ASSUME NEW p \in Producers, UNCHANGED program, ProducerNotifies(p) PROVE TypeInv'
  BY <1>0, <1>6, Groups, OneNotified DEF ProducerNotifies, Goto, counters, history
<1>7. ASSUME NEW c \in Consumers, UNCHANGED program, ConsumerLoop(c) \/ Consume(c)
      PROVE  TypeInv'
  BY <1>0, <1>7, Groups DEF ConsumerLoop, Consume, Increment, Goto, monitorVars, counters, history
<1>8. ASSUME NEW c \in Consumers, UNCHANGED program, Pop(c) PROVE TypeInv'
  <2>1. Len(buffer) # 0 /\ buffer' = Tail(buffer)
    BY <1>8, Groups DEF Pop, MustWait
  <2>2. BufferInv'
    BY <2>1, Groups DEF BufferInv
  <2> QED
    BY <1>8, <2>2, Groups DEF Pop, Unlock, Goto, counters
<1>9. ASSUME NEW c \in Consumers, UNCHANGED program, ConsumerNotifies(c) PROVE TypeInv'
  BY <1>0, <1>9, Groups, OneNotified DEF ConsumerNotifies, Goto, counters, history
<1>10. ASSUME NEW c \in Consumers, UNCHANGED program, StoreConsumed(c) PROVE TypeInv'
  BY <1>0, <1>10, Groups DEF StoreConsumed, Goto, monitorVars, history
<1>11. CASE UNCHANGED program /\ MainStep
  BY <1>0, <1>11 DEF MainStep, SetDone, NotifyConsumers, NotifyProducers, Join, NotifyAll,
               monitorVars, counters, history
<1>12. CASE UNCHANGED vars
  BY <1>0, <1>12 DEF vars, threadVars, monitorVars, counters, history
<1> QED
  BY <1>1, <1>2, <1>3, <1>4, <1>5, <1>6, <1>7, <1>8, <1>9, <1>10, <1>11, <1>12
     DEF Next, Step
-----------------------------------------------------------------------------
(* Who is inside the lock owns the mutex, and has seen what it waits for to be missing. *)
LEMMA LockStep == TypeInv /\ LockInv /\ [Next]_vars => LockInv'
<1> SUFFICES ASSUME TypeInv, LockInv, [Next]_vars PROVE LockInv'
  OBVIOUS
<1> USE DEF TypeInv, LockInv, MustWait
<1>1. ASSUME NEW t \in Threads, Enter(t) PROVE LockInv'
  BY <1>1, Groups DEF Enter, Lock, Goto, Blocked
<1>2. ASSUME NEW t \in Threads, Decide(t) PROVE LockInv'
  BY <1>2, Groups DEF Decide, Goto, monitorVars
<1>3. ASSUME NEW t \in Threads, Return(t) PROVE LockInv'
  BY <1>3, Groups DEF Return, Unlock, Goto
<1>4. ASSUME NEW t \in Threads, Sleep(t) PROVE LockInv'
  <2>1. /\ waiters' = [waiters EXCEPT ![Queue(t)] = @ \cup {t}] /\ mutex = t /\ mutex' = Free
        /\ pc' = [pc EXCEPT ![t] = "woken"] /\ buffer' = buffer
    BY <1>4 DEF Sleep, Wait, Goto
  <2> QED
    BY <1>4, <2>1, Groups DEF Queue
<1>5. ASSUME NEW t \in Threads, SpuriousWakeup(t) PROVE LockInv'
  BY <1>5, Woken DEF SpuriousWakeup
<1>6. ASSUME NEW p \in Producers, ProducerLoop(p) \/ StoreProduced(p) PROVE LockInv'
  BY <1>6, Groups DEF ProducerLoop, StoreProduced, Goto, monitorVars
<1>7. ASSUME NEW p \in Producers, Emplace(p) PROVE LockInv'
  BY <1>7, Groups DEF Emplace, Unlock, Goto
<1>8. ASSUME NEW p \in Producers, ProducerNotifies(p) PROVE LockInv'
  BY <1>8, Groups, OneNotified DEF ProducerNotifies, Goto
<1>9. ASSUME NEW c \in Consumers, ConsumerLoop(c) \/ Consume(c) \/ StoreConsumed(c)
      PROVE  LockInv'
  BY <1>9, Groups DEF ConsumerLoop, Consume, StoreConsumed, Goto, monitorVars
<1>10. ASSUME NEW c \in Consumers, Pop(c) PROVE LockInv'
  BY <1>10, Groups DEF Pop, Unlock, Goto
<1>11. ASSUME NEW c \in Consumers, ConsumerNotifies(c) PROVE LockInv'
  BY <1>11, Groups, OneNotified DEF ConsumerNotifies, Goto
<1>12. CASE MainStep
  BY <1>12 DEF MainStep, SetDone, NotifyConsumers, NotifyProducers, Join, NotifyAll, monitorVars
<1>13. CASE UNCHANGED vars
  BY <1>13 DEF vars, threadVars, monitorVars
<1> QED
  BY <1>1, <1>2, <1>3, <1>4, <1>5, <1>6, <1>7, <1>8, <1>9, <1>10, <1>11, <1>12, <1>13
     DEF Next, Step
-----------------------------------------------------------------------------
(* A thread's place says whether it holds an element.                       *)
LEMMA ElementStep == TypeInv /\ ElementInv /\ [Next]_vars => ElementInv'
<1> SUFFICES ASSUME TypeInv, ElementInv, [Next]_vars PROVE ElementInv'
  OBVIOUS
<1> USE DEF TypeInv, ElementInv, perElement
<1>1. program' = program
  BY DEF Next, vars
<1>2. ASSUME NEW t \in Threads, Enter(t) \/ Decide(t) \/ Return(t) \/ Sleep(t) PROVE ElementInv'
  BY <1>1, <1>2, Groups DEF Enter, Decide, Return, Sleep, Goto
<1>3. ASSUME NEW t \in Threads, SpuriousWakeup(t) PROVE ElementInv'
  BY <1>1, <1>3 DEF SpuriousWakeup
<1>4. ASSUME NEW p \in Producers, ProducerLoop(p) PROVE ElementInv'
  BY <1>1, <1>4, Groups DEF ProducerLoop, Goto
<1>5. ASSUME NEW p \in Producers, StoreProduced(p) \/ Emplace(p) \/ ProducerNotifies(p)
      PROVE  ElementInv'
  BY <1>1, <1>5, Groups DEF StoreProduced, Emplace, ProducerNotifies, Goto
<1>6. ASSUME NEW c \in Consumers, ConsumerLoop(c) \/ StoreConsumed(c) \/ ConsumerNotifies(c)
      PROVE  ElementInv'
  BY <1>1, <1>6, Groups DEF ConsumerLoop, StoreConsumed, ConsumerNotifies, Goto, perElement
<1>7. ASSUME NEW c \in Consumers, Pop(c) \/ Consume(c) PROVE ElementInv'
  BY <1>1, <1>7, Groups DEF Pop, Consume, Goto
<1>8. CASE MainStep
  BY <1>1, <1>8 DEF MainStep, SetDone, NotifyConsumers, NotifyProducers, Join
<1>9. CASE UNCHANGED vars
  BY <1>9 DEF vars, threadVars
<1> QED
  BY <1>2, <1>3, <1>4, <1>5, <1>6, <1>7, <1>8, <1>9 DEF Next, Step

(* Steps that leave the counters alone and take no thread to its store.     *)
LEMMA CountersStay ==
  ASSUME CounterInv, program' = program, UNCHANGED <<numProduced, numConsumed, reg, made, taken>>,
         \A t \in Threads : pc'[t] = "store" => pc[t] = "store"
  PROVE  CounterInv'
BY Groups DEF CounterInv, atomic

(* A counter that was read and not stored yet is behind.                    *)
LEMMA CounterStep == TypeInv /\ CounterInv /\ [Next]_vars => CounterInv'
<1> SUFFICES ASSUME TypeInv, CounterInv, [Next]_vars PROVE CounterInv'
  OBVIOUS
<1>1. program' = program
  BY DEF Next, vars
<1>2. /\ pc \in [Threads -> Places] /\ reg \in [Threads -> Nat]
      /\ numProduced \in Nat /\ numConsumed \in Nat /\ made \in Nat /\ taken \in Nat
  BY DEF TypeInv
<1>3. ASSUME NEW t \in Threads,
             Enter(t) \/ Decide(t) \/ Return(t) \/ Sleep(t) \/ SpuriousWakeup(t)
      PROVE  CounterInv'
  BY <1>1, <1>2, <1>3, CountersStay
     DEF Enter, Decide, Return, Sleep, SpuriousWakeup, Goto, counters, history
<1>4. ASSUME NEW p \in Producers, Emplace(p) \/ ProducerNotifies(p) PROVE CounterInv'
  BY <1>1, <1>2, <1>4, CountersStay DEF Emplace, ProducerNotifies, Goto, counters, history
<1>5. ASSUME NEW c \in Consumers, ConsumerLoop(c) \/ Pop(c) \/ ConsumerNotifies(c)
      PROVE  CounterInv'
  BY <1>1, <1>2, <1>5, CountersStay
     DEF ConsumerLoop, Pop, ConsumerNotifies, Goto, counters, history
<1>6. CASE MainStep \/ UNCHANGED vars
  BY <1>1, <1>6, CountersStay
     DEF MainStep, SetDone, NotifyConsumers, NotifyProducers, Join, vars, threadVars,
         counters, history
<1>7. ASSUME NEW p \in Producers, ProducerLoop(p) PROVE CounterInv'
  <2>1. CASE made' = made
    BY <1>1, <1>2, <1>7, <2>1, CountersStay DEF ProducerLoop, Goto, counters
  <2>2. CASE made' = made + 1
    BY <1>1, <1>2, <1>7, <2>2, Groups DEF CounterInv, atomic, ProducerLoop, Increment, Goto
  <2> QED
    BY <1>7, <2>1, <2>2 DEF ProducerLoop
<1>8. ASSUME NEW c \in Consumers, Consume(c) PROVE CounterInv'
  BY <1>1, <1>2, <1>8, Groups DEF CounterInv, atomic, perElement, Consume, Increment, Goto
<1>9. ASSUME NEW p \in Producers, StoreProduced(p) PROVE CounterInv'
  BY <1>1, <1>2, <1>9, Groups DEF CounterInv, atomic, StoreProduced, Goto, history
<1>10. ASSUME NEW c \in Consumers, StoreConsumed(c) PROVE CounterInv'
  BY <1>1, <1>2, <1>10, Groups DEF CounterInv, atomic, StoreConsumed, Goto, history
<1> QED
  BY <1>3, <1>4, <1>5, <1>6, <1>7, <1>8, <1>9, <1>10 DEF Next, Step
-----------------------------------------------------------------------------
(* The sets that Balance counts are finite.                                 *)
LEMMA Sizes ==
  ASSUME NEW S, S \subseteq Threads, NEW t
  PROVE  /\ IsFiniteSet(S) /\ Cardinality(S) \in Nat
         /\ Cardinality(S \cup {t}) = Cardinality(S) + (IF t \in S THEN 0 ELSE 1)
         /\ Cardinality(S \ {t}) = Cardinality(S) - (IF t \in S THEN 1 ELSE 0)
<1>1. IsFiniteSet(S)
  BY Groups, FS_Subset
<1>2. Cardinality(S) \in Nat
  BY <1>1, FS_CardinalityType
<1>3. Cardinality(S \cup {t}) = Cardinality(S) + (IF t \in S THEN 0 ELSE 1)
  <2>1. CASE t \in S
    <3>1. S \cup {t} = S
      BY <2>1
    <3> QED
      BY <1>2, <2>1, <3>1
  <2>2. CASE t \notin S
    BY <1>1, <2>2, FS_AddElement
  <2> QED
    BY <2>1, <2>2
<1>4. Cardinality(S \ {t}) = Cardinality(S) - (IF t \in S THEN 1 ELSE 0)
  <2>1. CASE t \notin S
    <3>1. S \ {t} = S
      BY <2>1
    <3> QED
      BY <1>2, <2>1, <3>1
  <2>2. CASE t \in S
    BY <1>1, <2>2, FS_RemoveElement
  <2> QED
    BY <2>1, <2>2
<1> QED
  BY <1>1, <1>2, <1>3, <1>4

(* No step makes, takes or moves an element without its being counted.      *)
LEMMA BalanceStep == TypeInv /\ ElementInv /\ Balance /\ [Next]_vars => Balance'
<1> SUFFICES ASSUME TypeInv, ElementInv, Balance, [Next]_vars PROVE Balance'
  OBVIOUS
<1> USE DEF Balance
<1>1. /\ made \in Nat /\ phantom \in Nat /\ taken \in Nat /\ Len(buffer) \in Int /\ lost \in Nat
      /\ el \subseteq Threads /\ Cardinality(el) \in Nat
  <2>1. el \subseteq Threads /\ Len(buffer) \in Nat
    BY DEF TypeInv, BufferInv
  <2>2. Cardinality(el) \in Nat
    BY <2>1, Sizes
  <2> QED
    BY <2>1, <2>2 DEF TypeInv
<1>2. \A t \in Threads : /\ t \notin el => Cardinality(el \cup {t}) = Cardinality(el) + 1
                         /\ t \in el => el \cup {t} = el
                         /\ t \in el => Cardinality(el \ {t}) = Cardinality(el) - 1
                         /\ t \notin el => el \ {t} = el
  BY <1>1, Sizes
<1>3. ASSUME UNCHANGED <<made, phantom, taken, buffer, el, lost>> PROVE Balance'
  BY <1>3
<1>4. ASSUME NEW t \in Threads, Enter(t) \/ Decide(t) \/ Sleep(t) \/ SpuriousWakeup(t)
      PROVE  Balance'
  BY <1>3, <1>4 DEF Enter, Decide, Sleep, SpuriousWakeup, history
<1>5. ASSUME NEW t \in Threads, Return(t) PROVE Balance'
  <2>1. /\ lost' = lost + (IF t \in el THEN 1 ELSE 0) /\ el' = el \ {t}
        /\ UNCHANGED <<made, taken, phantom>> /\ Len(buffer') = Len(buffer)
    BY <1>5 DEF Return
  <2>2. Cardinality(el') = Cardinality(el) - (IF t \in el THEN 1 ELSE 0)
    BY <1>1, <2>1, Sizes
  <2> QED
    BY <1>1, <2>1, <2>2
<1>6. ASSUME NEW p \in Producers, ProducerLoop(p) PROVE Balance'
  <2>1. p \in Threads /\ (pc[p] = "test" => p \notin el)
    BY Groups DEF ElementInv
  <2> QED
    BY <1>1, <1>2, <1>6, <2>1 DEF ProducerLoop
<1>7. ASSUME NEW p \in Producers, Emplace(p) PROVE Balance'
  <2>1. p \in Threads /\ p \in el
    BY <1>7, Groups DEF ElementInv, Emplace
  <2>2. Len(buffer') = Len(buffer) + 1
    BY <1>7 DEF Emplace, TypeInv, BufferInv
  <2>3. el' = el \ {p} /\ UNCHANGED <<made, taken, phantom, lost>>
    BY <1>7 DEF Emplace
  <2>4. Cardinality(el') = Cardinality(el) - 1
    BY <1>2, <2>1, <2>3
  <2> QED
    BY <1>1, <2>2, <2>3, <2>4
<1>8. ASSUME NEW p \in Producers, StoreProduced(p) \/ ProducerNotifies(p) PROVE Balance'
  BY <1>3, <1>8 DEF StoreProduced, ProducerNotifies, history
<1>9. ASSUME NEW c \in Consumers, Pop(c) PROVE Balance'
  <2>1. /\ Len(buffer') = Len(buffer) - 1 /\ lost' = lost + (IF c \in el THEN 1 ELSE 0)
        /\ el' = el \cup {c} /\ UNCHANGED <<made, taken, phantom>>
    BY <1>9, Groups DEF Pop, MustWait, TypeInv, BufferInv
  <2>2. Cardinality(el') = Cardinality(el) + (IF c \in el THEN 0 ELSE 1)
    BY <1>1, <2>1, Sizes
  <2> QED
    BY <1>1, <2>1, <2>2
<1>10. ASSUME NEW c \in Consumers, Consume(c) PROVE Balance'
  <2>1. /\ taken' = taken + 1 /\ phantom' = phantom + (IF c \in el THEN 0 ELSE 1)
        /\ el' = el \ {c} /\ UNCHANGED <<made, lost>> /\ Len(buffer') = Len(buffer)
    BY <1>10 DEF Consume
  <2>2. Cardinality(el') = Cardinality(el) - (IF c \in el THEN 1 ELSE 0)
    BY <1>1, <2>1, Sizes
  <2> QED
    BY <1>1, <2>1, <2>2
<1>11. ASSUME NEW c \in Consumers, ConsumerLoop(c) \/ ConsumerNotifies(c) \/ StoreConsumed(c)
       PROVE  Balance'
  BY <1>3, <1>11 DEF ConsumerLoop, ConsumerNotifies, StoreConsumed, history
<1>12. CASE MainStep \/ UNCHANGED vars
  BY <1>3, <1>12 DEF MainStep, SetDone, NotifyConsumers, NotifyProducers, Join, vars,
                     threadVars, history
<1> QED
  BY <1>4, <1>5, <1>6, <1>7, <1>8, <1>9, <1>10, <1>11, <1>12 DEF Next, Step
-----------------------------------------------------------------------------
EndedProducers == {p \in Producers : pc[p] = "ended"}

(* A step that loses nothing keeps the bound on losses.                     *)
LEMMA LossStays ==
  ASSUME TypeInv, DropInv, program' = program, UNCHANGED <<lost, phantom>>,
         done => done', \A p \in Producers : pc[p] = "ended" => pc'[p] = "ended"
  PROVE  DropInv'
<1>1. EndedProducers \subseteq EndedProducers' /\ EndedProducers' \subseteq Producers
  BY DEF EndedProducers
<1>2. /\ Cardinality(EndedProducers) <= Cardinality(EndedProducers')
      /\ Cardinality(EndedProducers) \in Nat /\ Cardinality(EndedProducers') \in Nat
  BY <1>1, Groups, FS_Subset, FS_CardinalityType
<1>3. lost \in Nat
  BY DEF TypeInv
<1> QED
  BY <1>2, <1>3 DEF DropInv, EndedProducers, perElement

(* An element is dropped only by a producer that then ends.                 *)
LEMMA LossStep ==
  TypeInv /\ ElementInv /\ DropInv /\ [Next]_vars => DropInv'
<1> SUFFICES ASSUME TypeInv, ElementInv, DropInv, [Next]_vars
             PROVE  DropInv'
  OBVIOUS
<1>1. program' = program
  BY DEF Next, vars
<1>2. pc \in [Threads -> Places] /\ lost \in Nat /\ phantom \in Nat
  BY DEF TypeInv
<1>3. ASSUME NEW t \in Threads, Enter(t) \/ Decide(t) \/ Sleep(t) \/ SpuriousWakeup(t)
      PROVE  DropInv'
  BY <1>1, <1>2, <1>3, LossStays, Groups
     DEF Enter, Decide, Sleep, SpuriousWakeup, Goto, history
<1>4. ASSUME NEW t \in Threads, Return(t) PROVE DropInv'
  <2>1. /\ done /\ done' = done /\ phantom' = phantom /\ pc[t] = "check"
        /\ pc' = [pc EXCEPT ![t] = "ended"]
        /\ lost' = lost + (IF t \in el THEN 1 ELSE 0)
    BY <1>4 DEF Return, Goto
  <2>2. CASE t \notin el
    BY <1>1, <1>2, <2>1, <2>2, LossStays, Groups
  <2>3. CASE t \in el /\ ~perElement
    BY <1>1, <2>3 DEF DropInv, perElement
  <2>4. CASE t \in el /\ perElement
    <3>1. t \in Producers
      BY <2>1, <2>4 DEF ElementInv, Threads
    <3>2. EndedProducers' = EndedProducers \cup {t} /\ t \notin EndedProducers
      BY <1>2, <2>1, <3>1, Groups DEF EndedProducers
    <3>3. EndedProducers \subseteq Threads
      BY Groups DEF EndedProducers
    <3>4. /\ Cardinality(EndedProducers') = Cardinality(EndedProducers) + 1
          /\ Cardinality(EndedProducers) \in Nat
      BY <3>2, <3>3, Sizes
    <3> QED
      BY <1>1, <1>2, <2>1, <2>4, <3>4 DEF DropInv, perElement, EndedProducers
  <2> QED
    BY <2>2, <2>3, <2>4
<1>5. ASSUME NEW p \in Producers,
             ProducerLoop(p) \/ StoreProduced(p) \/ Emplace(p) \/ ProducerNotifies(p)
      PROVE  DropInv'
  BY <1>1, <1>2, <1>5, LossStays, Groups
     DEF ProducerLoop, StoreProduced, Emplace, ProducerNotifies, Goto, history
<1>6. ASSUME NEW c \in Consumers, ConsumerLoop(c) \/ ConsumerNotifies(c) \/ StoreConsumed(c)
      PROVE  DropInv'
  BY <1>1, <1>2, <1>6, LossStays, Groups
     DEF ConsumerLoop, ConsumerNotifies, StoreConsumed, Goto, history
<1>7. ASSUME NEW c \in Consumers, Pop(c) \/ Consume(c) PROVE DropInv'
  <2>1. CASE ~perElement
    BY <1>1, <2>1 DEF DropInv, perElement
  <2>2. CASE perElement
    <3>1. (c \in el <=> pc[c] \in {"notify", "consume"})
      BY <2>2 DEF ElementInv
    <3>2. /\ UNCHANGED <<lost, phantom, done>>
          /\ \A p \in Producers : pc[p] = "ended" => pc'[p] = "ended"
      BY <1>2, <1>7, <3>1, Groups DEF Pop, Consume, Goto
    <3> QED
      BY <1>1, <3>2, LossStays
  <2> QED
    BY <2>1, <2>2
<1>8. CASE MainStep \/ UNCHANGED vars
  BY <1>1, <1>8, LossStays
     DEF MainStep, SetDone, NotifyConsumers, NotifyProducers, Join, vars, threadVars, history
<1> QED
  BY <1>3, <1>4, <1>5, <1>6, <1>7, <1>8 DEF Next, Step
-----------------------------------------------------------------------------
(* The elements stored so far, and those removed, are finitely many.        *)
LEMMA Intervals ==
  ASSUME NEW n \in Nat PROVE IsFiniteSet(1..n) /\ Cardinality(1..n) = n
BY FS_Interval

(* A finite set has as many members as its two parts.                       *)
LEMMA Parts ==
  ASSUME NEW S, IsFiniteSet(S), NEW A, NEW B, S = A \cup B, A \cap B = {}
  PROVE  Cardinality(S) = Cardinality(A) + Cardinality(B)
<1>1. IsFiniteSet(A) /\ IsFiniteSet(B)
  BY FS_Subset
<1>2. Cardinality(A \cup B) = Cardinality(A) + Cardinality(B) - Cardinality(A \cap B)
  BY <1>1, FS_Union
<1>3. Cardinality(A) \in Nat /\ Cardinality(B) \in Nat /\ Cardinality(A \cap B) = 0
  BY <1>1, FS_CardinalityType, FS_EmptySet
<1> QED
  BY <1>2, <1>3

(* Of the buffer and of what was taken over, only storing and taking change *)
(* anything.                                                                *)
LEMMA PassStep == TypeInv /\ PassInv /\ [Next]_vars => PassInv'
<1> SUFFICES ASSUME TypeInv, PassInv, [Next]_vars PROVE PassInv'
  OBVIOUS
<1>1. ASSUME UNCHANGED <<buffer, passes>> PROVE PassInv'
  BY <1>1 DEF PassInv, passes
<1>2. /\ buffer \in Seq(Nat) /\ Len(buffer) \in Nat /\ Len(buffer) <= MAX /\ MAX \in Nat
      /\ stored \in Nat /\ doubled \in Nat /\ copied \subseteq 1..stored
      /\ Len(buffer) <= stored
  BY Groups DEF TypeInv, PassInv, BufferInv
<1>3. IsFiniteSet(copied) /\ Cardinality(copied) \in Nat
  BY <1>2, Intervals, FS_Subset, FS_CardinalityType
<1>4. ASSUME NEW p \in Producers, Emplace(p) PROVE PassInv'
  <2>1. /\ stored' = stored + 1 /\ buffer' = Append(buffer, stored + 1)
        /\ copied' = copied /\ doubled' = doubled
    BY <1>4 DEF Emplace
  <2>2. /\ Len(buffer') = Len(buffer) + 1
        /\ \A i \in 1..Len(buffer) : buffer'[i] = buffer[i]
        /\ buffer'[Len(buffer) + 1] = stored + 1
    BY <1>2, <2>1
  <2>3. stored' - Len(buffer') = stored - Len(buffer)
    BY <1>2, <2>1, <2>2
  <2>4. ASSUME NEW i \in 1..Len(buffer') PROVE buffer'[i] = stored' - Len(buffer') + i
    <3>1. i \in 1..Len(buffer) \/ i = Len(buffer) + 1
      BY <1>2, <2>2
    <3>2. CASE i \in 1..Len(buffer)
      <4>1. buffer'[i] = stored - Len(buffer) + i
        BY <2>2, <3>2 DEF PassInv
      <4> QED
        BY <2>3, <4>1
    <3>3. CASE i = Len(buffer) + 1
      BY <1>2, <2>1, <2>2, <3>3
    <3> QED
      BY <3>1, <3>2, <3>3
  <2>5. /\ stored' \in Nat /\ doubled' \in Nat /\ copied' \subseteq 1..stored'
        /\ Len(buffer') <= stored'
    BY <1>2, <2>1, <2>2
  <2>6. stored' - Len(buffer') = Cardinality(copied') + doubled'
    BY <2>1, <2>3 DEF PassInv
  <2>7. \A e \in 1..(stored' - Len(buffer')) :
          e \in copied' \/ \E d \in copied' : e < d /\ d < e + MAX
    BY <2>1, <2>3 DEF PassInv
  <2> QED
    BY <2>4, <2>5, <2>6, <2>7 DEF PassInv
<1>5. ASSUME NEW c \in Consumers, Pop(c) PROVE PassInv'
  <2>1. /\ Len(buffer) > 0 /\ stored' = stored /\ buffer' = Tail(buffer)
        /\ copied' = copied \cup {Last(buffer)}
        /\ doubled' = doubled + (IF Last(buffer) \in copied THEN 1 ELSE 0)
    BY <1>2, <1>5, Groups DEF Pop, MustWait
  <2>2. Last(buffer) = stored
    BY <1>2, <2>1 DEF Last, PassInv
  <2>3. /\ Len(buffer') = Len(buffer) - 1
        /\ \A i \in 1..Len(buffer') : buffer'[i] = buffer[i + 1]
    BY <1>2, <2>1
  <2>4. stored' - Len(buffer') = stored - Len(buffer) + 1 /\ Len(buffer') <= stored'
    <3>1. Len(buffer') = Len(buffer) - 1 /\ stored' = stored
      BY <2>1, <2>3
    <3> QED
      BY <1>2, <3>1
  <2>5. ASSUME NEW i \in 1..Len(buffer') PROVE buffer'[i] = stored' - Len(buffer') + i
    <3>1. i + 1 \in 1..Len(buffer) /\ buffer'[i] = buffer[i + 1]
      BY <1>2, <2>3
    <3> QED
      BY <1>2, <2>4, <3>1 DEF PassInv
  <2>6. stored' - Len(buffer') = Cardinality(copied') + doubled'
    <3>1. Cardinality(copied') = IF stored \in copied THEN Cardinality(copied)
                                 ELSE Cardinality(copied) + 1
      BY <1>3, <2>1, <2>2, FS_AddElement
    <3>2. stored - Len(buffer) = Cardinality(copied) + doubled
      BY DEF PassInv
    <3> QED
      BY <1>2, <1>3, <2>1, <2>2, <2>4, <3>1, <3>2
  <2>7. ASSUME NEW e \in 1..(stored' - Len(buffer'))
        PROVE  e \in copied' \/ \E d \in copied' : e < d /\ d < e + MAX
    <3>1. CASE e <= stored - Len(buffer)
      <4>1. e \in 1..(stored - Len(buffer))
        BY <1>2, <3>1
      <4> QED
        BY <2>1, <4>1 DEF PassInv
    <3>2. CASE e = stored - Len(buffer) + 1
      <4>1. stored \in copied' /\ (e = stored \/ (e < stored /\ stored < e + MAX))
        BY <1>2, <2>1, <2>2, <3>2
      <4> QED
        BY <4>1
    <3> QED
      BY <1>2, <2>4, <3>1, <3>2
  <2>8. copied' \subseteq 1..stored' /\ doubled' \in Nat /\ stored' \in Nat
    BY <1>2, <2>1, <2>2
  <2> QED
    BY <2>4, <2>5, <2>6, <2>7, <2>8 DEF PassInv
<1>6. ASSUME NEW t \in Threads,
             \/ Enter(t) \/ Decide(t) \/ Return(t) \/ Sleep(t) \/ SpuriousWakeup(t)
             \/ ProducerLoop(t) \/ StoreProduced(t) \/ ProducerNotifies(t)
             \/ ConsumerLoop(t) \/ ConsumerNotifies(t) \/ Consume(t) \/ StoreConsumed(t)
      PROVE  PassInv'
  BY <1>1, <1>6
     DEF Enter, Decide, Return, Sleep, SpuriousWakeup, ProducerLoop, StoreProduced,
         ProducerNotifies, ConsumerLoop, ConsumerNotifies, Consume, StoreConsumed, history
<1>7. CASE MainStep \/ UNCHANGED vars
  BY <1>1, <1>7 DEF MainStep, SetDone, NotifyConsumers, NotifyProducers, Join, vars,
                    threadVars, history
<1> QED
  BY <1>4, <1>5, <1>6, <1>7 DEF Next, Step

(* What is skipped is what was removed and not taken over; since one element*)
(* was removed for each taking, there are as many as takings in excess.     *)
LEMMA SkippedAre ==
  ASSUME TypeInv, PassInv
  PROVE  /\ Cardinality(Skipped) = doubled + Cardinality(copied \cap ToSet(buffer))
         /\ \A e \in Skipped : \E d \in copied : e < d /\ d < e + MAX
         /\ buffer \in Seq(1..stored)
<1> DEFINE removed == stored - Len(buffer)
<1>1. /\ buffer \in Seq(Nat) /\ Len(buffer) \in Nat /\ stored \in Nat /\ doubled \in Nat
      /\ removed \in Nat /\ copied \subseteq 1..stored
      /\ \A i \in 1..Len(buffer) : buffer[i] = removed + i
  BY DEF TypeInv, PassInv, BufferInv
<1>2. ToSet(buffer) = (removed + 1)..stored
  <2>1. ToSet(buffer) = {removed + i : i \in 1..Len(buffer)}
    BY <1>1 DEF ToSet
  <2>2. \A e \in (removed + 1)..stored : e - removed \in 1..Len(buffer) /\ e = removed + (e - removed)
    BY <1>1
  <2>3. \A i \in 1..Len(buffer) : removed + i \in (removed + 1)..stored
    BY <1>1
  <2> HIDE DEF removed
  <2> QED
    BY <2>1, <2>2, <2>3
<1>3. Skipped = (1..removed) \ copied
  BY <1>1, <1>2 DEF Skipped
<1>4. /\ IsFiniteSet(1..removed) /\ Cardinality(1..removed) = removed
      /\ IsFiniteSet(1..stored) /\ IsFiniteSet(copied)
  <2> HIDE DEF removed
  <2> QED
    BY <1>1, Intervals, FS_Subset
<1>5. Cardinality(Skipped) = removed - Cardinality((1..removed) \cap copied)
  BY <1>3, <1>4, FS_Difference
<1>6. Cardinality(copied) = Cardinality((1..removed) \cap copied) + Cardinality(copied \cap ToSet(buffer))
  <2>1. /\ copied = ((1..removed) \cap copied) \cup (copied \cap ToSet(buffer))
        /\ ((1..removed) \cap copied) \cap (copied \cap ToSet(buffer)) = {}
    <3>1. \A e \in 1..stored : e \in 1..removed <=> e \notin (removed + 1)..stored
      <4>1. removed \in Nat /\ stored \in Nat
        BY <1>1
      <4> HIDE DEF removed
      <4> QED
        BY <4>1
    <3> HIDE DEF removed
    <3> QED
      BY <1>1, <1>2, <3>1
  <2> HIDE DEF removed
  <2> QED
    BY <1>4, <2>1, Parts
<1>7. removed = Cardinality(copied) + doubled
  BY DEF PassInv
<1>8. /\ Cardinality(copied) \in Nat /\ Cardinality((1..removed) \cap copied) \in Nat
      /\ Cardinality(copied \cap ToSet(buffer)) \in Nat
  BY <1>4, FS_Subset, FS_CardinalityType
<1>9. Cardinality(Skipped) = doubled + Cardinality(copied \cap ToSet(buffer))
  <2> HIDE DEF removed
  <2> QED
    BY <1>1, <1>5, <1>6, <1>7, <1>8
<1>10. \A e \in Skipped : \E d \in copied : e < d /\ d < e + MAX
  BY <1>3 DEF PassInv
<1>11. buffer \in Seq(1..stored)
  <2>1. \A i \in 1..Len(buffer) : buffer[i] \in 1..stored
    BY <1>1
  <2> QED
    BY <1>1, <2>1
<1> QED
  BY <1>9, <1>10, <1>11
-----------------------------------------------------------------------------
(* Who covers the elements, or the free places, that sleepers do not get.   *)
LEMMA Covers ==
  ASSUME TypeInv
  PROVE  /\ Cardinality(Consumers \ waiters["consume"]) \in Nat
         /\ Cardinality(Producers \ waiters["produce"]) \in Nat
         /\ \A group \in {Producers, Consumers} : /\ Owing(group) \subseteq Threads
                                                /\ Cardinality(Owing(group)) \in Nat
<1>1. /\ Consumers \ waiters["consume"] \subseteq Threads
      /\ Producers \ waiters["produce"] \subseteq Threads
      /\ Owing(Producers) \subseteq Threads /\ Owing(Consumers) \subseteq Threads
  BY Groups DEF Owing
<1> QED
  BY <1>1, Sizes

(* A set that grows has no fewer members.                                   *)
LEMMA Larger ==
  ASSUME NEW S, NEW T, S \subseteq T, T \subseteq Threads
  PROVE  Cardinality(S) <= Cardinality(T)
BY Groups, FS_Subset

(* One new member counts for one.                                           *)
LEMMA OneMore ==
  ASSUME NEW S, NEW T, NEW t, S \subseteq Threads, t \notin S, T = S \cup {t}
  PROVE  Cardinality(T) = Cardinality(S) + 1
BY Sizes

(* Steps that move no element, put nobody to sleep and settle no debt.      *)
LEMMA WakeupsStay ==
  ASSUME TypeInv, TypeInv', NoLostWakeup, program' = program, done => done', buffer' = buffer,
         \A cv \in {"produce", "consume"} : waiters'[cv] = {} \/ waiters'[cv] \subseteq waiters[cv],
         \A t \in Threads : pc[t] = "notify" => pc'[t] = "notify"
  PROVE  NoLostWakeup'
<1>1. /\ Cardinality(Owing(Producers)) <= Cardinality(Owing(Producers)')
      /\ Cardinality(Owing(Consumers)) <= Cardinality(Owing(Consumers)')
  <2>1. /\ Owing(Producers) \subseteq Owing(Producers)' /\ Owing(Producers)' \subseteq Threads
        /\ Owing(Consumers) \subseteq Owing(Consumers)' /\ Owing(Consumers)' \subseteq Threads
    BY Groups DEF Owing
  <2> QED
    BY <2>1, Larger
<1>2. ASSUME waiters'["consume"] # {}
      PROVE  /\ waiters["consume"] # {}
             /\ Cardinality(Consumers \ waiters["consume"])
                  <= Cardinality(Consumers \ waiters'["consume"])
  BY <1>2, Groups, Larger
<1>3. ASSUME waiters'["produce"] # {}
      PROVE  /\ waiters["produce"] # {}
             /\ Cardinality(Producers \ waiters["produce"])
                  <= Cardinality(Producers \ waiters'["produce"])
  BY <1>3, Groups, Larger
<1>4. /\ Cardinality(Consumers \ waiters["consume"]) \in Nat
      /\ Cardinality(Producers \ waiters["produce"]) \in Nat
      /\ Cardinality(Consumers \ waiters'["consume"]) \in Nat
      /\ Cardinality(Producers \ waiters'["produce"]) \in Nat
      /\ Cardinality(Owing(Producers)) \in Nat /\ Cardinality(Owing(Producers)') \in Nat
      /\ Cardinality(Owing(Consumers)) \in Nat /\ Cardinality(Owing(Consumers)') \in Nat
  <2>1. /\ Consumers \ waiters'["consume"] \subseteq Threads
        /\ Producers \ waiters'["produce"] \subseteq Threads
        /\ Owing(Producers)' \subseteq Threads /\ Owing(Consumers)' \subseteq Threads
    BY Groups DEF Owing
  <2> QED
    BY <2>1, Covers, Sizes
<1>5. Len(buffer) \in Int /\ MAX \in Int
  BY Groups DEF TypeInv, BufferInv
<1>6. ASSUME perElement, ~done, waiters'["consume"] # {}
      PROVE  Len(buffer)' <= Cardinality(Consumers \ waiters'["consume"])
                          + Cardinality(Owing(Producers)')
  <2>1. Len(buffer) <= Cardinality(Consumers \ waiters["consume"]) + Cardinality(Owing(Producers))
    BY <1>2, <1>6 DEF NoLostWakeup
  <2> QED
    BY <1>1, <1>2, <1>4, <1>5, <1>6, <2>1
<1>7. ASSUME perElement, ~done, waiters'["produce"] # {}
      PROVE  MAX - Len(buffer)' <= Cardinality(Producers \ waiters'["produce"])
                                + Cardinality(Owing(Consumers)')
  <2>1. MAX - Len(buffer) <= Cardinality(Producers \ waiters["produce"]) + Cardinality(Owing(Consumers))
    BY <1>3, <1>7 DEF NoLostWakeup
  <2> QED
    BY <1>1, <1>3, <1>4, <1>5, <1>7, <2>1
<1> QED
  BY <1>6, <1>7 DEF NoLostWakeup, perElement

(* An element that goes in is owed a notification; one notification is paid *)
(* by one sleeper who wakes; and so for the places.                         *)
LEMMA WakeupStep ==
  TypeInv /\ TypeInv' /\ LockInv /\ NoLostWakeup /\ [Next]_vars => NoLostWakeup'
<1> SUFFICES ASSUME TypeInv, TypeInv', LockInv, NoLostWakeup, [Next]_vars PROVE NoLostWakeup'
  OBVIOUS
<1>1. program' = program
  BY DEF Next, vars
<1>2. /\ pc \in [Threads -> Places] /\ waiters \in [{"produce", "consume"} -> SUBSET Threads]
      /\ waiters["produce"] \subseteq Producers /\ waiters["consume"] \subseteq Consumers
      /\ Len(buffer) \in Int /\ MAX \in Int /\ MAX >= 0
      /\ Len(buffer) >= 0 /\ Len(buffer) <= MAX
  BY Groups DEF TypeInv, BufferInv
<1>3. /\ Cardinality(Consumers \ waiters["consume"]) \in Nat
      /\ Cardinality(Producers \ waiters["produce"]) \in Nat
      /\ Cardinality(Consumers \ waiters'["consume"]) \in Nat
      /\ Cardinality(Producers \ waiters'["produce"]) \in Nat
      /\ Owing(Producers) \subseteq Threads /\ Owing(Consumers) \subseteq Threads
      /\ Cardinality(Owing(Producers)) \in Nat /\ Cardinality(Owing(Producers)') \in Nat
      /\ Cardinality(Owing(Consumers)) \in Nat /\ Cardinality(Owing(Consumers)') \in Nat
  <2>1. /\ Consumers \ waiters'["consume"] \subseteq Threads
        /\ Producers \ waiters'["produce"] \subseteq Threads
        /\ Owing(Producers)' \subseteq Threads /\ Owing(Consumers)' \subseteq Threads
    BY Groups DEF Owing
  <2> QED
    BY <2>1, Covers, Sizes
<1>4. ASSUME NEW t \in Threads, Enter(t) \/ Decide(t) PROVE NoLostWakeup'
  BY <1>1, <1>2, <1>4, WakeupsStay DEF Enter, Decide, Goto, monitorVars
<1>5. ASSUME NEW t \in Threads, Return(t) PROVE NoLostWakeup'
  BY <1>5 DEF Return, NoLostWakeup
<1>6. ASSUME NEW t \in Threads, Sleep(t) PROVE NoLostWakeup'
  <2>1. /\ MustWait(t) /\ UNCHANGED <<done, buffer>> /\ pc[t] = "wait"
        /\ pc' = [pc EXCEPT ![t] = "woken"]
        /\ waiters' = [waiters EXCEPT ![Queue(t)] = @ \cup {t}]
    BY <1>6 DEF Sleep, Wait, Goto, LockInv
  <2>2. Owing(Producers)' = Owing(Producers) /\ Owing(Consumers)' = Owing(Consumers)
    BY <1>2, <2>1, Groups DEF Owing
  <2>3. CASE t \in Producers
    <3>1. waiters'["consume"] = waiters["consume"] /\ Len(buffer) = MAX
      BY <1>2, <2>1, <2>3 DEF Queue, MustWait
    <3>2. MAX - Len(buffer)' <= Cardinality(Producers \ waiters'["produce"])
                                + Cardinality(Owing(Consumers)')
      BY <1>2, <1>3, <2>1, <3>1
    <3> QED
      BY <1>1, <2>1, <2>2, <3>1, <3>2 DEF NoLostWakeup, perElement
  <2>4. CASE t \notin Producers
    <3>1. waiters'["produce"] = waiters["produce"] /\ Len(buffer) = 0
      BY <1>2, <2>1, <2>4 DEF Queue, MustWait
    <3>2. Len(buffer)' <= Cardinality(Consumers \ waiters'["consume"])
                          + Cardinality(Owing(Producers)')
      BY <1>2, <1>3, <2>1, <3>1
    <3> QED
      BY <1>1, <2>1, <2>2, <3>1, <3>2 DEF NoLostWakeup, perElement
  <2> QED
    BY <2>3, <2>4
<1>7. ASSUME NEW t \in Threads, SpuriousWakeup(t) PROVE NoLostWakeup'
  BY <1>1, <1>2, <1>7, Woken, WakeupsStay DEF SpuriousWakeup
<1>8. ASSUME NEW p \in Producers, ProducerLoop(p) \/ StoreProduced(p) PROVE NoLostWakeup'
  BY <1>1, <1>2, <1>8, WakeupsStay, Groups DEF ProducerLoop, StoreProduced, Goto, monitorVars
<1>9. ASSUME NEW p \in Producers, Emplace(p) PROVE NoLostWakeup'
  <2>1. /\ p \in Threads /\ pc[p] = "check" /\ pc' = [pc EXCEPT ![p] = "notify"]
        /\ Len(buffer)' = Len(buffer) + 1 /\ UNCHANGED <<waiters, done>>
    BY <1>9, Groups DEF Emplace, Goto, TypeInv, BufferInv
  <2>2. /\ Owing(Producers)' = Owing(Producers) \cup {p} /\ p \notin Owing(Producers)
        /\ Owing(Consumers)' = Owing(Consumers)
    BY <1>2, <2>1, Groups DEF Owing
  <2>3. Cardinality(Owing(Producers)') = Cardinality(Owing(Producers)) + 1
    BY <1>3, <2>2, Sizes
  <2> QED
    BY <1>1, <1>2, <1>3, <2>1, <2>2, <2>3 DEF NoLostWakeup, perElement
<1>10. ASSUME NEW c \in Consumers, Pop(c) PROVE NoLostWakeup'
  <2>1. CASE ~perElement
    BY <1>1, <2>1 DEF NoLostWakeup, perElement
  <2>2. CASE perElement
    <3>1. /\ c \in Threads /\ pc[c] = "check" /\ pc' = [pc EXCEPT ![c] = "notify"]
          /\ Len(buffer)' = Len(buffer) - 1 /\ UNCHANGED <<waiters, done>>
      BY <1>10, <2>2, Groups DEF Pop, Goto, MustWait, TypeInv, BufferInv
    <3>2. /\ Owing(Consumers)' = Owing(Consumers) \cup {c} /\ c \notin Owing(Consumers)
          /\ Owing(Producers)' = Owing(Producers)
      BY <1>2, <3>1, Groups DEF Owing
    <3>3. Cardinality(Owing(Consumers)') = Cardinality(Owing(Consumers)) + 1
      BY <1>3, <3>2, Sizes
    <3> QED
      BY <1>1, <1>2, <1>3, <3>1, <3>2, <3>3 DEF NoLostWakeup, perElement
  <2> QED
    BY <2>1, <2>2
<1>11. ASSUME NEW p \in Producers, ProducerNotifies(p) PROVE NoLostWakeup'
  <2>1. /\ p \in Threads /\ pc[p] = "notify" /\ pc' = [pc EXCEPT ![p] = "test"]
        /\ UNCHANGED <<buffer, done>> /\ NotifyOne("consume")
    BY <1>11, Groups DEF ProducerNotifies, Goto
  <2>2. /\ Owing(Producers)' = Owing(Producers) \ {p} /\ p \in Owing(Producers)
        /\ Owing(Consumers)' = Owing(Consumers)
    BY <1>2, <2>1, Groups DEF Owing
  <2>3. Cardinality(Owing(Producers)') = Cardinality(Owing(Producers)) - 1
    BY <1>3, <2>2, Sizes
  <2>4. waiters'["produce"] = waiters["produce"]
    BY <1>2, <2>1 DEF NotifyOne
  <2>5. CASE waiters["consume"] = {}
    BY <1>1, <2>1, <2>2, <2>4, <2>5 DEF NotifyOne, NoLostWakeup, perElement
  <2>6. CASE waiters["consume"] # {}
    <3>1. PICK t \in waiters["consume"] : waiters'["consume"] = waiters["consume"] \ {t}
      BY <1>2, <2>1, <2>6 DEF NotifyOne
    <3>2. /\ Consumers \ waiters'["consume"] = (Consumers \ waiters["consume"]) \cup {t}
          /\ t \notin Consumers \ waiters["consume"]
          /\ Consumers \ waiters["consume"] \subseteq Threads
      BY <1>2, <3>1, Groups
    <3>3. Cardinality(Consumers \ waiters'["consume"])
            = Cardinality(Consumers \ waiters["consume"]) + 1
      BY <3>2, OneMore
    <3> QED
      BY <1>1, <1>2, <1>3, <2>1, <2>2, <2>3, <2>4, <2>6, <3>3 DEF NoLostWakeup, perElement
  <2> QED
    BY <2>5, <2>6
<1>12. ASSUME NEW c \in Consumers, ConsumerNotifies(c) PROVE NoLostWakeup'
  <2>1. /\ c \in Threads /\ pc[c] = "notify" /\ pc' = [pc EXCEPT ![c] = "consume"]
        /\ UNCHANGED <<buffer, done>> /\ NotifyOne("produce")
    BY <1>12, Groups DEF ConsumerNotifies, Goto
  <2>2. /\ Owing(Consumers)' = Owing(Consumers) \ {c} /\ c \in Owing(Consumers)
        /\ Owing(Producers)' = Owing(Producers)
    BY <1>2, <2>1, Groups DEF Owing
  <2>3. Cardinality(Owing(Consumers)') = Cardinality(Owing(Consumers)) - 1
    BY <1>3, <2>2, Sizes
  <2>4. waiters'["consume"] = waiters["consume"]
    BY <1>2, <2>1 DEF NotifyOne
  <2>5. CASE waiters["produce"] = {}
    BY <1>1, <2>1, <2>2, <2>4, <2>5 DEF NotifyOne, NoLostWakeup, perElement
  <2>6. CASE waiters["produce"] # {}
    <3>1. PICK t \in waiters["produce"] : waiters'["produce"] = waiters["produce"] \ {t}
      BY <1>2, <2>1, <2>6 DEF NotifyOne
    <3>2. /\ Producers \ waiters'["produce"] = (Producers \ waiters["produce"]) \cup {t}
          /\ t \notin Producers \ waiters["produce"]
          /\ Producers \ waiters["produce"] \subseteq Threads
      BY <1>2, <3>1, Groups
    <3>3. Cardinality(Producers \ waiters'["produce"])
            = Cardinality(Producers \ waiters["produce"]) + 1
      BY <3>2, OneMore
    <3> QED
      BY <1>1, <1>2, <1>3, <2>1, <2>2, <2>3, <2>4, <2>6, <3>3 DEF NoLostWakeup, perElement
  <2> QED
    BY <2>5, <2>6
<1>13. ASSUME NEW c \in Consumers, ConsumerLoop(c) \/ Consume(c) \/ StoreConsumed(c)
       PROVE  NoLostWakeup'
  BY <1>1, <1>2, <1>13, WakeupsStay, Groups
     DEF ConsumerLoop, Consume, StoreConsumed, Goto, monitorVars
<1>14. CASE MainStep
  BY <1>1, <1>2, <1>14, WakeupsStay
     DEF MainStep, SetDone, NotifyConsumers, NotifyProducers, Join, NotifyAll, monitorVars
<1>15. CASE UNCHANGED vars
  BY <1>1, <1>15, WakeupsStay DEF vars, threadVars, monitorVars, history
<1> QED
  BY <1>4, <1>5, <1>6, <1>7, <1>8, <1>9, <1>10, <1>11, <1>12, <1>13, <1>14, <1>15
     DEF Next, Step
-----------------------------------------------------------------------------
(* Main sets done before it notifies and joins after it.                    *)
LEMMA MainStepInv == TypeInv /\ MainInv /\ [Next]_vars => MainInv'
<1> SUFFICES ASSUME TypeInv, MainInv, [Next]_vars PROVE MainInv'
  OBVIOUS
<1> USE DEF MainInv
<1>1. CASE MainStep
  BY <1>1 DEF MainStep, SetDone, NotifyConsumers, NotifyProducers, Join, history, Threads
<1>2. ASSUME UNCHANGED <<main, done, missed>> PROVE MainInv'
  BY <1>2
<1>3. ASSUME NEW t \in Threads, Step(t) \/ SpuriousWakeup(t) PROVE UNCHANGED <<main, done, missed>>
  BY <1>3
  DEF Step, Enter, Decide, Return, Sleep, ProducerLoop, StoreProduced, Emplace, ProducerNotifies,
      ConsumerLoop, Pop, ConsumerNotifies, Consume, StoreConsumed, SpuriousWakeup, history
<1> QED
  BY <1>1, <1>2, <1>3 DEF Next, vars, threadVars, history

(* done is set before main notifies, and with it set nobody decides to      *)
(* sleep any more: those that sleep later had decided before.               *)
LEMMA SleeperStep ==
  TypeInv /\ LockInv /\ MainInv /\ SleepersMissed /\ [Next]_vars => SleepersMissed'
<1> SUFFICES ASSUME TypeInv, LockInv, MainInv, SleepersMissed, [Next]_vars PROVE SleepersMissed'
  OBVIOUS
<1>1. program' = program
  BY DEF Next, vars
<1>2. /\ pc \in [Threads -> Places] /\ Notified \subseteq Threads
      /\ waiters \in [{"produce", "consume"} -> SUBSET Threads]
      /\ Notified # {} => done
      /\ \A t \in Threads : Queue(t) \in {"produce", "consume"}
  BY DEF TypeInv, MainInv, Notified, Threads, Queue
<1>3. ASSUME UNCHANGED <<main, missed>>,
             \A t \in Threads : t \in waiters'[Queue(t)] \/ pc'[t] = "wait"
                               => ~done \/ t \in waiters[Queue(t)] \/ pc[t] = "wait"
      PROVE  SleepersMissed'
  BY <1>1, <1>2, <1>3 DEF SleepersMissed, Notified, perElement, Queue
<1>4. ASSUME NEW t \in Threads, Sleep(t) PROVE SleepersMissed'
  <2>1. /\ waiters' = [waiters EXCEPT ![Queue(t)] = @ \cup {t}]
        /\ pc[t] = "wait" /\ pc' = [pc EXCEPT ![t] = "woken"] /\ UNCHANGED <<main, missed>>
    BY <1>4 DEF Sleep, Wait, Goto, history
  <2> QED
    BY <1>2, <1>3, <2>1
<1>5. ASSUME NEW t \in Threads, SpuriousWakeup(t) PROVE SleepersMissed'
  <2>1. /\ \A d \in {"produce", "consume"} : waiters'[d] \subseteq waiters[d]
        /\ UNCHANGED <<pc, main, missed>>
    BY <1>5, Woken DEF SpuriousWakeup, history
  <2> QED
    BY <1>2, <1>3, <2>1
<1>6. ASSUME NEW t \in Threads, Enter(t) \/ Decide(t) \/ Return(t) PROVE SleepersMissed'
  <2>1. /\ \E l \in {"check", "wait", "ended"} :
              pc' = [pc EXCEPT ![t] = l] /\ (l = "wait" => ~done)
        /\ UNCHANGED <<waiters, main, missed>>
    BY <1>6 DEF Enter, Decide, Return, Goto, monitorVars, history
  <2> QED
    BY <1>2, <1>3, <2>1
<1>7. ASSUME NEW t \in Threads,
             \/ t \in Producers /\ (ProducerLoop(t) \/ StoreProduced(t) \/ Emplace(t))
             \/ t \in Consumers /\ (ConsumerLoop(t) \/ Pop(t) \/ Consume(t) \/ StoreConsumed(t))
      PROVE  SleepersMissed'
  <2>1. /\ \E l \in Places \ {"wait"} : pc' = [pc EXCEPT ![t] = l]
        /\ UNCHANGED <<waiters, main, missed>>
    BY <1>7
    DEF ProducerLoop, StoreProduced, Emplace, ConsumerLoop, Pop, Consume, StoreConsumed, Goto,
        Places, monitorVars, history
  <2> QED
    BY <1>2, <1>3, <2>1
<1>8. ASSUME NEW t \in Threads,
             \/ t \in Producers /\ ProducerNotifies(t)
             \/ t \in Consumers /\ ConsumerNotifies(t)
      PROVE  SleepersMissed'
  <2>1. /\ \A d \in {"produce", "consume"} : waiters'[d] \subseteq waiters[d]
        /\ \E l \in {"test", "consume"} : pc' = [pc EXCEPT ![t] = l]
        /\ UNCHANGED <<main, missed>>
    BY <1>8, OneNotified DEF ProducerNotifies, ConsumerNotifies, Goto, history
  <2> QED
    BY <1>2, <1>3, <2>1
<1>9. CASE SetDone \/ Join
  BY <1>1, <1>2, <1>9 DEF SetDone, Join, SleepersMissed, Notified, perElement, Queue, monitorVars,
    history, Threads
<1>10. CASE NotifyConsumers
  <2>1. /\ waiters' = [waiters EXCEPT !["consume"] = {}] /\ pc' = pc
        /\ missed' = missed \cup {c \in Consumers : pc[c] = "wait"}
        /\ main = "notifyConsumers"
        /\ main' = IF perElement THEN "notifyProducers" ELSE "join"
    BY <1>10 DEF NotifyConsumers, NotifyAll
  <2>2. \A t \in Notified' : t \in Consumers \/ t \in Notified
    BY <1>1, <2>1 DEF Notified, perElement, Threads
  <2> QED
    BY <1>1, <1>2, <2>1, <2>2, Groups DEF SleepersMissed, Queue
<1>11. CASE NotifyProducers
  <2>1. /\ waiters' = [waiters EXCEPT !["produce"] = {}] /\ pc' = pc
        /\ missed' = missed \cup {p \in Producers : pc[p] = "wait"}
        /\ main = "notifyProducers"
        /\ main' = IF perElement THEN "join" ELSE "notifyConsumers"
    BY <1>11 DEF NotifyProducers, NotifyAll
  <2>2. \A t \in Notified' : t \in Producers \/ t \in Notified
    BY <1>1, <2>1 DEF Notified, perElement, Threads
  <2> QED
    BY <1>1, <1>2, <2>1, <2>2, Groups DEF SleepersMissed, Queue
<1>12. CASE UNCHANGED vars
  BY <1>2, <1>3, <1>12 DEF vars, threadVars, monitorVars, history
<1> QED
  BY <1>4, <1>5, <1>6, <1>7, <1>8, <1>9, <1>10, <1>11, <1>12 DEF Next, Step, MainStep
-----------------------------------------------------------------------------
(* The invariant holds in every reachable state.                            *)
LEMMA Invariance == Spec => []IInv
<1>1. IInv /\ [Next]_vars => IInv'
  BY TypeStep, LockStep, ElementStep, CounterStep, BalanceStep, LossStep, PassStep, WakeupStep,
     MainStepInv, SleeperStep DEF IInv
<1> QED
  BY <1>1, InitIInv, PTL DEF Spec

(* Of any number of producers and consumers, in each of the three programs: *)
(* in numbers every element made is consumed, stored, held or dropped; one  *)
(* by one, as many were skipped in the buffer as were taken again or may be *)
(* still; and the counters are exact, or, plain integers, never ahead.      *)
THEOREM ElementsAccounted == Spec => []Accounted
<1>1. IInv => Accounted
  BY SkippedAre DEF IInv, Balance, CounterInv, Accounted
<1> QED
  BY <1>1, Invariance, PTL

(* However many threads there are, an element is skipped only for a younger *)
(* one that was in the buffer with it; and the programs that consume in     *)
(* their loop drop no other before done is set, and then no more than one   *)
(* for each producer that has ended.                                        *)
THEOREM LossBounded == Spec => []LossIsBounded
<1>1. IInv => LossIsBounded
  BY SkippedAre DEF IInv, DropInv, LossIsBounded
<1> QED
  BY <1>1, Invariance, PTL

(* In these programs one notify_one per element loses no wakeup, whatever   *)
(* the number of threads: although it is sent after the unlock, and although*)
(* each may go to any sleeper or be overtaken by one that wakes unasked.    *)
THEOREM WakeupsCovered == Spec => []NoLostWakeup
<1>1. IInv => NoLostWakeup
  BY DEF IInv
<1> QED
  BY <1>1, Invariance, PTL

(* Every variable keeps its type: no counter or buffer leaves its range.    *)
THEOREM TypeCorrect == Spec => []TypeOK
<1>1. IInv => TypeOK
  BY SkippedAre DEF IInv, TypeInv, MainInv, PassInv, BufferInv, TypeOK, Places
<1> QED
  BY <1>1, Invariance, PTL

(* The two notify_all after done is set reach everybody but the threads that*)
(* had found done unset and not blocked yet: what EndsUnlessMissed needs.   *)
THEOREM OnlyMissedSleep ==
  Spec => [](main = "join" =>
               \A t \in Threads : t \in waiters[Queue(t)] \/ pc[t] = "wait" => t \in missed)
<1>1. IInv => (main = "join" =>
               \A t \in Threads : t \in waiters[Queue(t)] \/ pc[t] = "wait" => t \in missed)
  BY DEF IInv, SleepersMissed, Notified
<1> QED
  BY <1>1, Invariance, PTL
=============================================================================
