----------------------------- MODULE DoneQueue -----------------------------
(***************************************************************************)
(* threads/elements.cpp: producers and consumers share a bounded buffer    *)
(* until main, five seconds later, sets the atomic flag done.  The flag is *)
(* written without the mutex that the waiting threads test it under.       *)
(*                                                                         *)
(* cons_work/producer.cpp is the same program but for one brace: its       *)
(* consumers notify and consume after their loop, once, instead of in it.  *)
(* prod_cons/main.cpp is elements.cpp with plain integers for the counters *)
(* two threads advance: a data race, ++ being a read and a write.          *)
(*                                                                         *)
(* Elements are empty structs: the model numbers them in the order they are*)
(* stored.  A consumer takes over the newest, buffer.back(), and removes   *)
(* the oldest, buffer.pop(): the same one only when it is alone.           *)
(***************************************************************************)
EXTENDS Monitor, Integers, FiniteSets, SequencesExt

CONSTANTS
  Producers, Consumers,
  MAX,         (* capacity of the buffer                                    *)
  MaxProduced  (* bound: elements produced before the flag is set           *)

Threads == Producers \cup Consumers

ASSUME DoneQueueAssumption ==
  /\ IsFiniteSet(Producers) /\ IsFiniteSet(Consumers)
  /\ Producers \cap Consumers = {} /\ Free \notin Threads
  /\ MAX \in Nat \ {0} /\ MaxProduced \in Nat

VARIABLES
  program,     (* "elements", "cons_work" or "prod_cons"                    *)
  pc,          (* where each thread is                                      *)
  main,        (* where main is                                             *)
  done,        (* the flag                                                  *)
  buffer,      (* the elements in the queue, the oldest first               *)
  el,          (* the threads whose local el is a live element              *)
  numProduced, numConsumed,
  reg,         (* [Threads -> the counter's value its ++ has read]          *)
  made, taken, (* history: elements produced and consumed                   *)
  stored,      (* history: elements stored so far                           *)
  copied,      (* history: the elements a consumer took over                *)
  doubled,     (* history: takings of an element that had been taken        *)
  lost,        (* history: elements in a local el dropped or overwritten    *)
  phantom,     (* history: consumptions of an el that was never filled      *)
  missed       (* history: threads about to block when notify_all came      *)

monitorVars == <<mutex, waiters>>
counters == <<numProduced, numConsumed, reg>>
passes == <<stored, copied, doubled>>
history == <<made, taken, lost, phantom, missed, passes>>
threadVars == <<monitorVars, pc, main, done, buffer, el, counters, history>>
vars == <<program, threadVars>>

perElement == program # "cons_work"  (* consumers notify and consume in their loop *)
atomic == program # "prod_cons"      (* the counters are atomic                    *)

TypeOK ==
  /\ program \in {"elements", "cons_work", "prod_cons"}
  /\ mutex \in Threads \cup {Free}
  /\ waiters["produce"] \subseteq Producers /\ waiters["consume"] \subseteq Consumers
  /\ pc \in [Threads -> {"test", "lock", "check", "wait", "woken", "notify", "consume",
                     "store", "ended"}]
  /\ main \in {"sleep", "notifyConsumers", "notifyProducers", "join", "ended"}
  /\ done \in BOOLEAN
  /\ buffer \in Seq(1..stored) /\ Len(buffer) <= MAX
  /\ el \subseteq Threads /\ missed \subseteq Threads
  /\ {numProduced, numConsumed, made, taken, stored, doubled, lost, phantom} \subseteq Nat
  /\ copied \subseteq 1..stored
  /\ reg \in [Threads -> Nat]

Init ==
  /\ program \in {"elements", "cons_work", "prod_cons"}
  /\ mutex = Free /\ waiters = [cv \in {"produce", "consume"} |-> {}]
  /\ pc = [t \in Threads |-> "test"]
  /\ main = "sleep" /\ done = FALSE
  /\ buffer = <<>> /\ el = {}
  /\ numProduced = 0 /\ numConsumed = 0 /\ reg = [t \in Threads |-> 0]
  /\ made = 0 /\ taken = 0
  /\ stored = 0 /\ copied = {} /\ doubled = 0
  /\ lost = 0 /\ phantom = 0 /\ missed = {}

Goto(t, label) == pc' = [pc EXCEPT ![t] = label]
-----------------------------------------------------------------------------
(* What producers and consumers have in common: a loop while not done, and  *)
(* in it a wait while the buffer is full, or empty.                         *)

Queue(t) == IF t \in Producers THEN "produce" ELSE "consume"

MustWait(t) == IF t \in Producers THEN Len(buffer) = MAX ELSE Len(buffer) = 0

(* ++ on the counter of thread t: all of it, or, of a plain int, the read.  *)
Increment(t) ==
  IF ~atomic
  THEN /\ reg' = [reg EXCEPT ![t] = IF t \in Producers THEN numProduced ELSE numConsumed]
       /\ UNCHANGED <<numProduced, numConsumed>>
  ELSE /\ UNCHANGED reg
       /\ IF t \in Producers THEN numProduced' = numProduced + 1 /\ UNCHANGED numConsumed
                              ELSE numConsumed' = numConsumed + 1 /\ UNCHANGED numProduced

(* ... and the write, which undoes what others added in between.            *)
StoreProduced(p) ==
  /\ pc[p] = "store"
  /\ numProduced' = reg[p] + 1 /\ reg' = [reg EXCEPT ![p] = 0]
  /\ Goto(p, "lock")
  /\ UNCHANGED <<monitorVars, main, done, buffer, el, numConsumed, history>>

StoreConsumed(c) ==
  /\ pc[c] = "store"
  /\ numConsumed' = reg[c] + 1 /\ reg' = [reg EXCEPT ![c] = 0]
  /\ Goto(c, "test")
  /\ UNCHANGED <<monitorVars, main, done, buffer, el, numProduced, history>>

(* From the loop's test to the lock; a producer makes its element first.    *)
ProducerLoop(p) ==
  /\ pc[p] = "test"
  /\ \/ done /\ Goto(p, "ended") /\ UNCHANGED <<el, counters, made>>
     \/ /\ ~done /\ made < MaxProduced
        /\ Increment(p)
        /\ made' = made + 1
        /\ el' = el \cup {p}
        /\ Goto(p, IF atomic THEN "lock" ELSE "store")
  /\ UNCHANGED <<monitorVars, main, done, buffer, taken, lost, phantom, missed,
                 passes>>

ConsumerLoop(c) ==
  /\ pc[c] = "test"
  /\ \/ ~done /\ Goto(c, "lock")
     \/ done /\ perElement /\ Goto(c, "ended")
     \/ done /\ ~perElement /\ Goto(c, "notify")
  /\ UNCHANGED <<monitorVars, main, done, buffer, el, counters, history>>

(* The unique_lock, or the one wait() takes again before it returns.        *)
Enter(t) ==
  /\ pc[t] = "lock" \/ (pc[t] = "woken" /\ ~Blocked(t))
  /\ Lock(t)
  /\ Goto(t, "check")
  /\ UNCHANGED <<waiters, main, done, buffer, el, counters, history>>

Decide_NoTest(t) ==
  /\ pc[t] = "check" /\ MustWait(t)
  /\ Goto(t, "wait")
  /\ UNCHANGED <<monitorVars, main, done, buffer, el, counters, history>>

(* if (done) return; ...                                                    *)
Decide(t) ==
  /\ pc[t] = "check" /\ MustWait(t) /\ ~done
  /\ Goto(t, "wait")
  /\ UNCHANGED <<monitorVars, main, done, buffer, el, counters, history>>

Return_WhenFull(t) ==
  /\ pc[t] = "check" /\ MustWait(t)
  /\ Unlock(t)
  /\ Goto(t, "ended")
  /\ lost' = lost + (IF t \in el THEN 1 ELSE 0)
  /\ el' = el \ {t}
  /\ UNCHANGED <<waiters, main, done, buffer, counters, made, taken, phantom,
                 missed, passes>>

(* ... which drops the element a producer could not store, and one a        *)
(* consumer of the second program was keeping.                              *)
Return(t) ==
  /\ pc[t] = "check" /\ MustWait(t) /\ done
  /\ Unlock(t)
  /\ Goto(t, "ended")
  /\ lost' = lost + (IF t \in el THEN 1 ELSE 0)
  /\ el' = el \ {t}
  /\ UNCHANGED <<waiters, main, done, buffer, counters, made, taken, phantom,
                 missed, passes>>

Sleep(t) ==
  /\ pc[t] = "wait"
  /\ Wait(t, Queue(t))
  /\ Goto(t, "woken")
  /\ UNCHANGED <<main, done, buffer, el, counters, history>>

SpuriousWakeup(t) ==
  /\ WakesUnasked(t)
  /\ UNCHANGED <<mutex, pc, main, done, buffer, el, counters, history>>
-----------------------------------------------------------------------------
(* buffer.emplace(el), and the end of the lock.                             *)
Emplace(p) ==
  /\ pc[p] = "check" /\ ~MustWait(p)
  /\ stored' = stored + 1
  /\ buffer' = Append(buffer, stored + 1)
  /\ el' = el \ {p}
  /\ Unlock(p)
  /\ Goto(p, "notify")
  /\ UNCHANGED <<waiters, main, done, counters, made, taken, lost, phantom, missed,
                 copied, doubled>>

ProducerNotifies_Dropped(p) ==
  /\ pc[p] = "notify"
  /\ Goto(p, "test")
  /\ UNCHANGED <<monitorVars, main, done, buffer, el, counters, history>>

(* consume_cv.notify_one().                                                 *)
ProducerNotifies(p) ==
  /\ pc[p] = "notify"
  /\ NotifyOne("consume")
  /\ Goto(p, "test")
  /\ UNCHANGED <<mutex, main, done, buffer, el, counters, history>>

Pop_NoPop(c) ==
  /\ pc[c] = "check" /\ ~MustWait(c)
  /\ lost' = lost + (IF c \in el THEN 1 ELSE 0)
  /\ el' = el \cup {c}
  /\ Unlock(c)
  /\ Goto(c, IF perElement THEN "notify" ELSE "test")
  /\ UNCHANGED <<waiters, main, done, buffer, counters, made, taken, phantom,
                 missed, passes>>

(* el = move(buffer.back()); buffer.pop(); and the end of the lock.  pop()  *)
(* removes the front; an element that was still in el is gone.              *)
Pop(c) ==
  /\ pc[c] = "check" /\ ~MustWait(c)
  /\ copied' = copied \cup {Last(buffer)}
  /\ doubled' = doubled + (IF Last(buffer) \in copied THEN 1 ELSE 0)
  /\ buffer' = Tail(buffer)
  /\ lost' = lost + (IF c \in el THEN 1 ELSE 0)
  /\ el' = el \cup {c}
  /\ Unlock(c)
  /\ Goto(c, IF perElement THEN "notify" ELSE "test")
  /\ UNCHANGED <<waiters, main, done, counters, made, taken, phantom, missed, stored>>

ConsumerNotifies(c) ==
  /\ pc[c] = "notify"
  /\ NotifyOne("produce")
  /\ Goto(c, "consume")
  /\ UNCHANGED <<mutex, main, done, buffer, el, counters, history>>

(* consume_element(move(el)): in the second program it counts even when el  *)
(* was never filled.                                                        *)
Consume(c) ==
  /\ pc[c] = "consume"
  /\ Increment(c)
  /\ taken' = taken + 1
  /\ phantom' = phantom + (IF c \in el THEN 0 ELSE 1)
  /\ el' = el \ {c}
  /\ Goto(c, IF ~perElement THEN "ended" ELSE IF atomic THEN "test" ELSE "store")
  /\ UNCHANGED <<monitorVars, main, done, buffer, made, lost, missed, passes>>
-----------------------------------------------------------------------------
(* main.  The two programs notify in opposite orders.                       *)
SetDone ==
  /\ main = "sleep"
  /\ done' = TRUE
  /\ main' = IF perElement THEN "notifyConsumers" ELSE "notifyProducers"
  /\ UNCHANGED <<monitorVars, pc, buffer, el, counters, history>>

NotifyConsumers ==
  /\ main = "notifyConsumers"
  /\ NotifyAll("consume")
  /\ missed' = missed \cup {c \in Consumers : pc[c] = "wait"}
  /\ main' = IF perElement THEN "notifyProducers" ELSE "join"
  /\ UNCHANGED <<mutex, pc, done, buffer, el, counters, made, taken, lost, phantom,
                 passes>>

NotifyProducers ==
  /\ main = "notifyProducers"
  /\ NotifyAll("produce")
  /\ missed' = missed \cup {p \in Producers : pc[p] = "wait"}
  /\ main' = IF perElement THEN "join" ELSE "notifyConsumers"
  /\ UNCHANGED <<mutex, pc, done, buffer, el, counters, made, taken, lost, phantom,
                 passes>>

Join ==
  /\ main = "join"
  /\ \A t \in Threads : pc[t] = "ended"
  /\ main' = "ended"
  /\ UNCHANGED <<monitorVars, pc, done, buffer, el, counters, history>>
-----------------------------------------------------------------------------
Step(t) ==
  \/ Enter(t) \/ Decide(t) \/ Return(t) \/ Sleep(t)
  \/ t \in Producers /\ (ProducerLoop(t) \/ StoreProduced(t) \/ Emplace(t) \/ ProducerNotifies(t))
  \/ t \in Consumers /\ (ConsumerLoop(t) \/ Pop(t) \/ ConsumerNotifies(t) \/ Consume(t)
                         \/ StoreConsumed(t))

MainStep == SetDone \/ NotifyConsumers \/ NotifyProducers \/ Join

Next ==
  /\ UNCHANGED program
  /\ (\E t \in Threads : Step(t) \/ SpuriousWakeup(t)) \/ MainStep

Spec == Init /\ [][Next]_vars

(* Every runnable thread runs, and main's five seconds pass.                *)
FairSpec == Spec /\ WF_threadVars(MainStep) /\ \A t \in Threads : WF_threadVars(Step(t))
-----------------------------------------------------------------------------
(* The elements that left the buffer without any consumer having taken them *)
(* over: elements.cpp:54-55 removes the oldest and takes the newest.        *)
Skipped == (1..stored) \ (copied \cup ToSet(buffer))

(* In numbers, what was produced was consumed, is in the buffer or in the   *)
(* hands of one thread, or was dropped there; cons_work/producer.cpp also   *)
(* consumes an el it never filled.  One by one, elements are skipped, but   *)
(* each of them is made up for by a second taking of another, past, or to   *)
(* come because the taken one is still in the buffer.  The counters,        *)
(* advanced outside the mutex, are exact when atomic; prod_cons/main.cpp's  *)
(* may fall behind, but never run ahead.                                    *)
Accounted ==
  /\ made + phantom = taken + Len(buffer) + Cardinality(el) + lost
  /\ Cardinality(Skipped) = doubled + Cardinality(copied \cap ToSet(buffer))
  /\ numProduced <= made /\ numConsumed <= taken
  /\ atomic => numProduced = made /\ numConsumed = taken

(* An element is skipped only for one that was stored while it was in the   *)
(* buffer, so that none is where there is one place.  Beyond that, in       *)
(* elements.cpp and prod_cons/main.cpp only a producer that finds the buffer*)
(* full when the flag is set drops its element, once.                       *)
LossIsBounded ==
  /\ \A e \in Skipped : \E d \in copied : e < d /\ d < e + MAX
  /\ perElement =>
       /\ lost > 0 => done
       /\ phantom = 0
       /\ lost <= Cardinality({p \in Producers : pc[p] = "ended"})

Owing(group) == {t \in group : pc[t] = "notify"}

(* In these two one notify_one per element, sent after the unlock, loses    *)
(* no wakeup: while a consumer sleeps, consumers on their way and           *)
(* notifications owed cover the elements, and while a producer sleeps, the  *)
(* free places.                                                             *)
NoLostWakeup ==
  perElement /\ ~done =>
    /\ waiters["consume"] # {} =>
         Len(buffer) <=
           Cardinality(Consumers \ waiters["consume"]) + Cardinality(Owing(Producers))
    /\ waiters["produce"] # {} =>
         MAX - Len(buffer) <=
           Cardinality(Producers \ waiters["produce"]) + Cardinality(Owing(Consumers))

(* The program ends unless a thread had tested the flag before it was set   *)
(* and not blocked yet when notify_all came: both notifications together    *)
(* reach everybody else.                                                    *)
EndsUnlessMissed == done ~> (main = "ended" \/ missed # {})
=============================================================================
