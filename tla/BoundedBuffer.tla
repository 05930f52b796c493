--------------------------- MODULE BoundedBuffer ---------------------------
(***************************************************************************)
(* threads/multiple_cons_work.cpp: producers that share out a number of    *)
(* items, consumers that take them for ever, a buffer of limited size and  *)
(* a condition variable for each side.  producer_finished is tested but    *)
(* never set: it is the constant FALSE here.                               *)
(*                                                                         *)
(* threads/cond.cpp is the same exchange between one producer and one      *)
(* consumer that know how many items there are, with ONE condition         *)
(* variable for both.  A behaviour is one of either program.               *)
(***************************************************************************)
EXTENDS Monitor, Integers, FiniteSets, Sequences, SequencesExt

CONSTANTS
  Programs,    (* the two programs, as records:                             *)
               (*   producers, consumers : their threads                    *)
               (*   MAXBUFF : capacity of the buffer                        *)
               (*   share   : [producers -> Nat], items_per_producer        *)
               (*   quota   : items a consumer takes, or Forever            *)
               (*   cvs     : [producer |-> cv, consumer |-> cv]            *)
  Forever

ASSUME BufferAssumption ==
  /\ Forever \notin Nat
  /\ \A q \in Programs :
       /\ IsFiniteSet(q.producers) /\ IsFiniteSet(q.consumers)
       /\ q.producers \cap q.consumers = {} /\ Free \notin q.producers \cup q.consumers
       /\ q.MAXBUFF \in Nat \ {0} /\ q.share \in [q.producers -> Nat]
       /\ q.quota \in (Nat \ {0}) \cup {Forever}
       /\ q.cvs.producer = q.cvs.consumer =>
            \E p \in q.producers, c \in q.consumers :
              q.producers = {p} /\ q.consumers = {c}

VARIABLES
  program,     (* the one of Programs that runs                             *)
  pc,          (* where each thread is                                      *)
  main,        (* "join", then "ended"                                      *)
  buffer,      (* the items in the buffer, oldest first                     *)
  item,        (* [Producers -> item_to_produce]                            *)
  count,       (* items_produced_count                                      *)
  rounds,      (* [Threads -> iterations of its counted loop it completed]  *)
  consumed     (* history: the items that were taken, in order              *)

Producers == program.producers
Consumers == program.consumers
Threads == Producers \cup Consumers
MAXBUFF == program.MAXBUFF
Share == program.share
Quota == program.quota
CvProducer == program.cvs.producer
CvConsumer == program.cvs.consumer
Iterations == UNION {{p} \X (1..Share[p]) : p \in Producers}
Total == Cardinality(Iterations)
Items == 0..Total - 1

monitorVars == <<mutex, waiters>>
threadVars == <<monitorVars, pc, main, buffer, item, count, rounds, consumed>>
vars == <<program, threadVars>>

TypeOK ==
  /\ program \in Programs
  /\ mutex \in Threads \cup {Free}
  /\ waiters \in [{CvProducer, CvConsumer} -> SUBSET Threads]
  /\ pc \in [Threads -> {"loop", "lock", "check", "woken", "notify", "ended"}]
  /\ main \in {"join", "ended"}
  /\ buffer \in Seq(Items) /\ Len(buffer) <= MAXBUFF
  /\ item \in [Producers -> Nat] /\ count \in 0..Total
  /\ rounds \in [Threads -> Nat]
  /\ consumed \in Seq(Items)

Init ==
  /\ program \in Programs
  /\ mutex = Free /\ waiters = [cv \in {CvProducer, CvConsumer} |-> {}]
  /\ pc = [t \in Threads |-> IF t \in Producers THEN "loop" ELSE "lock"]
  /\ main = "join"
  /\ buffer = <<>>
  /\ item = [p \in Producers |-> 0] /\ count = 0
  /\ rounds = [t \in Threads |-> 0]
  /\ consumed = <<>>

Goto(t, label) == pc' = [pc EXCEPT ![t] = label]
-----------------------------------------------------------------------------
(* items_produced_count.fetch_add(1).  The shares add up to the total, one  *)
(* number for each iteration, so that the branch that gives a number back   *)
(* is never taken.                                                          *)
Claim(p) ==
  /\ pc[p] = "loop"
  /\ \/ /\ rounds[p] = Share[p]
        /\ Goto(p, "ended") /\ UNCHANGED <<item, count>>
     \/ /\ rounds[p] < Share[p]
        /\ item' = [item EXCEPT ![p] = count]
        /\ count' = count + 1
        /\ Goto(p, "lock")
  /\ UNCHANGED <<monitorVars, main, buffer, rounds, consumed>>

Enter(t) ==
  /\ pc[t] = "lock" \/ (pc[t] = "woken" /\ ~Blocked(t))
  /\ Lock(t)
  /\ Goto(t, "check")
  /\ UNCHANGED <<waiters, main, buffer, item, count, rounds, consumed>>
-----------------------------------------------------------------------------
(* The predicates, and what follows them in the same critical section.      *)

MayPush == Len(buffer) < MAXBUFF

MayPop == buffer # <<>>

BlockProducer(p) ==
  /\ pc[p] = "check" /\ ~MayPush
  /\ Wait(p, CvProducer)
  /\ Goto(p, "woken")
  /\ UNCHANGED <<main, buffer, item, count, rounds, consumed>>

Push(p) ==
  /\ pc[p] = "check" /\ MayPush
  /\ buffer' = Append(buffer, item[p])
  /\ Unlock(p)
  /\ Goto(p, "notify")
  /\ UNCHANGED <<waiters, main, item, count, rounds, consumed>>

BlockConsumer(c) ==
  /\ pc[c] = "check" /\ ~MayPop
  /\ Wait(c, CvConsumer)
  /\ Goto(c, "woken")
  /\ UNCHANGED <<main, buffer, item, count, rounds, consumed>>

Pop_Newest(c) ==
  /\ pc[c] = "check" /\ MayPop
  /\ consumed' = Append(consumed, Last(buffer))
  /\ buffer' = Front(buffer)
  /\ Unlock(c)
  /\ Goto(c, "notify")
  /\ UNCHANGED <<waiters, main, item, count, rounds>>

Pop(c) ==
  /\ pc[c] = "check" /\ MayPop
  /\ consumed' = Append(consumed, Head(buffer))
  /\ buffer' = Tail(buffer)
  /\ Unlock(c)
  /\ Goto(c, "notify")
  /\ UNCHANGED <<waiters, main, item, count, rounds>>

AfterPush_Silent == UNCHANGED waiters
AfterPush == NotifyOne(CvConsumer)

AfterPop_WrongQueue == NotifyOne(CvConsumer)
AfterPop == NotifyOne(CvProducer)

(* notify_one() after the unlock, the sleep, and the end of the iteration.  *)
ProducerNotifies(p) ==
  /\ pc[p] = "notify"
  /\ AfterPush
  /\ Goto(p, "loop")
  /\ rounds' = [rounds EXCEPT ![p] = @ + 1]
  /\ UNCHANGED <<mutex, main, buffer, item, count, consumed>>

ConsumerNotifies(c) ==
  /\ pc[c] = "notify"
  /\ AfterPop
  /\ rounds' = IF Quota = Forever THEN rounds ELSE [rounds EXCEPT ![c] = @ + 1]
  /\ Goto(c, IF rounds'[c] = Quota THEN "ended" ELSE "lock")
  /\ UNCHANGED <<mutex, main, buffer, item, count, consumed>>

SpuriousWakeup(t) ==
  /\ WakesUnasked(t)
  /\ UNCHANGED <<mutex, pc, main, buffer, item, count, rounds, consumed>>

(* main joins producers and consumers alike; only then does it notify.      *)
Join ==
  /\ main = "join" /\ \A t \in Threads : pc[t] = "ended"
  /\ main' = "ended"
  /\ waiters' = [cv \in DOMAIN waiters |-> {}]
  /\ UNCHANGED <<mutex, pc, buffer, item, count, rounds, consumed>>
-----------------------------------------------------------------------------
Step(t) ==
  \/ Enter(t)
  \/ t \in Producers /\ (Claim(t) \/ BlockProducer(t) \/ Push(t) \/ ProducerNotifies(t))
  \/ t \in Consumers /\ (BlockConsumer(t) \/ Pop(t) \/ ConsumerNotifies(t))

Next ==
  /\ UNCHANGED program
  /\ (\E t \in Threads : Step(t) \/ SpuriousWakeup(t)) \/ Join

AllThreads == UNION {q.producers \cup q.consumers : q \in Programs}

Spec == Init /\ [][Next]_vars

(* Every runnable thread runs, and the mutex is not kept for ever from one  *)
(* that wants it by others that wake without cause; nobody counts on those. *)
FairSpec ==
  /\ Spec /\ WF_threadVars(Join)
  /\ \A t \in AllThreads :
       WF_threadVars(t \in Threads /\ Step(t)) /\ SF_threadVars(t \in Threads /\ Enter(t))
-----------------------------------------------------------------------------
Coming(group) == {t \in group : pc[t] \in {"lock", "check", "woken"} /\ ~Blocked(t)}
Owing(group) == {t \in group : pc[t] = "notify"}

(* One notify_one per item, sent after the unlock, is enough for any number *)
(* of threads: while one sleeps, the threads on their way and the           *)
(* notifications owed cover what it could take, or the places it could fill.*)
NoLostWakeup ==
  /\ (\E c \in Consumers : Blocked(c)) =>
       Len(buffer) <= Cardinality(Coming(Consumers)) + Cardinality(Owing(Producers))
  /\ (\E p \in Producers : Blocked(p)) =>
       MAXBUFF - Len(buffer) <= Cardinality(Coming(Producers)) + Cardinality(Owing(Consumers))

(* Threads that share a condition variable never wait both at once, so that *)
(* cond.cpp's notify_one always wakes the right one.                        *)
OneWaiter ==
  CvProducer = CvConsumer => ~(\E p \in Producers, c \in Consumers : Blocked(p) /\ Blocked(c))

(* Every item is consumed in the end, although each notification is sent    *)
(* after the unlock; cond.cpp, whose threads count their items, then ends,  *)
(* and multiple_cons_work.cpp never does: its consumers, which main joins   *)
(* with the producers, wait for a flag nobody sets.                         *)
ExchangeCompletes ==
  /\ <>(ToSet(consumed) = Items /\ (Quota # Forever => main = "ended"))
  /\ [](Quota = Forever => main # "ended")
-----------------------------------------------------------------------------
(* The refinement mapping to Exchange: the items under way are those in the *)
(* buffer and those claimed by a producer that has not pushed them yet.     *)
Holders == {p \in Producers : pc[p] \in {"lock", "check", "woken"}}
InHand == {item[p] : p \in Holders}

terms == [items |-> Total, room |-> MAXBUFF + Cardinality(Producers),
          makers |-> Cardinality(Producers)]

Promise == INSTANCE Exchange WITH
  terms <- terms, made <- count, stock <- InHand \cup ToSet(buffer), taken <- consumed

(* Both programs implement the promise of Exchange: every item is taken     *)
(* once, none is skipped, what is under way is bounded, and items overtake  *)
(* each other only while producers race with numbers claimed outside the    *)
(* mutex; cond.cpp's single producer keeps the order.                       *)
ImplementsExchange == Promise!Spec
=============================================================================
