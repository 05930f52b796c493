------------------------ MODULE BoundedBufferProofs ------------------------
(***************************************************************************)
(* BoundedBuffer implements Exchange, and loses no wakeup, for any          *)
(* programs, shares and capacities.                                        *)
(***************************************************************************)
EXTENDS BoundedBuffer, FiniteSetTheorems, SequenceTheorems, TLAPS

Places == {"loop", "lock", "check", "woken", "notify", "ended"}

TypeInv ==
  /\ program \in Programs
  /\ pc \in [Threads -> Places]
  /\ item \in [Producers -> Nat] /\ count \in Nat
  /\ rounds \in [Threads -> Nat]
  /\ buffer \in Seq(Nat) /\ Len(buffer) <= MAXBUFF
  /\ consumed \in Seq(Nat)

(* Iterations that have drawn their number: those completed and the one a   *)
(* producer is in.  Each drew one.                                          *)
Busy == Places \ {"loop", "ended"}
Begun(p) == rounds[p] + (IF pc[p] \in Busy THEN 1 ELSE 0)
Started == {x \in Iterations : x[2] <= Begun(x[1])}

CountInv ==
  /\ count = Cardinality(Started)
  /\ \A p \in Producers : Begun(p) <= Share[p]

(* Numbers are distinct as long as they are under way ...                   *)
NumberInv ==
  /\ \A p \in Holders : item[p] < count
  /\ \A k \in 1..Len(buffer) : buffer[k] < count
  /\ \A p, q \in Holders : item[p] = item[q] => p = q
  /\ \A k, l \in 1..Len(buffer) : buffer[k] = buffer[l] => k = l
  /\ \A p \in Holders, k \in 1..Len(buffer) : item[p] # buffer[k]

(* ... and the item at k has overtaken those that came into the buffer      *)
(* after it, or are still in a producer's hands, with smaller numbers.      *)
Overtaken(k) ==
  {j \in Nat : /\ j < buffer[k]
               /\ j \in InHand \/ \E m \in k + 1..Len(buffer) : buffer[m] = j}

OrderInv ==
  \A k \in 1..Len(buffer) : Cardinality(Overtaken(k)) < Cardinality(Producers)

IInv == TypeInv /\ CountInv /\ NumberInv /\ OrderInv
-----------------------------------------------------------------------------
(* What the assumption says of the program that runs.                       *)
LEMMA ProgramFacts ==
  ASSUME program \in Programs
  PROVE  /\ IsFiniteSet(Producers) /\ IsFiniteSet(Consumers)
         /\ Producers \cap Consumers = {}
         /\ MAXBUFF \in Nat \ {0}
         /\ Share \in [Producers -> Nat]
BY BufferAssumption DEF BufferAssumption, Producers, Consumers, MAXBUFF, Share

(* All producers together make finitely many items.                         *)
LEMMA IterationsFinite ==
  ASSUME program \in Programs
  PROVE  IsFiniteSet(Iterations) /\ Total \in Nat
<1> DEFINE Of == [p \in Producers |-> {p} \X (1..Share[p])]
           Parts == {{p} \X (1..Share[p]) : p \in Producers}
<1>1. Of \in Surjection(Producers, Parts)
  BY DEF Surjection
<1>2. IsFiniteSet(Parts)
  BY <1>1, ProgramFacts, FS_Surjection
<1>3. ASSUME NEW p \in Producers PROVE IsFiniteSet({p} \X (1..Share[p]))
  <2>1. IsFiniteSet({p})
    BY FS_Singleton
  <2>2. Share[p] \in Int
    BY ProgramFacts
  <2>3. IsFiniteSet(1..Share[p])
    BY <2>2, FS_Interval
  <2> QED
    BY <2>1, <2>3, FS_Product
<1>4. IsFiniteSet(UNION Parts)
  BY <1>2, <1>3, FS_UNION
<1> QED
  BY <1>4, FS_CardinalityType DEF Iterations, Total

(* There are no more values of a function on S than elements of S.          *)
LEMMA ImageBound ==
  ASSUME NEW f, NEW S, NEW Q, IsFiniteSet(Q), S \subseteq Q
  PROVE  LET T == {f[x] : x \in S}
         IN  IsFiniteSet(T) /\ Cardinality(T) \in Nat /\ Cardinality(T) <= Cardinality(Q)
<1> DEFINE T == {f[x] : x \in S}
           g == [x \in S |-> f[x]]
<1>1. g \in Surjection(S, T)
  BY DEF Surjection
<1>2. IsFiniteSet(S) /\ Cardinality(S) <= Cardinality(Q)
  BY FS_Subset
<1>3. IsFiniteSet(T) /\ Cardinality(T) <= Cardinality(S)
  BY <1>1, <1>2, FS_Surjection
<1> QED
  BY <1>2, <1>3, FS_CardinalityType

(* The buffer holds no more distinct numbers than it is long.               *)
LEMMA BufferBound ==
  ASSUME TypeInv
  PROVE  IsFiniteSet(ToSet(buffer)) /\ Cardinality(ToSet(buffer)) <= Len(buffer)
<1>1. buffer \in Surjection(1..Len(buffer), ToSet(buffer))
  <2>1. buffer \in [1..Len(buffer) -> Nat] /\ DOMAIN buffer = 1..Len(buffer)
    BY LenProperties DEF TypeInv
  <2>2. buffer \in [1..Len(buffer) -> ToSet(buffer)]
    BY <2>1 DEF ToSet
  <2>3. \A x \in ToSet(buffer) : \E k \in 1..Len(buffer) : buffer[k] = x
    BY <2>1 DEF ToSet
  <2> QED
    BY <2>2, <2>3 DEF Surjection
<1>2. IsFiniteSet(1..Len(buffer)) /\ Cardinality(1..Len(buffer)) = Len(buffer)
  <2> DEFINE n == Len(buffer)
  <2>1. n \in Nat
    BY DEF TypeInv
  <2> HIDE DEF n
  <2>2. IsFiniteSet(1..n) /\ Cardinality(1..n) = IF 1 > n THEN 0 ELSE n - 1 + 1
    BY <2>1, FS_Interval
  <2>3. (IF 1 > n THEN 0 ELSE n - 1 + 1) = n
    BY <2>1
  <2> QED
    BY <2>2, <2>3 DEF n
<1> QED
  BY <1>1, <1>2, FS_Surjection
-----------------------------------------------------------------------------
(* At the start no number is drawn.                                         *)
LEMMA InitIInv == Init => IInv
<1> SUFFICES ASSUME Init PROVE IInv
  OBVIOUS
<1>1. TypeInv
  BY ProgramFacts, EmptySeq DEF Init, TypeInv, Places, Threads
<1>2. CountInv
  <2>1. \A p \in Producers : Begun(p) = 0
    BY DEF Init, Begun, Busy, Threads
  <2>2. Started = {}
    BY <2>1, ProgramFacts DEF Started, Iterations, Init
  <2> QED
    BY <2>1, <2>2, FS_EmptySet, ProgramFacts DEF CountInv, Init
<1>3. Holders = {} /\ 1..Len(buffer) = {}
  BY DEF Init, Holders, Threads
<1>4. NumberInv /\ OrderInv
  BY <1>3 DEF NumberInv, OrderInv
<1> QED
  BY <1>1, <1>2, <1>4 DEF IInv

(* What the threads and the capacity are does not change.                   *)
LEMMA ProgramStays ==
  ASSUME UNCHANGED program
  PROVE  /\ UNCHANGED <<Producers, Consumers, Threads, MAXBUFF, Share, Quota>>
         /\ UNCHANGED <<Iterations, Total>>
BY DEF Producers, Consumers, Threads, MAXBUFF, Share, Quota, Iterations, Total

(* Every step keeps the types.                                              *)
LEMMA TypeStep == TypeInv /\ CountInv /\ [Next]_vars => TypeInv'
<1> SUFFICES ASSUME TypeInv, CountInv, [Next]_vars PROVE TypeInv'
  OBVIOUS
<1>0. UNCHANGED program
  BY DEF Next, vars
<1> USE <1>0, ProgramStays, ProgramFacts DEF TypeInv, Places, Goto, Threads
<1>1. ASSUME NEW p \in Producers, Claim(p) PROVE TypeInv'
  <2>1. CASE rounds[p] = Share[p] /\ Goto(p, "ended") /\ UNCHANGED <<item, count>>
    BY <1>1, <2>1 DEF Claim
  <2>2. CASE /\ Goto(p, "lock") /\ count' = count + 1
             /\ item' = [item EXCEPT ![p] = count]
    <3>1. item' \in [Producers -> Nat]
      BY <2>2
    <3>2. pc' \in [Threads -> Places]
      BY <2>2
    <3> QED
      BY <1>1, <2>2, <3>1, <3>2 DEF Claim
  <2> QED
    BY <1>1, <2>1, <2>2 DEF Claim
<1>2. ASSUME NEW t \in Threads, Enter(t) PROVE TypeInv'
  BY <1>2 DEF Enter
<1>3. ASSUME NEW p \in Producers, BlockProducer(p) PROVE TypeInv'
  BY <1>3 DEF BlockProducer
<1>4. ASSUME NEW p \in Producers, Push(p) PROVE TypeInv'
  BY <1>4 DEF Push, MayPush
<1>5. ASSUME NEW c \in Consumers, BlockConsumer(c) PROVE TypeInv'
  BY <1>5 DEF BlockConsumer
<1>6. ASSUME NEW c \in Consumers, Pop(c) PROVE TypeInv'
  <2>1. /\ Head(buffer) \in Nat /\ Tail(buffer) \in Seq(Nat)
        /\ Len(Tail(buffer)) = Len(buffer) - 1
    BY <1>6, HeadTailProperties DEF Pop, MayPop
  <2> QED
    BY <1>6, <2>1 DEF Pop
<1>7. ASSUME NEW p \in Producers, ProducerNotifies(p) PROVE TypeInv'
  BY <1>7 DEF ProducerNotifies
<1>8. ASSUME NEW c \in Consumers, ConsumerNotifies(c) PROVE TypeInv'
  <2>1. rounds' \in [Threads -> Nat]
    BY <1>8 DEF ConsumerNotifies
  <2>2. pc' \in [Threads -> Places]
    BY <1>8 DEF ConsumerNotifies
  <2> QED
    BY <1>8, <2>1, <2>2 DEF ConsumerNotifies
<1>9. CASE UNCHANGED <<pc, item, count, rounds, buffer, consumed>>
  BY <1>9
<1> QED
  BY <1>1, <1>2, <1>3, <1>4, <1>5, <1>6, <1>7, <1>8, <1>9
     DEF Next, Step, SpuriousWakeup, Join, vars, threadVars

(* A step that starts no iteration and ends none leaves Begun alone, and    *)
(* the end of one moves it from the places to the rounds.                   *)
LEMMA SameBegun ==
  ASSUME CountInv, UNCHANGED <<program, count>>, \A p \in Producers : Begun(p)' = Begun(p)
  PROVE  CountInv'
<1> USE ProgramStays
<1>1. Started' = Started
  BY DEF Started, Iterations
<1> QED
  BY <1>1 DEF CountInv

(* Drawing a number begins one iteration, so numbers stay below Total.      *)
LEMMA ClaimCounts ==
  ASSUME TypeInv, CountInv, UNCHANGED program, NEW p \in Producers, Claim(p),
         rounds[p] < Share[p]
  PROVE  CountInv' /\ count < Total
<1> USE ProgramStays, ProgramFacts DEF TypeInv, Threads
<1> DEFINE x == <<p, rounds[p] + 1>>
<1>1. pc' = [pc EXCEPT ![p] = "lock"] /\ count' = count + 1 /\ pc[p] = "loop"
  BY DEF Claim, Goto
<1>2. Begun(p) = rounds[p] /\ Begun(p)' = rounds[p] + 1
  BY <1>1 DEF Begun, Busy, Claim, Places
<1>3. \A q \in Producers \ {p} : Begun(q)' = Begun(q)
  BY <1>1 DEF Begun, Claim
<1>4. rounds[p] \in Nat /\ Share[p] \in Nat
  OBVIOUS
<1>5. x \in Iterations
  <2>1. rounds[p] + 1 \in 1..Share[p]
    BY <1>4
  <2> QED
    BY <2>1 DEF Iterations
<1>6. x \notin Started
  BY <1>2, <1>4 DEF Started
<1>7. Started' = Started \cup {x}
  <2>1. ASSUME NEW y \in Iterations PROVE y \in Started' <=> y \in Started \cup {x}
    <3>1. PICK q \in Producers : \E i \in 1..Share[q] : y = <<q, i>>
      BY DEF Iterations
    <3>2. CASE q # p
      BY <3>1, <3>2, <1>3 DEF Started
    <3>3. CASE q = p
      BY <3>1, <3>3, <1>2, <1>4 DEF Started
    <3> QED
      BY <3>2, <3>3
  <2> QED
    BY <2>1, <1>5 DEF Started
<1>8. IsFiniteSet(Iterations) /\ Started \subseteq Iterations /\ Started' \subseteq Iterations
  BY <1>5, <1>7, IterationsFinite DEF Started
<1>9. IsFiniteSet(Started) /\ Cardinality(Started') <= Total
  BY <1>8, FS_Subset DEF Total
<1>10. Cardinality(Started') = Cardinality(Started) + 1
  BY <1>6, <1>7, <1>9, FS_AddElement
<1>11. \A q \in Producers : Begun(q)' <= Share'[q]
  BY <1>2, <1>3, <1>4 DEF CountInv
<1> QED
  BY <1>1, <1>9, <1>10, <1>11, IterationsFinite DEF CountInv

(* The numbers drawn are as many as the iterations begun.                   *)
LEMMA CountStep == TypeInv /\ CountInv /\ [Next]_vars => CountInv'
<1> SUFFICES ASSUME TypeInv, CountInv, [Next]_vars PROVE CountInv'
  OBVIOUS
<1>0. UNCHANGED program
  BY DEF Next, vars
<1> USE <1>0, ProgramStays, ProgramFacts DEF TypeInv, Goto, Threads
<1>1. ASSUME NEW p \in Producers, Claim(p) PROVE CountInv'
  <2>1. CASE rounds[p] < Share[p]
    BY <1>1, <2>1, ClaimCounts
  <2>2. CASE rounds[p] = Share[p]
    <3>1. \A q \in Producers : Begun(q)' = Begun(q)
      BY <1>1, <2>2 DEF Claim, Begun, Busy
    <3> QED
      BY <1>1, <2>2, <3>1, SameBegun DEF Claim
  <2> QED
    BY <1>1, <2>1, <2>2 DEF Claim
<1>2. ASSUME NEW t \in Threads, Enter(t) \/ Push(t) \/ BlockProducer(t) PROVE CountInv'
  <2>1. \A q \in Producers : Begun(q)' = Begun(q)
    BY <1>2 DEF Enter, Push, BlockProducer, Begun, Busy, Places
  <2> QED
    BY <1>2, <2>1, SameBegun DEF Enter, Push, BlockProducer
<1>3. ASSUME NEW c \in Consumers, BlockConsumer(c) \/ Pop(c) \/ ConsumerNotifies(c)
      PROVE  CountInv'
  <2>1. \A q \in Producers : pc'[q] = pc[q] /\ rounds'[q] = rounds[q]
    BY <1>3 DEF BlockConsumer, Pop, ConsumerNotifies
  <2> QED
    BY <1>3, <2>1, SameBegun DEF BlockConsumer, Pop, ConsumerNotifies, Begun
<1>4. ASSUME NEW p \in Producers, ProducerNotifies(p) PROVE CountInv'
  <2>1. \A q \in Producers : Begun(q)' = Begun(q)
    BY <1>4 DEF ProducerNotifies, Begun, Busy, Places
  <2> QED
    BY <1>4, <2>1, SameBegun DEF ProducerNotifies
<1>5. CASE UNCHANGED <<pc, count, rounds>>
  BY <1>5, SameBegun DEF Begun
<1> QED
  BY <1>1, <1>2, <1>3, <1>4, <1>5 DEF Next, Step, SpuriousWakeup, Join, vars, threadVars

(* NumberInv and OrderInv speak of the items in hand and in the buffer: a   *)
(* step that leaves these alone leaves them true.                           *)
LEMMA SameItems ==
  ASSUME NumberInv, OrderInv, UNCHANGED <<program, item, buffer, count, Holders>>
  PROVE  NumberInv' /\ OrderInv'
<1> USE ProgramStays
<1>1. UNCHANGED InHand
  BY DEF InHand
<1>2. \A k \in 1..Len(buffer) : Overtaken(k)' = Overtaken(k)
  BY <1>1 DEF Overtaken
<1> QED
  BY <1>2 DEF NumberInv, OrderInv

(* Who holds a number is decided by the producers' places.                  *)
LEMMA SameHolders ==
  ASSUME UNCHANGED program,
         \A p \in Producers : pc'[p] \in {"lock", "check", "woken"} <=>
                               pc[p] \in {"lock", "check", "woken"}
  PROVE  UNCHANGED Holders
BY ProgramStays DEF Holders

(* Claimed numbers are the largest so far: they overtake nobody.            *)
LEMMA ClaimItems ==
  ASSUME TypeInv, NumberInv, OrderInv, UNCHANGED program, NEW p \in Producers, Claim(p)
  PROVE  NumberInv' /\ OrderInv'
<1>0. /\ p \in Threads /\ pc \in [Threads -> Places] /\ item \in [Producers -> Nat]
      /\ count \in Nat /\ Len(buffer) \in Nat
      /\ \A k \in 1..Len(buffer) : buffer[k] \in Nat
  BY DEF TypeInv, Threads
<1>1. CASE Goto(p, "ended") /\ UNCHANGED <<item, count>>
  <2>1. UNCHANGED Holders
    BY <1>0, <1>1, SameHolders, ProgramStays DEF Claim, Goto, Threads
  <2> QED
    BY <1>1, <2>1, SameItems DEF Claim
<1>2. CASE /\ Goto(p, "lock") /\ count' = count + 1
           /\ item' = [item EXCEPT ![p] = count]
  <2>1. Holders' = Holders \cup {p} /\ p \notin Holders /\ UNCHANGED buffer
    BY <1>0, <1>2, ProgramStays DEF Claim, Goto, Holders, Threads
  <2>2. item'[p] = count /\ \A q \in Holders : item'[q] = item[q]
    BY <1>0, <1>2, <2>1 DEF Holders
  <2>3. \A q \in Holders : item[q] \in Nat /\ item[q] < count
    BY <1>0 DEF NumberInv, Holders
  <2>4. \A q \in Holders : item[q] # count
    BY <1>0, <2>3
  <2>5. \A k \in 1..Len(buffer) : buffer[k] # count
    BY <1>0 DEF NumberInv
  <2>6. \A q, r \in Holders' : item'[q] = item'[r] => q = r
    BY <2>1, <2>2, <2>4 DEF NumberInv
  <2>7. \A q \in Holders', k \in 1..Len(buffer) : item'[q] # buffer[k]
    BY <2>1, <2>2, <2>5 DEF NumberInv
  <2>8. \A q \in Holders' : item'[q] < count'
    BY <1>0, <1>2, <2>1, <2>2, <2>3
  <2>9. \A k \in 1..Len(buffer) : buffer[k] < count'
    BY <1>0, <1>2 DEF NumberInv
  <2>10. NumberInv'
    BY <2>1, <2>6, <2>7, <2>8, <2>9 DEF NumberInv
  <2>11. InHand' = InHand \cup {count}
    BY <2>1, <2>2 DEF InHand
  <2>12. \A k \in 1..Len(buffer) : Overtaken(k)' = Overtaken(k)
    BY <1>0, <2>1, <2>11 DEF Overtaken, NumberInv
  <2> QED
    BY <2>1, <2>10, <2>12, ProgramStays DEF OrderInv
<1> QED
  BY <1>1, <1>2 DEF Claim

(* A pushed item has overtaken at most what the other producers hold.       *)
LEMMA PushItems ==
  ASSUME TypeInv, NumberInv, OrderInv, UNCHANGED program, NEW p \in Producers, Push(p)
  PROVE  /\ NumberInv' /\ OrderInv'
         /\ InHand' \cup ToSet(buffer') = InHand \cup ToSet(buffer)
<1>1. /\ Holders' = Holders \ {p} /\ p \in Holders /\ Holders \subseteq Producers
      /\ UNCHANGED <<item, count>>
  BY ProgramStays DEF Push, Holders, TypeInv, Threads, Goto
<1>2. PICK n \in Nat : n = Len(buffer)
  BY DEF TypeInv
<1>3. PICK x \in Nat : x = item[p]
  BY DEF TypeInv
<1>4. /\ buffer \in Seq(Nat) /\ buffer' = Append(buffer, x)
      /\ \A k \in 1..n : buffer[k] \in Nat
  BY <1>2, <1>3 DEF TypeInv, Push
<1>5. /\ Len(buffer') = n + 1 /\ buffer'[n + 1] = x
      /\ \A k \in 1..n : buffer'[k] = buffer[k]
  BY <1>2, <1>4
<1>6. \A k \in 1..n + 1 : k = n + 1 \/ k \in 1..n
  BY <1>2
<1>7. InHand = InHand' \cup {x}
  BY <1>1, <1>3 DEF InHand
<1>8. NumberInv'
  <2>1. /\ \A q \in Holders' : q \in Holders /\ item[q] # x
        /\ x < count /\ \A k \in 1..n : buffer[k] # x
    BY <1>1, <1>2, <1>3 DEF NumberInv
  <2>2. \A k \in 1..n + 1 : buffer'[k] < count
    BY <1>2, <1>5, <1>6, <2>1 DEF NumberInv
  <2>3. \A k, l \in 1..n + 1 : buffer'[k] = buffer'[l] => k = l
    BY <1>2, <1>5, <1>6, <2>1 DEF NumberInv
  <2>4. \A q \in Holders', k \in 1..n + 1 : item[q] # buffer'[k]
    BY <1>2, <1>5, <1>6, <2>1 DEF NumberInv
  <2> QED
    BY <1>1, <1>5, <2>1, <2>2, <2>3, <2>4 DEF NumberInv
<1>9. ASSUME NEW k \in 1..n PROVE Overtaken(k)' = Overtaken(k)
  <2>1. n + 1 \in k + 1..n + 1 /\ \A m \in k + 1..n : m \in 1..n /\ m \in k + 1..n + 1
    BY <1>2
  <2>2. \A m \in k + 1..n + 1 : m = n + 1 \/ m \in k + 1..n
    BY <1>2
  <2>3. ASSUME NEW j PROVE (\E m \in k + 1..n + 1 : buffer'[m] = j) <=>
                           (j = x \/ \E m \in k + 1..n : buffer[m] = j)
    BY <1>5, <2>1, <2>2
  <2> QED
    BY <1>2, <1>5, <1>7, <2>3 DEF Overtaken
<1>10. Cardinality(Overtaken(n + 1)') < Cardinality(Producers)
  <2>1. Overtaken(n + 1)' \subseteq InHand'
    BY <1>2, <1>5 DEF Overtaken
  <2>2. IsFiniteSet(Producers)
    BY ProgramFacts DEF TypeInv
  <2>3. /\ IsFiniteSet(Producers \ {p})
        /\ Cardinality(Producers \ {p}) = Cardinality(Producers) - 1
    BY <2>2, FS_RemoveElement
  <2>4. InHand' = {item'[q] : q \in Holders'} /\ Holders' \subseteq Producers \ {p}
    BY <1>1 DEF InHand
  <2>5. IsFiniteSet(InHand') /\ Cardinality(InHand') <= Cardinality(Producers \ {p})
    BY <2>3, <2>4, ImageBound
  <2>6. IsFiniteSet(Overtaken(n + 1)')
        /\ Cardinality(Overtaken(n + 1)') <= Cardinality(InHand')
    BY <2>1, <2>5, FS_Subset
  <2> QED
    BY <2>2, <2>3, <2>5, <2>6, FS_CardinalityType
<1>11. OrderInv'
  <2>1. \A k \in 1..n : Cardinality(Overtaken(k)') < Cardinality(Producers)
    BY <1>2, <1>9 DEF OrderInv
  <2> QED
    BY <1>5, <1>6, <1>10, <2>1, ProgramStays DEF OrderInv
<1>12. ToSet(buffer') = ToSet(buffer) \cup {x}
  <2>1. DOMAIN buffer' = 1..n + 1 /\ DOMAIN buffer = 1..n
    BY <1>2, <1>4, <1>5
  <2>2. n + 1 \in 1..n + 1 /\ \A k \in 1..n : k \in 1..n + 1
    BY <1>2
  <2> QED
    BY <1>5, <1>6, <2>1, <2>2 DEF ToSet
<1> QED
  BY <1>7, <1>8, <1>11, <1>12

(* The oldest item leaves: what it has overtaken is all that is under way   *)
(* with a smaller number.                                                   *)
Stock == InHand \cup ToSet(buffer)

(* Taking the first item leaves the others in their order.                  *)
LEMMA PopItems ==
  ASSUME TypeInv, NumberInv, OrderInv, UNCHANGED program, NEW c \in Consumers, Pop(c)
  PROVE  /\ NumberInv' /\ OrderInv'
         /\ Head(buffer) \in Stock /\ Stock' = Stock \ {Head(buffer)}
         /\ Cardinality({j \in Stock : j < Head(buffer)}) < Cardinality(Producers)
<1>1. UNCHANGED <<Holders, InHand, item, count>>
  <2>1. \A p \in Producers : pc'[p] = pc[p]
    BY ProgramFacts DEF TypeInv, Threads, Pop, Goto
  <2> QED
    BY <2>1, SameHolders DEF Pop, InHand
<1>2. PICK n \in Nat : n + 1 = Len(buffer)
  <2>1. Len(buffer) \in Nat \ {0}
    BY EmptySeq DEF TypeInv, Pop, MayPop
  <2>2. Len(buffer) - 1 \in Nat /\ (Len(buffer) - 1) + 1 = Len(buffer)
    BY <2>1
  <2> QED
    BY <2>2
<1>3. /\ buffer \in Seq(Nat) /\ buffer' = Tail(buffer)
      /\ \A k \in 1..n + 1 : buffer[k] \in Nat
  BY <1>2 DEF TypeInv, Pop
<1>4. /\ Len(buffer') = n /\ Head(buffer) = buffer[1]
      /\ \A k \in 1..n : buffer'[k] = buffer[k + 1] /\ k + 1 \in 1..n + 1
  BY <1>2, <1>3
<1>5. \A k \in 1..n + 1 : k = 1 \/ (k - 1 \in 1..n /\ buffer'[k - 1] = buffer[k])
  BY <1>2, <1>4
<1>6. NumberInv'
  <2>1. \A k, l \in 1..n : buffer'[k] = buffer'[l] => k = l
    <3>1. \A k, l \in 1..n : buffer'[k] = buffer'[l] => k + 1 = l + 1
      BY <1>2, <1>4 DEF NumberInv
    <3> QED
      BY <3>1
  <2> QED
    BY <1>1, <1>2, <1>4, <2>1 DEF NumberInv
<1>7. ASSUME NEW k \in 1..n PROVE Overtaken(k)' = Overtaken(k + 1)
  <2>1. ASSUME NEW j, \E m \in k + 1..n : buffer'[m] = j
        PROVE  \E m \in k + 2..n + 1 : buffer[m] = j
    <3>1. PICK m \in k + 1..n : buffer'[m] = j
      BY <2>1
    <3>2. m + 1 \in k + 2..n + 1 /\ buffer[m + 1] = j
      BY <1>2, <1>4, <3>1
    <3> QED
      BY <3>2
  <2>2. ASSUME NEW j, \E m \in k + 2..n + 1 : buffer[m] = j
        PROVE  \E m \in k + 1..n : buffer'[m] = j
    <3>1. PICK m \in k + 2..n + 1 : buffer[m] = j
      BY <2>2
    <3>2. m - 1 \in k + 1..n /\ buffer'[m - 1] = j
      BY <1>2, <1>5, <3>1
    <3> QED
      BY <3>2
  <2>3. (k + 1) + 1 = k + 2
    OBVIOUS
  <2> QED
    BY <1>1, <1>2, <1>4, <2>1, <2>2, <2>3 DEF Overtaken
<1>8. OrderInv'
  <2>1. \A k \in 1..n : Cardinality(Overtaken(k + 1)) < Cardinality(Producers)
    BY <1>2, <1>4 DEF OrderInv
  <2> QED
    BY <1>4, <1>7, <2>1, ProgramStays DEF OrderInv
<1>9. DOMAIN buffer = 1..n + 1 /\ DOMAIN buffer' = 1..n /\ 1 \in 1..n + 1
  BY <1>2, <1>3, <1>4
<1>10. Head(buffer) \in Stock /\ Head(buffer) \in Nat
  BY <1>3, <1>4, <1>9 DEF Stock, ToSet
<1>11. Head(buffer) \notin InHand
  BY <1>2, <1>4, <1>9 DEF NumberInv, InHand
<1>12. ToSet(buffer') = ToSet(buffer) \ {Head(buffer)}
  <2>1. \A k \in 1..n : buffer'[k] # buffer[1]
    BY <1>2, <1>4, <1>9 DEF NumberInv
  <2>2. ASSUME NEW k \in 1..n PROVE buffer'[k] \in ToSet(buffer) \ {Head(buffer)}
    BY <1>4, <1>9, <2>1 DEF ToSet
  <2>3. ASSUME NEW k \in 1..n + 1, buffer[k] # Head(buffer) PROVE buffer[k] \in ToSet(buffer')
    BY <1>4, <1>5, <1>9, <2>3 DEF ToSet
  <2>4. ToSet(buffer') \subseteq ToSet(buffer) \ {Head(buffer)}
    BY <1>9, <2>2 DEF ToSet
  <2>5. ToSet(buffer) \ {Head(buffer)} \subseteq ToSet(buffer')
    BY <1>9, <2>3 DEF ToSet
  <2> QED
    BY <2>4, <2>5
<1>13. Stock' = Stock \ {Head(buffer)}
  BY <1>1, <1>11, <1>12 DEF Stock
<1>14. {j \in Stock : j < Head(buffer)} \subseteq Overtaken(1)
  <2>1. \A p \in Holders : item[p] \in Nat
    BY DEF TypeInv, Holders
  <2>2. \A j \in ToSet(buffer) : j = buffer[1] \/ \E m \in 2..n + 1 : buffer[m] = j
    BY <1>2, <1>9 DEF ToSet
  <2>3. ASSUME NEW j \in Stock, j < Head(buffer)
        PROVE  j \in Nat /\ (j \in InHand \/ \E m \in 2..n + 1 : buffer[m] = j)
    <3>1. CASE j \in InHand
      BY <2>1, <3>1 DEF InHand
    <3>2. CASE j \in ToSet(buffer)
      <4>1. j \in Nat
        BY <1>3, <1>9, <3>2 DEF ToSet
      <4>2. j # buffer[1]
        BY <1>4, <1>10, <2>3, <4>1
      <4> QED
        BY <2>2, <3>2, <4>1, <4>2
    <3> QED
      BY <2>3, <3>1, <3>2 DEF Stock
  <2> QED
    BY <1>2, <1>4, <2>3 DEF Overtaken
<1>15. Cardinality({j \in Stock : j < Head(buffer)}) < Cardinality(Producers)
  <2> DEFINE S == {j \in Stock : j < Head(buffer)}
  <2>1. Cardinality(Overtaken(1)) < Cardinality(Producers)
    BY <1>2, <1>9 DEF OrderInv
  <2>2. IsFiniteSet(Overtaken(1))
    <3>1. Overtaken(1) \in SUBSET Nat /\ \A j \in Overtaken(1) : j <= buffer[1]
      BY <1>4, <1>10 DEF Overtaken
    <3> QED
      BY <1>4, <1>10, <3>1, FS_BoundedSetOfNaturals
  <2>3. IsFiniteSet(S) /\ Cardinality(S) <= Cardinality(Overtaken(1))
    BY <1>14, <2>2, FS_Subset
  <2>4. IsFiniteSet(Producers)
    BY ProgramFacts DEF TypeInv
  <2> QED
    BY <2>1, <2>2, <2>3, <2>4, FS_CardinalityType
<1> QED
  BY <1>6, <1>8, <1>10, <1>13, <1>15
-----------------------------------------------------------------------------
(* Numbers are distinct, and few older ones are behind an item.             *)
LEMMA ItemsStep ==
  TypeInv /\ NumberInv /\ OrderInv /\ [Next]_vars => NumberInv' /\ OrderInv'
<1> SUFFICES ASSUME TypeInv, NumberInv, OrderInv, [Next]_vars PROVE NumberInv' /\ OrderInv'
  OBVIOUS
<1>0. UNCHANGED program
  BY DEF Next, vars
<1>1. ASSUME NEW p \in Producers, Claim(p) PROVE NumberInv' /\ OrderInv'
  BY <1>0, <1>1, ClaimItems
<1>2. ASSUME NEW p \in Producers, Push(p) PROVE NumberInv' /\ OrderInv'
  BY <1>0, <1>2, PushItems
<1>3. ASSUME NEW c \in Consumers, Pop(c) PROVE NumberInv' /\ OrderInv'
  BY <1>0, <1>3, PopItems
<1>4. ASSUME NEW t \in Threads,
             \/ Enter(t) \/ SpuriousWakeup(t)
             \/ t \in Producers /\ (BlockProducer(t) \/ ProducerNotifies(t))
             \/ t \in Consumers /\ (BlockConsumer(t) \/ ConsumerNotifies(t))
      PROVE  NumberInv' /\ OrderInv'
  <2>1. UNCHANGED Holders
    BY <1>0, <1>4, SameHolders, ProgramFacts
       DEF TypeInv, Threads, Goto, Enter, SpuriousWakeup, BlockProducer, ProducerNotifies,
           BlockConsumer, ConsumerNotifies
  <2> QED
    BY <1>0, <1>4, <2>1, SameItems
       DEF Enter, SpuriousWakeup, BlockProducer, ProducerNotifies, BlockConsumer, ConsumerNotifies
<1>5. CASE Join \/ UNCHANGED vars
  BY <1>0, <1>5, SameHolders, SameItems DEF Join, vars, threadVars
<1> QED
  BY <1>1, <1>2, <1>3, <1>4, <1>5 DEF Next, Step, Threads

(* The invariant is inductive.                                              *)
LEMMA StepIInv == IInv /\ [Next]_vars => IInv'
BY TypeStep, CountStep, ItemsStep DEF IInv

(* Hence it holds in every reachable state.                                 *)
LEMMA Invariance == Spec => []IInv
BY InitIInv, StepIInv, PTL DEF Spec
-----------------------------------------------------------------------------
(* The refinement: Claim makes, Pop takes, and nothing else is seen.        *)
LEMMA InitRefines == Init => Promise!Init
<1> SUFFICES ASSUME Init PROVE Promise!Init
  OBVIOUS
<1>1. Total \in Nat /\ MAXBUFF \in Nat /\ Cardinality(Producers) \in Nat
  BY IterationsFinite, ProgramFacts, FS_CardinalityType DEF Init
<1>2. terms \in [items : Nat, room : Nat, makers : Nat]
  BY <1>1 DEF terms
<1>3. InHand \cup ToSet(buffer) = {}
  <2>1. Holders = {} /\ buffer = <<>>
    BY DEF Init, Holders, Threads
  <2>2. ToSet(buffer) = {}
    BY <2>1 DEF ToSet
  <2> QED
    BY <2>1, <2>2 DEF InHand
<1> QED
  BY <1>2, <1>3 DEF Promise!Init, Init

(* What the mapping is made of depends on these variables only.             *)
LEMMA TermsStay ==
  ASSUME UNCHANGED program PROVE UNCHANGED terms
BY ProgramStays DEF terms

(* To draw a number is to make the item of that number.                     *)
LEMMA ClaimMakes ==
  ASSUME IInv, UNCHANGED program, NEW p \in Producers, Claim(p)
  PROVE  Promise!Make \/ UNCHANGED Promise!exchangeVars
<1>0. /\ TypeInv /\ CountInv /\ pc \in [Threads -> Places] /\ p \in Threads
      /\ item \in [Producers -> Nat]
  BY DEF IInv, TypeInv, Threads
<1>1. CASE Goto(p, "ended") /\ UNCHANGED <<item, count>>
  <2>1. UNCHANGED Holders
    BY <1>0, <1>1, SameHolders, ProgramStays DEF Claim, Goto, Threads
  <2> QED
    BY <1>1, <2>1, TermsStay DEF Promise!exchangeVars, Claim, InHand
<1>2. CASE /\ rounds[p] < Share[p] /\ Goto(p, "lock") /\ count' = count + 1
           /\ item' = [item EXCEPT ![p] = count]
  <2>1. count < Total
    BY <1>0, <1>2, ClaimCounts
  <2>2. /\ Holders \subseteq Producers \ {p} /\ Holders' = Holders \cup {p}
        /\ item'[p] = count /\ \A q \in Holders : item'[q] = item[q]
    <3>1. p \notin Holders /\ Holders \subseteq Producers
      BY DEF Claim, Holders
    <3>2. Holders' = Holders \cup {p}
      BY <1>0, <1>2, ProgramStays DEF Claim, Goto, Holders, Threads
    <3> QED
      BY <1>0, <1>2, <3>1, <3>2
  <2>3. InHand' = InHand \cup {count}
    BY <2>2 DEF InHand
  <2>4. Cardinality(InHand \cup ToSet(buffer)) < MAXBUFF + Cardinality(Producers)
    <3>1. IsFiniteSet(Producers) /\ MAXBUFF \in Nat
      BY <1>0, ProgramFacts DEF TypeInv
    <3>2. /\ IsFiniteSet(Producers \ {p})
          /\ Cardinality(Producers \ {p}) = Cardinality(Producers) - 1
      BY <3>1, FS_RemoveElement
    <3>3. IsFiniteSet(InHand) /\ Cardinality(InHand) <= Cardinality(Producers \ {p})
      BY <2>2, <3>2, ImageBound DEF InHand
    <3>4. IsFiniteSet(ToSet(buffer)) /\ Cardinality(ToSet(buffer)) <= MAXBUFF
      <4>1. Len(buffer) \in Nat /\ Len(buffer) <= MAXBUFF
        BY <1>0 DEF TypeInv
      <4>2. IsFiniteSet(ToSet(buffer)) /\ Cardinality(ToSet(buffer)) <= Len(buffer)
        BY <1>0, BufferBound
      <4> QED
        BY <3>1, <4>1, <4>2, FS_CardinalityType
    <3>5. Cardinality(InHand \cup ToSet(buffer)) <= Cardinality(InHand) + Cardinality(ToSet(buffer))
      <4>1. IsFiniteSet(InHand \cap ToSet(buffer))
        BY <3>3, FS_Intersection
      <4>2. Cardinality(InHand \cap ToSet(buffer)) \in Nat
        BY <4>1, FS_CardinalityType
      <4>3. Cardinality(InHand) \in Nat /\ Cardinality(ToSet(buffer)) \in Nat
        BY <3>3, <3>4, FS_CardinalityType
      <4>4. Cardinality(InHand \cup ToSet(buffer))
              = Cardinality(InHand) + Cardinality(ToSet(buffer))
                  - Cardinality(InHand \cap ToSet(buffer))
        BY <3>3, <3>4, FS_Union
      <4> QED
        BY <4>2, <4>3, <4>4
    <3>6. IsFiniteSet(InHand \cup ToSet(buffer))
      BY <3>3, <3>4, FS_Union
    <3> QED
      BY <3>1, <3>2, <3>3, <3>4, <3>5, <3>6, FS_CardinalityType
  <2> QED
    BY <1>2, <2>1, <2>3, <2>4, TermsStay DEF Promise!Make, Promise!Cardinality, Cardinality, terms, Claim
<1> QED
  BY <1>1, <1>2 DEF Claim

(* Every step is a step of Exchange or leaves its variables alone.          *)
LEMMA StepRefines == IInv /\ [Next]_vars
                      => [Promise!Make \/ \E i \in InHand \cup ToSet(buffer) : Promise!Take(i)]_(Promise!exchangeVars)
<1> SUFFICES ASSUME IInv, [Next]_vars
             PROVE  \/ Promise!Make \/ \E i \in InHand \cup ToSet(buffer) : Promise!Take(i)
                    \/ UNCHANGED Promise!exchangeVars
  OBVIOUS
<1>0. UNCHANGED program /\ TypeInv /\ NumberInv /\ OrderInv
  BY DEF Next, vars, IInv
<1>1. ASSUME NEW p \in Producers, Claim(p)
      PROVE  Promise!Make \/ UNCHANGED Promise!exchangeVars
  BY <1>0, <1>1, ClaimMakes
<1>2. ASSUME NEW p \in Producers, Push(p) PROVE UNCHANGED Promise!exchangeVars
  BY <1>0, <1>2, PushItems, TermsStay DEF Promise!exchangeVars, Push
<1>3. ASSUME NEW c \in Consumers, Pop(c)
      PROVE  \E i \in InHand \cup ToSet(buffer) : Promise!Take(i)
  <2>1. /\ Head(buffer) \in Stock /\ Stock' = Stock \ {Head(buffer)}
        /\ Cardinality({j \in Stock : j < Head(buffer)}) < Cardinality(Producers)
    BY <1>0, <1>3, PopItems
  <2>2. terms.makers = Cardinality(Producers) /\ UNCHANGED <<terms, count>>
        /\ consumed' = Append(consumed, Head(buffer))
    BY <1>0, <1>3, TermsStay DEF terms, Pop
  <2>3. Promise!Take(Head(buffer))
    BY <2>1, <2>2 DEF Promise!Take, Promise!Cardinality, Cardinality, Stock
  <2> QED
    BY <2>1, <2>3 DEF Stock
<1>4. ASSUME NEW t \in Threads,
             \/ Enter(t) \/ SpuriousWakeup(t)
             \/ t \in Producers /\ (BlockProducer(t) \/ ProducerNotifies(t))
             \/ t \in Consumers /\ (BlockConsumer(t) \/ ConsumerNotifies(t))
      PROVE  UNCHANGED Promise!exchangeVars
  <2>1. UNCHANGED Holders
    BY <1>0, <1>4, SameHolders, ProgramFacts
       DEF TypeInv, Threads, Goto, Enter, SpuriousWakeup, BlockProducer, ProducerNotifies,
           BlockConsumer, ConsumerNotifies
  <2>2. UNCHANGED <<item, buffer, count, consumed>>
    BY <1>4 DEF Enter, SpuriousWakeup, BlockProducer, ProducerNotifies, BlockConsumer,
                ConsumerNotifies
  <2> QED
    BY <1>0, <2>1, <2>2, TermsStay DEF Promise!exchangeVars, InHand
<1>5. CASE Join \/ UNCHANGED vars
  BY <1>0, <1>5, SameHolders, TermsStay DEF Join, vars, threadVars, Promise!exchangeVars, InHand
<1> QED
  BY <1>1, <1>2, <1>3, <1>4, <1>5 DEF Next, Step, Threads

(* Both programs keep the promise of Exchange: numbers are made in order,   *)
(* each is taken once, what is under way is bounded, and a number overtakes *)
(* at most as many older ones as there are other producers.                 *)
THEOREM Refinement == Spec => ImplementsExchange
BY InitRefines, Invariance, StepRefines, PTL DEF Spec, ImplementsExchange, Promise!Spec
-----------------------------------------------------------------------------
(* No wakeup is lost, for any numbers of threads.                           *)

Cvs == {CvProducer, CvConsumer}

(* A thread in a queue is a waiter of its own side, on its way nowhere.     *)
WaitInv ==
  /\ waiters \in [Cvs -> SUBSET Threads]
  /\ \A cv \in Cvs : \A t \in waiters[cv] :
       /\ pc[t] = "woken"
       /\ t \in Producers => cv = CvProducer
       /\ t \in Consumers => cv = CvConsumer

(* While one of the takers sleeps, takers on their way and notifications    *)
(* the givers owe cover n.                                                  *)
Covered(takers, givers, n) ==
  (\E t \in takers : Blocked(t)) =>
    n <= Cardinality(Coming(takers)) + Cardinality(Owing(givers))

ElementsCovered == Covered(Consumers, Producers, Len(buffer))
PlacesCovered == Covered(Producers, Consumers, MAXBUFF - Len(buffer))

WakeInv == TypeInv /\ WaitInv /\ ElementsCovered /\ PlacesCovered
-----------------------------------------------------------------------------
(* Who is on the way and who owes on a side can be counted.                 *)
LEMMA GroupsFinite ==
  ASSUME NEW group, IsFiniteSet(group)
  PROVE  /\ IsFiniteSet(Coming(group)) /\ Cardinality(Coming(group)) \in Nat
         /\ IsFiniteSet(Owing(group)) /\ Cardinality(Owing(group)) \in Nat
BY FS_Subset, FS_CardinalityType DEF Coming, Owing

(* A queue's sleepers are those of its side, but for the shared queue.      *)
LEMMA SharedQueue ==
  ASSUME TypeInv, CvProducer = CvConsumer
  PROVE  \E p, c : Producers = {p} /\ Consumers = {c} /\ p # c
BY BufferAssumption DEF BufferAssumption, TypeInv, Producers, Consumers, CvProducer, CvConsumer

(* With one sleeper of each side in a shared queue the buffer would have to *)
(* be empty and full.                                                       *)
LEMMA NoTwoSleepers ==
  ASSUME WakeInv PROVE OneWaiter
<1> SUFFICES ASSUME CvProducer = CvConsumer, NEW p \in Producers, NEW c \in Consumers,
                    Blocked(p), Blocked(c)
             PROVE  FALSE
  BY DEF OneWaiter
<1>1. Producers = {p} /\ Consumers = {c}
  BY SharedQueue DEF WakeInv
<1>2. pc[p] = "woken" /\ pc[c] = "woken"
  BY DEF WakeInv, WaitInv, Blocked, Cvs
<1>3. /\ Coming(Consumers) = {} /\ Owing(Producers) = {}
      /\ Coming(Producers) = {} /\ Owing(Consumers) = {}
  BY <1>1, <1>2 DEF Coming, Owing
<1>4. Cardinality({}) = 0
  BY FS_EmptySet
<1>5. Len(buffer) <= 0 /\ MAXBUFF - Len(buffer) <= 0
  BY <1>3, <1>4 DEF WakeInv, ElementsCovered, PlacesCovered, Covered
<1>6. MAXBUFF \in Nat \ {0} /\ Len(buffer) \in Nat
  BY ProgramFacts DEF WakeInv, TypeInv
<1> QED
  BY <1>5, <1>6

(* What covers n covers what is no larger while the sets only grow.         *)
LEMMA CoverGrows ==
  ASSUME NEW C, NEW O, NEW C2, NEW O2, IsFiniteSet(C2), IsFiniteSet(O2),
         C \subseteq C2, O \subseteq O2,
         NEW n \in Int, NEW m \in Int, m <= n, n <= Cardinality(C) + Cardinality(O)
  PROVE  m <= Cardinality(C2) + Cardinality(O2)
<1>1. /\ Cardinality(C) <= Cardinality(C2) /\ Cardinality(O) <= Cardinality(O2)
      /\ IsFiniteSet(C) /\ IsFiniteSet(O)
  BY FS_Subset
<1>2. /\ Cardinality(C) \in Nat /\ Cardinality(O) \in Nat
      /\ Cardinality(C2) \in Nat /\ Cardinality(O2) \in Nat
  BY <1>1, FS_CardinalityType
<1> QED
  BY <1>1, <1>2

(* One more or one less to cover, one more or one less that covers.         *)
LEMMA CoverShifts ==
  ASSUME NEW S, NEW T, NEW x, IsFiniteSet(S), IsFiniteSet(T), NEW n \in Int,
         n <= Cardinality(S) + Cardinality(T)
  PROVE  /\ x \notin S => n + 1 <= Cardinality(S \cup {x}) + Cardinality(T)
         /\ x \notin T => n + 1 <= Cardinality(S) + Cardinality(T \cup {x})
         /\ x \in S => n - 1 <= Cardinality(S \ {x}) + Cardinality(T)
         /\ \A y : x \notin S => n <= Cardinality(S \cup {x}) + Cardinality(T \ {y})
<1>1. Cardinality(S) \in Nat /\ Cardinality(T) \in Nat
  BY FS_CardinalityType
<1>2. /\ x \notin S => Cardinality(S \cup {x}) = Cardinality(S) + 1
      /\ x \notin T => Cardinality(T \cup {x}) = Cardinality(T) + 1
  BY FS_AddElement
<1>3. x \in S => Cardinality(S \ {x}) = Cardinality(S) - 1
  BY FS_RemoveElement
<1>4. ASSUME NEW y
      PROVE  Cardinality(T \ {y}) \in Nat /\ Cardinality(T \ {y}) >= Cardinality(T) - 1
  <2>1. IsFiniteSet(T \ {y}) /\ Cardinality(T \ {y}) \in {Cardinality(T), Cardinality(T) - 1}
    BY FS_RemoveElement
  <2> QED
    BY <1>1, <2>1, FS_CardinalityType
<1> QED
  BY <1>1, <1>2, <1>3, <1>4

(* Only the steps of a thread that waits, wakes or is woken touch a queue.  *)
LEMMA WaitStep == TypeInv /\ WaitInv /\ [Next]_vars => WaitInv'
<1> SUFFICES ASSUME TypeInv, WaitInv, [Next]_vars PROVE WaitInv'
  OBVIOUS
<1>0. /\ UNCHANGED <<program, Producers, Consumers, Threads, CvProducer, CvConsumer, Cvs>>
      /\ Producers \cap Consumers = {} /\ Threads = Producers \cup Consumers
      /\ pc \in [Threads -> Places] /\ CvProducer \in Cvs /\ CvConsumer \in Cvs
  BY ProgramFacts
     DEF TypeInv, Next, vars, Producers, Consumers, Threads, CvProducer, CvConsumer, Cvs
<1>1. ASSUME NEW t \in Threads, pc[t] # "woken" \/ ~Blocked(t), NEW l, Goto(t, l),
             UNCHANGED waiters
      PROVE  WaitInv'
  BY <1>0, <1>1 DEF WaitInv, Goto, Blocked
<1>2. ASSUME NEW t \in Threads, Enter(t) PROVE WaitInv'
  BY <1>1, <1>2 DEF Enter
<1>3. ASSUME NEW p \in Producers, Claim(p) \/ Push(p) PROVE WaitInv'
  BY <1>0, <1>1, <1>3 DEF Claim, Push, monitorVars
<1>4. ASSUME NEW c \in Consumers, Pop(c) PROVE WaitInv'
  BY <1>0, <1>1, <1>4 DEF Pop
<1>5. ASSUME NEW p \in Producers, BlockProducer(p) PROVE WaitInv'
  BY <1>0, <1>5 DEF WaitInv, BlockProducer, Wait, Goto
<1>6. ASSUME NEW c \in Consumers, BlockConsumer(c) PROVE WaitInv'
  BY <1>0, <1>6 DEF WaitInv, BlockConsumer, Wait, Goto
<1>7. ASSUME NEW t \in Threads, NEW cv \in Cvs, NotifyOne(cv), pc[t] = "notify",
             NEW l, Goto(t, l)
      PROVE  WaitInv'
  BY <1>0, <1>7 DEF WaitInv, NotifyOne, Goto
<1>8. ASSUME NEW p \in Producers, ProducerNotifies(p) PROVE WaitInv'
  BY <1>0, <1>7, <1>8 DEF ProducerNotifies, AfterPush
<1>9. ASSUME NEW c \in Consumers, ConsumerNotifies(c) PROVE WaitInv'
  BY <1>0, <1>7, <1>9 DEF ConsumerNotifies, AfterPop
<1>10. ASSUME NEW t \in Threads, SpuriousWakeup(t) PROVE WaitInv'
  BY <1>0, <1>10 DEF WaitInv, SpuriousWakeup, WakesUnasked
<1>11. CASE Join
  BY <1>0, <1>11 DEF WaitInv, Join
<1>12. CASE UNCHANGED vars
  BY <1>0, <1>12 DEF WaitInv, vars, threadVars, monitorVars
<1> QED
  BY <1>0, <1>2, <1>3, <1>4, <1>5, <1>6, <1>8, <1>9, <1>10, <1>11, <1>12 DEF Next, Step
-----------------------------------------------------------------------------
(* The four ways in which a step keeps a side covered: more covers no more; *)
(* an item came and its notification is owed; a traveller took an item; a   *)
(* notification turned a sleeper into a traveller.                          *)
LEMMA StaysCovered ==
  ASSUME NEW C, NEW O, NEW C2, NEW O2, IsFiniteSet(C2), IsFiniteSet(O2),
         NEW n \in Int, NEW m \in Int, n <= Cardinality(C) + Cardinality(O), NEW x, NEW y,
         IsFiniteSet(C), IsFiniteSet(O),
         \/ m <= n /\ C \subseteq C2 /\ O \subseteq O2
         \/ m = n + 1 /\ C \subseteq C2 /\ O2 = O \cup {x} /\ x \notin O
         \/ m = n - 1 /\ x \in C /\ C2 = C \ {x} /\ O \subseteq O2
         \/ m = n /\ x \notin C /\ C2 = C \cup {x} /\ O2 = O \ {y}
  PROVE  m <= Cardinality(C2) + Cardinality(O2)
<1>1. CASE m <= n /\ C \subseteq C2 /\ O \subseteq O2
  BY <1>1, CoverGrows
<1>2. CASE m = n + 1 /\ C \subseteq C2 /\ O2 = O \cup {x} /\ x \notin O
  <2>1. n + 1 <= Cardinality(C) + Cardinality(O2)
    BY <1>2, CoverShifts
  <2> QED
    BY <1>2, <2>1, CoverGrows
<1>3. CASE m = n - 1 /\ x \in C /\ C2 = C \ {x} /\ O \subseteq O2
  <2>1. n - 1 <= Cardinality(C2) + Cardinality(O)
    BY <1>3, CoverShifts
  <2> QED
    BY <1>3, <2>1, CoverGrows
<1>4. CASE m = n /\ x \notin C /\ C2 = C \cup {x} /\ O2 = O \ {y}
  BY <1>4, CoverShifts
<1> QED
  BY <1>1, <1>2, <1>3, <1>4
-----------------------------------------------------------------------------
(* A step of thread t that touches no queue moves t only.                   *)
LEMMA Moved ==
  ASSUME TypeInv, WaitInv, UNCHANGED program, NEW t \in Threads, NEW l \in Places,
         Goto(t, l), UNCHANGED waiters, ~Blocked(t),
         NEW group \in SUBSET Threads
  PROVE  /\ \A u \in group : Blocked(u)' <=> Blocked(u)
         /\ Coming(group)' = IF t \in group /\ l \in {"lock", "check", "woken"}
                             THEN Coming(group) \cup {t} ELSE Coming(group) \ {t}
         /\ Owing(group)' = IF t \in group /\ l = "notify"
                            THEN Owing(group) \cup {t} ELSE Owing(group) \ {t}
<1>1. \A u \in group : Blocked(u)' <=> Blocked(u)
  BY DEF Blocked
<1>2. \A u \in group : pc'[u] = IF u = t THEN l ELSE pc[u]
  BY DEF Goto, TypeInv, Threads, Producers, Consumers
<1>3. Coming(group)' = {u \in group : pc'[u] \in {"lock", "check", "woken"} /\ ~Blocked(u)}
  BY <1>1 DEF Coming
<1> QED
  BY <1>1, <1>2, <1>3 DEF Coming, Owing

(* What is to be shown of a step for either side.                           *)
LEMMA ElementsStay ==
  ASSUME WakeInv, TypeInv', UNCHANGED program, NEW x, NEW y,
         (\E t \in Consumers : Blocked(t)') =>
           /\ \E t \in Consumers : Blocked(t)
           /\ \/ /\ Len(buffer)' <= Len(buffer) /\ Coming(Consumers) \subseteq Coming(Consumers)'
                 /\ Owing(Producers) \subseteq Owing(Producers)'
              \/ /\ Len(buffer)' = Len(buffer) + 1 /\ Coming(Consumers) \subseteq Coming(Consumers)'
                 /\ Owing(Producers)' = Owing(Producers) \cup {x} /\ x \notin Owing(Producers)
              \/ /\ Len(buffer)' = Len(buffer) - 1 /\ x \in Coming(Consumers)
                 /\ Coming(Consumers)' = Coming(Consumers) \ {x}
                 /\ Owing(Producers) \subseteq Owing(Producers)'
              \/ /\ Len(buffer)' = Len(buffer) /\ x \notin Coming(Consumers)
                 /\ Coming(Consumers)' = Coming(Consumers) \cup {x}
                 /\ Owing(Producers)' = Owing(Producers) \ {y}
  PROVE  ElementsCovered'
<1>1. /\ UNCHANGED <<Producers, Consumers>> /\ Len(buffer) \in Int /\ Len(buffer)' \in Int
      /\ IsFiniteSet(Producers) /\ IsFiniteSet(Consumers)
  BY ProgramFacts DEF Producers, Consumers, WakeInv, TypeInv
<1>2. /\ IsFiniteSet(Coming(Consumers)) /\ IsFiniteSet(Coming(Consumers)')
      /\ IsFiniteSet(Owing(Producers)) /\ IsFiniteSet(Owing(Producers)')
  <2>1. /\ Coming(Consumers) \subseteq Consumers /\ Coming(Consumers)' \subseteq Consumers
        /\ Owing(Producers) \subseteq Producers /\ Owing(Producers)' \subseteq Producers
    BY <1>1 DEF Coming, Owing
  <2> QED
    BY <1>1, <2>1, FS_Subset
<1> DEFINE n == Len(buffer)
           m == Len(buffer)'
<1> SUFFICES ASSUME \E t \in Consumers : Blocked(t)'
             PROVE  m <= Cardinality(Coming(Consumers)') + Cardinality(Owing(Producers)')
  BY <1>1 DEF ElementsCovered, Covered
<1>3. n <= Cardinality(Coming(Consumers)) + Cardinality(Owing(Producers))
  BY DEF WakeInv, ElementsCovered, Covered
<1>4. n \in Int /\ m \in Int
  BY <1>1
<1> DEFINE C == Coming(Consumers)
           O == Owing(Producers)
           C2 == Coming(Consumers)'
           O2 == Owing(Producers)'
<1>5. \/ m <= n /\ C \subseteq C2 /\ O \subseteq O2
      \/ m = n + 1 /\ C \subseteq C2 /\ O2 = O \cup {x} /\ x \notin O
      \/ m = n - 1 /\ x \in C /\ C2 = C \ {x} /\ O \subseteq O2
      \/ m = n /\ x \notin C /\ C2 = C \cup {x} /\ O2 = O \ {y}
  BY DEF n, m
<1>6. /\ IsFiniteSet(C) /\ IsFiniteSet(C2) /\ IsFiniteSet(O) /\ IsFiniteSet(O2)
      /\ n <= Cardinality(C) + Cardinality(O)
  BY <1>2, <1>3
<1> HIDE DEF C, O, C2, O2, n, m
<1>7. m <= Cardinality(C2) + Cardinality(O2)
  BY ONLY <1>4, <1>5, <1>6, StaysCovered
<1> QED
  BY <1>7 DEF C2, O2, m

(* A step that owes a notification for the place it frees keeps places covered. *)
LEMMA PlacesStay ==
  ASSUME WakeInv, TypeInv', UNCHANGED program, NEW x, NEW y,
         (\E t \in Producers : Blocked(t)') =>
           /\ \E t \in Producers : Blocked(t)
           /\ \/ /\ Len(buffer)' >= Len(buffer) /\ Coming(Producers) \subseteq Coming(Producers)'
                 /\ Owing(Consumers) \subseteq Owing(Consumers)'
              \/ /\ Len(buffer)' = Len(buffer) - 1 /\ Coming(Producers) \subseteq Coming(Producers)'
                 /\ Owing(Consumers)' = Owing(Consumers) \cup {x} /\ x \notin Owing(Consumers)
              \/ /\ Len(buffer)' = Len(buffer) + 1 /\ x \in Coming(Producers)
                 /\ Coming(Producers)' = Coming(Producers) \ {x}
                 /\ Owing(Consumers) \subseteq Owing(Consumers)'
              \/ /\ Len(buffer)' = Len(buffer) /\ x \notin Coming(Producers)
                 /\ Coming(Producers)' = Coming(Producers) \cup {x}
                 /\ Owing(Consumers)' = Owing(Consumers) \ {y}
  PROVE  PlacesCovered'
<1>1. /\ UNCHANGED <<Producers, Consumers, MAXBUFF>> /\ MAXBUFF \in Int
      /\ Len(buffer) \in Int /\ Len(buffer)' \in Int
      /\ IsFiniteSet(Producers) /\ IsFiniteSet(Consumers)
  BY ProgramFacts DEF Producers, Consumers, MAXBUFF, WakeInv, TypeInv
<1>2. /\ IsFiniteSet(Coming(Producers)) /\ IsFiniteSet(Coming(Producers)')
      /\ IsFiniteSet(Owing(Consumers)) /\ IsFiniteSet(Owing(Consumers)')
  <2>1. /\ Coming(Producers) \subseteq Producers /\ Coming(Producers)' \subseteq Producers
        /\ Owing(Consumers) \subseteq Consumers /\ Owing(Consumers)' \subseteq Consumers
    BY <1>1 DEF Coming, Owing
  <2> QED
    BY <1>1, <2>1, FS_Subset
<1> DEFINE n == MAXBUFF - Len(buffer)
           m == MAXBUFF - Len(buffer)'
<1> SUFFICES ASSUME \E t \in Producers : Blocked(t)'
             PROVE  m <= Cardinality(Coming(Producers)') + Cardinality(Owing(Consumers)')
  BY <1>1 DEF PlacesCovered, Covered
<1>3. n <= Cardinality(Coming(Producers)) + Cardinality(Owing(Consumers))
  BY DEF WakeInv, PlacesCovered, Covered
<1>4. /\ n \in Int /\ m \in Int
      /\ Len(buffer)' >= Len(buffer) => m <= n
      /\ Len(buffer)' = Len(buffer) => m = n
      /\ Len(buffer)' = Len(buffer) - 1 => m = n + 1
      /\ Len(buffer)' = Len(buffer) + 1 => m = n - 1
  BY <1>1
<1> DEFINE C == Coming(Producers)
           O == Owing(Consumers)
           C2 == Coming(Producers)'
           O2 == Owing(Consumers)'
<1>5. \/ m <= n /\ C \subseteq C2 /\ O \subseteq O2
      \/ m = n + 1 /\ C \subseteq C2 /\ O2 = O \cup {x} /\ x \notin O
      \/ m = n - 1 /\ x \in C /\ C2 = C \ {x} /\ O \subseteq O2
      \/ m = n /\ x \notin C /\ C2 = C \cup {x} /\ O2 = O \ {y}
  BY <1>4
<1>6. /\ IsFiniteSet(C) /\ IsFiniteSet(C2) /\ IsFiniteSet(O) /\ IsFiniteSet(O2)
      /\ n <= Cardinality(C) + Cardinality(O)
  BY <1>2, <1>3
<1>7. n \in Int /\ m \in Int
  BY <1>4
<1> HIDE DEF C, O, C2, O2, n, m
<1>8. m <= Cardinality(C2) + Cardinality(O2)
  BY ONLY <1>7, <1>5, <1>6, StaysCovered
<1> QED
  BY <1>8 DEF C2, O2, m

(* A step leaves the sides and their queues alone.                          *)
LEMMA SidesStay ==
  ASSUME WakeInv, UNCHANGED program
  PROVE  /\ UNCHANGED <<Producers, Consumers, Threads, MAXBUFF, CvProducer, CvConsumer, Cvs>>
         /\ Producers \cap Consumers = {}
         /\ Producers \subseteq Threads /\ Consumers \subseteq Threads
         /\ CvProducer \in Cvs /\ CvConsumer \in Cvs
         /\ TypeInv /\ WaitInv
BY ProgramFacts
   DEF Producers, Consumers, MAXBUFF, Threads, CvProducer, CvConsumer, Cvs, WakeInv, TypeInv

(* They can still be counted after a step.                                  *)
LEMMA SidesFinite ==
  ASSUME WakeInv, UNCHANGED program
  PROVE  /\ IsFiniteSet(Coming(Producers)') /\ Cardinality(Coming(Producers)') \in Nat
         /\ IsFiniteSet(Coming(Consumers)') /\ Cardinality(Coming(Consumers)') \in Nat
         /\ IsFiniteSet(Owing(Producers)') /\ Cardinality(Owing(Producers)') \in Nat
         /\ IsFiniteSet(Owing(Consumers)') /\ Cardinality(Owing(Consumers)') \in Nat
<1>1. IsFiniteSet(Producers) /\ IsFiniteSet(Consumers)
  BY SidesStay, ProgramFacts DEF TypeInv
<1>2. /\ Coming(Producers)' \subseteq Producers /\ Coming(Consumers)' \subseteq Consumers
      /\ Owing(Producers)' \subseteq Producers /\ Owing(Consumers)' \subseteq Consumers
  BY SidesStay DEF Coming, Owing
<1> QED
  BY <1>1, <1>2, FS_Subset, FS_CardinalityType

(* A new item is owed a notification.                                       *)
LEMMA PushCovers ==
  ASSUME WakeInv, TypeInv', UNCHANGED program, NEW p \in Producers, Push(p)
  PROVE  ElementsCovered' /\ PlacesCovered'
<1>1. p \in Threads /\ ~Blocked(p)
  BY SidesStay DEF WaitInv, Push, Blocked
<1>2. /\ Coming(Producers)' = Coming(Producers) \ {p} /\ p \in Coming(Producers)
      /\ Owing(Producers)' = Owing(Producers) \cup {p} /\ p \notin Owing(Producers)
      /\ \A u \in Producers : Blocked(u)' <=> Blocked(u)
  BY <1>1, SidesStay, Moved DEF Push, Places, Coming, Owing
<1>3. /\ UNCHANGED <<Coming(Consumers), Owing(Consumers)>>
      /\ \A u \in Consumers : Blocked(u)' <=> Blocked(u)
  BY <1>1, SidesStay, Moved DEF Push, Places, Coming, Owing
<1>4. Len(buffer)' = Len(buffer) + 1 /\ Len(buffer) \in Nat
  <2>1. item[p] \in Nat /\ buffer \in Seq(Nat)
    BY DEF WakeInv, TypeInv
  <2> QED
    BY <2>1 DEF Push
<1>5. ElementsCovered'
  BY <1>2, <1>3, <1>4, SidesStay, ElementsStay
<1>6. PlacesCovered'
  BY <1>2, <1>3, <1>4, SidesStay, PlacesStay
<1> QED
  BY <1>5, <1>6

(* A new place is owed a notification.                                      *)
LEMMA PopCovers ==
  ASSUME WakeInv, TypeInv', UNCHANGED program, NEW c \in Consumers, Pop(c)
  PROVE  ElementsCovered' /\ PlacesCovered'
<1>1. c \in Threads /\ ~Blocked(c)
  BY SidesStay DEF WaitInv, Pop, Blocked
<1>2. /\ Coming(Consumers)' = Coming(Consumers) \ {c} /\ c \in Coming(Consumers)
      /\ Owing(Consumers)' = Owing(Consumers) \cup {c} /\ c \notin Owing(Consumers)
      /\ \A u \in Consumers : Blocked(u)' <=> Blocked(u)
  BY <1>1, SidesStay, Moved DEF Pop, Places, Coming, Owing
<1>3. /\ UNCHANGED <<Coming(Producers), Owing(Producers)>>
      /\ \A u \in Producers : Blocked(u)' <=> Blocked(u)
  BY <1>1, SidesStay, Moved DEF Pop, Places, Coming, Owing
<1>4. Len(buffer)' = Len(buffer) - 1 /\ Len(buffer) \in Nat
  BY DEF Pop, MayPop, WakeInv, TypeInv
<1>5. ElementsCovered'
  BY <1>2, <1>3, <1>4, SidesStay, ElementsStay
<1>6. PlacesCovered'
  BY <1>2, <1>3, <1>4, SidesStay, PlacesStay
<1> QED
  BY <1>5, <1>6

(* A step that leaves the buffer alone, and with it more covers the same.   *)
LEMMA ElementsKept ==
  ASSUME WakeInv, TypeInv', UNCHANGED <<program, buffer>>,
         \A u \in Consumers : Blocked(u)' => Blocked(u),
         Coming(Consumers) \subseteq Coming(Consumers)',
         Owing(Producers) \subseteq Owing(Producers)'
  PROVE  ElementsCovered'
<1>1. Len(buffer)' = Len(buffer) /\ Len(buffer) \in Int
  BY DEF WakeInv, TypeInv
<1>2. (\E t \in Consumers : Blocked(t)') => \E t \in Consumers : Blocked(t)
  OBVIOUS
<1>3. Len(buffer)' <= Len(buffer)
  BY <1>1
<1> QED
  BY <1>2, <1>3, ElementsStay

(* A step that frees no place keeps the places covered.                     *)
LEMMA PlacesKept ==
  ASSUME WakeInv, TypeInv', UNCHANGED <<program, buffer>>,
         \A u \in Producers : Blocked(u)' => Blocked(u),
         Coming(Producers) \subseteq Coming(Producers)',
         Owing(Consumers) \subseteq Owing(Consumers)'
  PROVE  PlacesCovered'
<1>1. Len(buffer)' = Len(buffer) /\ Len(buffer) \in Int
  BY DEF WakeInv, TypeInv
<1>2. (\E t \in Producers : Blocked(t)') => \E t \in Producers : Blocked(t)
  OBVIOUS
<1>3. Len(buffer)' >= Len(buffer)
  BY <1>1
<1> QED
  BY <1>2, <1>3, PlacesStay

(* A thread that blocks does so beside an empty buffer, or a full one.      *)
LEMMA BlockCovers ==
  ASSUME WakeInv, TypeInv', UNCHANGED program, NEW t \in Threads,
         \/ t \in Producers /\ BlockProducer(t)
         \/ t \in Consumers /\ BlockConsumer(t)
  PROVE  ElementsCovered' /\ PlacesCovered'
<1>1. UNCHANGED buffer /\ Goto(t, "woken") /\ pc[t] = "check" /\ ~Blocked(t)
  BY SidesStay DEF BlockProducer, BlockConsumer, WaitInv, Blocked
<1>2. ASSUME NEW group \in SUBSET Threads, t \notin group, UNCHANGED group
      PROVE  /\ UNCHANGED <<Coming(group), Owing(group)>>
             /\ \A u \in group : Blocked(u)' <=> Blocked(u)
  <2>1. \A u \in group : pc'[u] = pc[u]
    BY <1>1, <1>2, SidesStay DEF Goto, TypeInv
  <2>2. \A u \in group : Blocked(u)' <=> Blocked(u)
    BY <1>2, SidesStay DEF BlockProducer, BlockConsumer, Wait, WaitInv, Blocked
  <2> QED
    BY <1>2, <2>1, <2>2 DEF Coming, Owing
<1>3. CASE t \in Producers /\ BlockProducer(t)
  <2>1. /\ UNCHANGED <<Coming(Consumers), Owing(Consumers)>>
        /\ \A u \in Consumers : Blocked(u)' <=> Blocked(u)
    BY <1>2, <1>3, SidesStay
  <2>2. UNCHANGED Owing(Producers)
    BY <1>1, SidesStay DEF Owing, Goto, TypeInv
  <2>3. ElementsCovered'
    BY <1>1, <2>1, <2>2, SidesStay, ElementsKept
  <2>4. PlacesCovered'
    <3>1. MAXBUFF' - Len(buffer)' <= 0 /\ MAXBUFF' - Len(buffer)' \in Int
      BY <1>3, ProgramFacts, SidesStay DEF BlockProducer, MayPush, TypeInv
    <3>2. /\ Cardinality(Coming(Producers)') \in Nat
          /\ Cardinality(Owing(Consumers)') \in Nat
      BY SidesStay, SidesFinite
    <3> QED
      BY <3>1, <3>2 DEF PlacesCovered, Covered
  <2> QED
    BY <2>3, <2>4
<1>4. CASE t \in Consumers /\ BlockConsumer(t)
  <2>1. /\ UNCHANGED <<Coming(Producers), Owing(Producers)>>
        /\ \A u \in Producers : Blocked(u)' <=> Blocked(u)
    BY <1>2, <1>4, SidesStay
  <2>2. UNCHANGED Owing(Consumers)
    BY <1>1, SidesStay DEF Owing, Goto, TypeInv
  <2>3. PlacesCovered'
    BY <1>1, <2>1, <2>2, SidesStay, PlacesKept
  <2>4. ElementsCovered'
    <3>1. Len(buffer)' = 0
      BY <1>4 DEF BlockConsumer, MayPop
    <3>2. /\ Cardinality(Coming(Consumers)') \in Nat
          /\ Cardinality(Owing(Producers)') \in Nat
      BY SidesStay, SidesFinite
    <3> QED
      BY <3>1, <3>2 DEF ElementsCovered, Covered
  <2> QED
    BY <2>3, <2>4
<1> QED
  BY <1>3, <1>4

(* A notification that is sent to a side is no longer owed to it, and turns *)
(* one of its sleepers, if there are any, into a traveller.                 *)
LEMMA NotifyCovers ==
  ASSUME WakeInv, TypeInv', UNCHANGED <<program, buffer>>, NEW g \in Threads,
         pc[g] = "notify", NEW l \in {"loop", "lock", "ended"}, Goto(g, l),
         \/ g \in Producers /\ NotifyOne(CvConsumer)
         \/ g \in Consumers /\ NotifyOne(CvProducer)
  PROVE  ElementsCovered' /\ PlacesCovered'
<1> DEFINE Asleep(u) == \E cv \in Cvs : u \in waiters[cv]
           AsleepNext(u) == \E cv \in Cvs : u \in waiters'[cv]
           On == {"lock", "check", "woken"}
<1>1. /\ DOMAIN waiters = Cvs /\ DOMAIN waiters' = Cvs
      /\ \A u : Blocked(u) <=> Asleep(u)
      /\ \A u : Blocked(u)' <=> AsleepNext(u)
      /\ \A u : AsleepNext(u) => Asleep(u)
  BY SidesStay DEF WaitInv, NotifyOne, Blocked
<1>2. /\ pc'[g] = l /\ \A u \in Threads \ {g} : pc'[u] = pc[u]
      /\ g \in Threads
  BY SidesStay DEF Goto, TypeInv
<1>3. ~Asleep(g)
  BY SidesStay DEF WaitInv
<1>4. /\ Coming(Producers) = {u \in Producers : pc[u] \in On /\ ~Asleep(u)}
      /\ Coming(Consumers) = {u \in Consumers : pc[u] \in On /\ ~Asleep(u)}
      /\ Coming(Producers)' = {u \in Producers : pc'[u] \in On /\ ~AsleepNext(u)}
      /\ Coming(Consumers)' = {u \in Consumers : pc'[u] \in On /\ ~AsleepNext(u)}
  BY <1>1, SidesStay DEF Coming
<1>5. /\ Owing(Producers)' = Owing(Producers) \ {g}
      /\ Owing(Consumers)' = Owing(Consumers) \ {g}
  BY <1>2, SidesStay DEF Owing
<1>6. /\ Coming(Producers) \subseteq Coming(Producers)'
      /\ Coming(Consumers) \subseteq Coming(Consumers)'
  <2>1. pc[g] \notin On
    OBVIOUS
  <2> QED
    BY <1>1, <1>2, <1>4, <2>1, SidesStay
<1>7. OneWaiter
  BY NoTwoSleepers
<1>8. CASE g \in Producers /\ NotifyOne(CvConsumer)
  <2>1. g \notin Consumers /\ UNCHANGED Owing(Consumers)
    BY <1>5, <1>8, SidesStay DEF Owing
  <2>2. PlacesCovered'
    BY <1>1, <1>6, <2>1, SidesStay, PlacesKept
  <2>3. CASE \A u \in Consumers : ~Asleep(u)
    BY <1>1, <2>2, <2>3, SidesStay, ElementsStay
  <2>4. ASSUME NEW u \in Consumers, Asleep(u) PROVE ElementsCovered'
    <3>1. u \in waiters[CvConsumer]
      BY <2>4, SidesStay DEF WaitInv
    <3>2. PICK w \in waiters[CvConsumer] :
            waiters' = [waiters EXCEPT ![CvConsumer] = @ \ {w}]
      BY <1>8, <3>1 DEF NotifyOne
    <3>3. w \in Consumers /\ pc[w] = "woken"
      <4>1. pc[w] = "woken" /\ w \in Threads /\ (w \in Producers => CvConsumer = CvProducer)
        BY <3>2, SidesStay DEF WaitInv
      <4>2. Blocked(w) /\ Blocked(u)
        BY <1>1, <2>4, <3>2, SidesStay
      <4> QED
        BY <1>7, <2>4, <4>1, <4>2 DEF OneWaiter, Threads
    <3>4. ~AsleepNext(w) /\ \A v \in Consumers : v # w => (AsleepNext(v) <=> Asleep(v))
      BY <3>2, <3>3, SidesStay DEF WaitInv
    <3>5. w \notin Coming(Consumers) /\ Coming(Consumers)' = Coming(Consumers) \cup {w}
      <4>1. Asleep(w)
        BY <3>2, SidesStay
      <4> QED
        BY <1>2, <1>4, <2>1, <3>3, <3>4, <4>1, SidesStay
    <3> QED
      BY <1>1, <1>5, <2>4, <3>5, SidesStay, ElementsStay
  <2> QED
    BY <2>2, <2>3, <2>4
<1>9. CASE g \in Consumers /\ NotifyOne(CvProducer)
  <2>1. g \notin Producers /\ UNCHANGED Owing(Producers)
    BY <1>5, <1>9, SidesStay DEF Owing
  <2>2. ElementsCovered'
    BY <1>1, <1>6, <2>1, SidesStay, ElementsKept
  <2>3. CASE \A u \in Producers : ~Asleep(u)
    BY <1>1, <2>2, <2>3, SidesStay, PlacesStay
  <2>4. ASSUME NEW u \in Producers, Asleep(u) PROVE PlacesCovered'
    <3>1. u \in waiters[CvProducer]
      BY <2>4, SidesStay DEF WaitInv
    <3>2. PICK w \in waiters[CvProducer] :
            waiters' = [waiters EXCEPT ![CvProducer] = @ \ {w}]
      BY <1>9, <3>1 DEF NotifyOne
    <3>3. w \in Producers /\ pc[w] = "woken"
      <4>1. pc[w] = "woken" /\ w \in Threads /\ (w \in Consumers => CvConsumer = CvProducer)
        BY <3>2, SidesStay DEF WaitInv
      <4>2. Blocked(w) /\ Blocked(u)
        BY <1>1, <2>4, <3>2, SidesStay
      <4> QED
        BY <1>7, <2>4, <4>1, <4>2 DEF OneWaiter, Threads
    <3>4. ~AsleepNext(w) /\ \A v \in Producers : v # w => (AsleepNext(v) <=> Asleep(v))
      BY <3>2, <3>3, SidesStay DEF WaitInv
    <3>5. w \notin Coming(Producers) /\ Coming(Producers)' = Coming(Producers) \cup {w}
      <4>1. Asleep(w)
        BY <3>2, SidesStay
      <4> QED
        BY <1>2, <1>4, <2>1, <3>3, <3>4, <4>1, SidesStay
    <3> QED
      BY <1>1, <1>5, <2>4, <3>5, SidesStay, PlacesStay
  <2> QED
    BY <2>2, <2>3, <2>4
<1> QED
  BY <1>8, <1>9

(* Every step keeps items and places covered.                               *)
LEMMA CoverStep ==
  WakeInv /\ TypeInv' /\ [Next]_vars => ElementsCovered' /\ PlacesCovered'
<1> SUFFICES ASSUME WakeInv, TypeInv', [Next]_vars PROVE ElementsCovered' /\ PlacesCovered'
  OBVIOUS
<1>0. UNCHANGED program
  BY DEF Next, vars
<1>1. ASSUME NEW t \in Threads, Enter(t) PROVE ElementsCovered' /\ PlacesCovered'
  <2>1. /\ pc[t] \in {"lock", "woken"} /\ ~Blocked(t) /\ UNCHANGED <<waiters, buffer>>
        /\ Goto(t, "check")
    BY <1>0, <1>1, SidesStay DEF Enter, WaitInv, Blocked
  <2>2. ASSUME NEW group \in SUBSET Threads, UNCHANGED group
        PROVE  /\ UNCHANGED <<Coming(group), Owing(group)>>
               /\ \A u \in group : Blocked(u)' <=> Blocked(u)
    BY <1>0, <2>1, <2>2, SidesStay DEF Coming, Owing, Goto, TypeInv, Blocked
  <2> QED
    BY <1>0, <2>1, <2>2, SidesStay, ElementsKept, PlacesKept
<1>2. ASSUME NEW p \in Producers, Claim(p) PROVE ElementsCovered' /\ PlacesCovered'
  <2>1. /\ pc[p] = "loop" /\ UNCHANGED <<waiters, buffer>>
        /\ Goto(p, "ended") \/ Goto(p, "lock")
    BY <1>2 DEF Claim, monitorVars
  <2>2. ASSUME NEW group \in SUBSET Threads, UNCHANGED group
        PROVE  /\ Coming(group) \subseteq Coming(group)' /\ UNCHANGED Owing(group)
               /\ \A u \in group : Blocked(u)' <=> Blocked(u)
    BY <1>0, <2>1, <2>2, SidesStay DEF Coming, Owing, Goto, TypeInv, Blocked
  <2> QED
    BY <1>0, <2>1, <2>2, SidesStay, ElementsKept, PlacesKept
<1>3. ASSUME NEW p \in Producers, Push(p) PROVE ElementsCovered' /\ PlacesCovered'
  BY <1>0, <1>3, PushCovers
<1>4. ASSUME NEW c \in Consumers, Pop(c) PROVE ElementsCovered' /\ PlacesCovered'
  BY <1>0, <1>4, PopCovers
<1>5. ASSUME NEW t \in Threads,
             \/ t \in Producers /\ BlockProducer(t)
             \/ t \in Consumers /\ BlockConsumer(t)
      PROVE  ElementsCovered' /\ PlacesCovered'
  BY <1>0, <1>5, BlockCovers
<1>6. ASSUME NEW p \in Producers, ProducerNotifies(p) PROVE ElementsCovered' /\ PlacesCovered'
  BY <1>0, <1>6, SidesStay, NotifyCovers DEF ProducerNotifies, AfterPush
<1>7. ASSUME NEW c \in Consumers, ConsumerNotifies(c) PROVE ElementsCovered' /\ PlacesCovered'
  BY <1>0, <1>7, SidesStay, NotifyCovers DEF ConsumerNotifies, AfterPop
<1>8. ASSUME NEW t \in Threads, SpuriousWakeup(t) PROVE ElementsCovered' /\ PlacesCovered'
  <2>1. \A u : Blocked(u)' => Blocked(u)
    BY <1>8, SidesStay DEF SpuriousWakeup, WakesUnasked, Blocked
  <2>2. UNCHANGED <<pc, buffer>>
    BY <1>8 DEF SpuriousWakeup
  <2>3. /\ Coming(Consumers) \subseteq Coming(Consumers)' /\ UNCHANGED Owing(Producers)
        /\ Coming(Producers) \subseteq Coming(Producers)' /\ UNCHANGED Owing(Consumers)
    BY <1>0, <2>1, <2>2, SidesStay DEF Coming, Owing
  <2> QED
    BY <1>0, <2>1, <2>2, <2>3, SidesStay, ElementsKept, PlacesKept
<1>9. CASE Join
  <2>1. \A u : ~Blocked(u)'
    BY <1>9 DEF Join, Blocked
  <2> QED
    BY <2>1 DEF ElementsCovered, PlacesCovered, Covered
<1>10. CASE UNCHANGED vars
  BY <1>0, <1>10, SidesStay
     DEF vars, threadVars, monitorVars, WakeInv, ElementsCovered, PlacesCovered, Covered,
         Coming, Owing, Blocked
<1> QED
  BY <1>0, <1>1, <1>2, <1>3, <1>4, <1>5, <1>6, <1>7, <1>8, <1>9, <1>10, SidesStay
     DEF Next, Step
-----------------------------------------------------------------------------
(* Nobody sleeps at the start.                                              *)
LEMMA InitWakeInv == Init => WaitInv /\ ElementsCovered /\ PlacesCovered
BY DEF Init, WaitInv, ElementsCovered, PlacesCovered, Covered, Blocked, Cvs

(* No wakeup is lost in any reachable state.                                *)
LEMMA WakeInvariance == Spec => []WakeInv
<1>1. Init => WaitInv /\ ElementsCovered /\ PlacesCovered
  BY InitWakeInv
<1>2. IInv /\ IInv' /\ WaitInv /\ ElementsCovered /\ PlacesCovered /\ [Next]_vars
        => WaitInv' /\ ElementsCovered' /\ PlacesCovered'
  BY WaitStep, CoverStep DEF WakeInv, IInv
<1>3. IInv /\ WaitInv /\ ElementsCovered /\ PlacesCovered => WakeInv
  BY DEF IInv, WakeInv
<1> QED
  BY <1>1, <1>2, <1>3, Invariance, PTL DEF Spec

(* One notify_one for each item and each place, sent after the unlock,      *)
(* loses no wakeup: whatever sleeps beside items or room is covered by      *)
(* threads on their way and notifications still owed.                       *)
THEOREM WakeupsKept == Spec => []NoLostWakeup
<1>1. WakeInv => NoLostWakeup
  BY DEF WakeInv, ElementsCovered, PlacesCovered, Covered, NoLostWakeup
<1> QED
  BY <1>1, WakeInvariance, PTL

(* A condition variable that a producer and a consumer share never has both *)
(* of them asleep.                                                          *)
THEOREM SharedQueueSafe == Spec => []OneWaiter
BY NoTwoSleepers, WakeInvariance, PTL
-----------------------------------------------------------------------------
(* Who may hold the mutex, and that what was taken has been made.           *)
TakenInv ==
  /\ mutex \in Threads \cup {Free} /\ main \in {"join", "ended"}
  /\ \A k \in 1..Len(consumed) : consumed[k] < count

(* Only numbers that were drawn are taken.                                  *)
LEMMA TakenStep == IInv /\ TakenInv /\ [Next]_vars => TakenInv'
<1> SUFFICES ASSUME IInv, TakenInv, [Next]_vars PROVE TakenInv'
  OBVIOUS
<1>1. /\ consumed \in Seq(Nat) /\ buffer \in Seq(Nat) /\ count \in Nat
      /\ \A k \in 1..Len(buffer) : buffer[k] < count
  BY DEF IInv, TypeInv, NumberInv
<1>2. program' = program /\ Threads' = Threads
  <2>1. program' = program
    BY DEF Next, vars
  <2> QED
    BY <2>1, ProgramStays DEF Threads
<1>3. ASSUME mutex' \in Threads \cup {Free}, main' \in {"join", "ended"},
             consumed' = consumed, count' \in {count, count + 1}
      PROVE  TakenInv'
  BY <1>1, <1>2, <1>3 DEF TakenInv
<1>4. ASSUME NEW c \in Consumers, Pop(c) PROVE TakenInv'
  <2>1. consumed' = Append(consumed, Head(buffer)) /\ buffer # <<>> /\ count' = count
    BY <1>4 DEF Pop, MayPop
  <2>2. Head(buffer) = buffer[1] /\ 1 \in 1..Len(buffer) /\ Head(buffer) \in Nat
    BY <1>1, <2>1
  <2>3. /\ Len(consumed') = Len(consumed) + 1 /\ consumed'[Len(consumed) + 1] = Head(buffer)
        /\ \A k \in 1..Len(consumed) : consumed'[k] = consumed[k]
    BY <1>1, <2>1, <2>2
  <2>4. \A k \in 1..Len(consumed') : k \in 1..Len(consumed) \/ k = Len(consumed) + 1
    BY <1>1, <2>3
  <2>5. \A k \in 1..Len(consumed') : consumed'[k] < count'
    BY <1>1, <2>1, <2>2, <2>3, <2>4 DEF TakenInv
  <2> QED
    BY <1>2, <1>4, <2>5 DEF Pop, Unlock, TakenInv
<1>5. ASSUME NEW p \in Producers, Claim(p) \/ BlockProducer(p) \/ Push(p) \/ ProducerNotifies(p)
      PROVE  TakenInv'
  BY <1>3, <1>5 DEF Claim, BlockProducer, Push, ProducerNotifies, Wait, Unlock, monitorVars, TakenInv
<1>6. ASSUME NEW c \in Consumers, BlockConsumer(c) \/ ConsumerNotifies(c) PROVE TakenInv'
  BY <1>3, <1>6 DEF BlockConsumer, ConsumerNotifies, Wait, TakenInv
<1>7. ASSUME NEW t \in Threads, Enter(t) \/ SpuriousWakeup(t) PROVE TakenInv'
  BY <1>3, <1>7 DEF Enter, SpuriousWakeup, Lock, TakenInv
<1>8. CASE Join \/ UNCHANGED vars
  BY <1>3, <1>8 DEF Join, vars, threadVars, monitorVars, TakenInv
<1> QED
  BY <1>4, <1>5, <1>6, <1>7, <1>8 DEF Next, Step

(* Numbers that were drawn are numbers of items.                            *)
LEMMA CountBound ==
  ASSUME TypeInv, CountInv PROVE count \in 0..Total /\ \A n \in Nat : n < count => n \in Items
<1>1. IsFiniteSet(Iterations) /\ Total \in Nat
  BY IterationsFinite DEF TypeInv
<1>2. Started \subseteq Iterations
  BY DEF Started
<1>3. Cardinality(Started) <= Total
  BY <1>1, <1>2, FS_Subset DEF Total
<1> QED
  BY <1>1, <1>3 DEF TypeInv, CountInv, Items

(* Every variable keeps its type: no number is drawn that is not an item's, *)
(* so that the branch that gives a number back is never taken.              *)
THEOREM TypeCorrect == Spec => []TypeOK
<1>1. Init => TakenInv
  BY DEF Init, TakenInv
<1>2. ASSUME IInv, WakeInv, TakenInv PROVE TypeOK
  <2>1. \A n \in Nat : n < count => n \in Items
    BY <1>2, CountBound DEF IInv
  <2>2. buffer \in Seq(Items)
    <3>1. buffer \in Seq(Nat) /\ \A k \in 1..Len(buffer) : buffer[k] < count
      BY <1>2 DEF IInv, TypeInv, NumberInv
    <3> QED
      BY <2>1, <3>1
  <2>3. consumed \in Seq(Items)
    <3>1. consumed \in Seq(Nat) /\ \A k \in 1..Len(consumed) : consumed[k] < count
      BY <1>2 DEF IInv, TypeInv, TakenInv
    <3> QED
      BY <2>1, <3>1
  <2>4. count \in 0..Total
    BY <1>2, CountBound DEF IInv
  <2> QED
    BY <1>2, <2>2, <2>3, <2>4 DEF IInv, WakeInv, TypeInv, WaitInv, TakenInv, TypeOK, Places, Cvs
<1>3. IInv /\ TakenInv /\ [Next]_vars => TakenInv'
  BY TakenStep
<1> QED
  BY <1>1, <1>2, <1>3, Invariance, WakeInvariance, PTL DEF Spec
-----------------------------------------------------------------------------
(* Items a consumer of a given number has taken: those of its completed     *)
(* iterations, and of the one whose notification is still owed.             *)
Serves(c) == rounds[c] + (IF pc[c] = "notify" THEN 1 ELSE 0)
Demand == UNION {{c} \X (1..Quota) : c \in Consumers}
Served == {x \in Demand : x[2] <= Serves(x[1])}

(* Every number drawn is in a producer's hands, in the buffer or taken.     *)
MadeInv ==
  /\ \A n \in 0..count - 1 : n \in Stock \cup ToSet(consumed)
  /\ count = Cardinality(Holders) + Len(buffer) + Len(consumed)

(* A thread has ended exactly if its loop has.                              *)
EndInv ==
  /\ \A p \in Producers : pc[p] = "ended" => rounds[p] = Share[p]
  /\ Quota = Forever => \A c \in Consumers : pc[c] # "ended"
  /\ Quota # Forever =>
       /\ Len(consumed) = Cardinality(Served)
       /\ \A c \in Consumers : /\ Serves(c) <= Quota
                               /\ pc[c] = "ended" <=> rounds[c] = Quota

(* main joins the consumers too, and those that know no quota never end.    *)
NeverJoined == Quota = Forever /\ Consumers # {} => main = "join"

(* Nobody can go on but by a spurious wakeup.                               *)
AllAsleep == \A t \in Threads : pc[t] = "ended" \/ Blocked(t)

(* Then everything was made and taken, and threads that know how many items *)
(* there are have ended.                                                    *)
CompleteWhenAsleep ==
  /\ IF Quota = Forever THEN Consumers # {} ELSE Cardinality(Demand) = Total
  /\ AllAsleep
  => /\ ToSet(consumed) = Items
     /\ Quota # Forever => \A t \in Threads : pc[t] = "ended"

-----------------------------------------------------------------------------
(* A sum of cardinalities and lengths is one of natural numbers.            *)
LEMMA Lengths ==
  ASSUME TypeInv
  PROVE  /\ IsFiniteSet(Holders) /\ Cardinality(Holders) \in Nat /\ Holders \subseteq Producers
         /\ Len(buffer) \in Nat /\ Len(consumed) \in Nat /\ count \in Nat
<1>1. Holders \subseteq Producers /\ IsFiniteSet(Producers)
  BY ProgramFacts DEF Holders, TypeInv
<1> QED
  BY <1>1, FS_Subset, FS_CardinalityType DEF TypeInv

(* A sequence's set grows by what is appended.                              *)
LEMMA ToSetAppends ==
  ASSUME NEW S, NEW s \in Seq(S), NEW x \in S PROVE ToSet(Append(s, x)) = ToSet(s) \cup {x}
<1>1. PICK n \in Nat : n = Len(s)
  OBVIOUS
<1>2. /\ DOMAIN s = 1..n /\ DOMAIN Append(s, x) = 1..n + 1 /\ Append(s, x)[n + 1] = x
      /\ \A k \in 1..n : Append(s, x)[k] = s[k]
  BY <1>1
<1>3. /\ \A k \in 1..n + 1 : k = n + 1 \/ k \in 1..n
      /\ n + 1 \in 1..n + 1 /\ \A k \in 1..n : k \in 1..n + 1
  BY <1>1
<1> QED
  BY <1>2, <1>3 DEF ToSet

(* Steps that move no item.                                                 *)
LEMMA MadeStays ==
  ASSUME MadeInv, UNCHANGED <<program, item, buffer, count, consumed, Holders>>
  PROVE  MadeInv'
BY DEF MadeInv, Stock, InHand

(* Items go from the producers' hands into the buffer, and are taken there. *)
LEMMA MadeStep == IInv /\ MadeInv /\ [Next]_vars => MadeInv'
<1> SUFFICES ASSUME IInv, MadeInv, [Next]_vars PROVE MadeInv'
  OBVIOUS
<1>0. /\ program' = program /\ TypeInv /\ CountInv /\ NumberInv /\ OrderInv
      /\ pc \in [Threads -> Places] /\ Producers \subseteq Threads /\ Producers \cap Consumers = {}
      /\ item \in [Producers -> Nat]
  BY ProgramFacts DEF Next, vars, IInv, TypeInv, Threads
<1>1. /\ UNCHANGED <<Producers, Consumers, Threads, MAXBUFF, Share, Quota>>
  BY <1>0, ProgramStays
<1>2. ASSUME NEW p \in Producers, Claim(p) PROVE MadeInv'
  <2>1. CASE Goto(p, "ended") /\ UNCHANGED <<item, count>>
    <3>1. UNCHANGED Holders
      BY <1>0, <1>1, <1>2, <2>1 DEF Claim, Goto, Holders
    <3> QED
      BY <1>0, <1>2, <2>1, <3>1, MadeStays DEF Claim
  <2>2. CASE /\ Goto(p, "lock") /\ count' = count + 1 /\ item' = [item EXCEPT ![p] = count]
    <3>1. Holders' = Holders \cup {p} /\ p \notin Holders /\ UNCHANGED <<buffer, consumed>>
      BY <1>0, <1>1, <1>2, <2>2 DEF Claim, Goto, Holders
    <3>2. InHand' = InHand \cup {count}
      <4>1. item'[p] = count /\ \A q \in Holders : item'[q] = item[q]
        BY <1>0, <2>2, <3>1 DEF Holders
      <4> QED
        BY <3>1, <4>1 DEF InHand
    <3>3. Cardinality(Holders') = Cardinality(Holders) + 1
      BY <1>0, <3>1, Lengths, FS_AddElement
    <3>4. \A n \in 0..count' - 1 : n = count \/ n \in 0..count - 1
      BY <1>0, <2>2, Lengths
    <3> QED
      BY <1>0, <2>2, <3>1, <3>2, <3>3, <3>4, Lengths DEF MadeInv, Stock
  <2> QED
    BY <1>2, <2>1, <2>2 DEF Claim
<1>3. ASSUME NEW p \in Producers, Push(p) PROVE MadeInv'
  <2>1. InHand' \cup ToSet(buffer') = InHand \cup ToSet(buffer)
    BY <1>0, <1>3, PushItems
  <2>2. /\ Holders' = Holders \ {p} /\ p \in Holders /\ UNCHANGED <<consumed, count>>
        /\ Len(buffer') = Len(buffer) + 1
    <3>1. pc[p] = "check" /\ pc' = [pc EXCEPT ![p] = "notify"] /\ p \in Threads
      BY <1>0, <1>3 DEF Push, Goto
    <3>2. Len(buffer') = Len(buffer) + 1
      BY <1>0, <1>3 DEF Push, TypeInv
    <3> QED
      BY <1>0, <1>1, <1>3, <3>1, <3>2 DEF Push, Holders
  <2>3. Cardinality(Holders') = Cardinality(Holders) - 1
    BY <1>0, <2>2, Lengths, FS_RemoveElement
  <2> QED
    BY <1>0, <2>1, <2>2, <2>3, Lengths DEF MadeInv, Stock
<1>4. ASSUME NEW c \in Consumers, Pop(c) PROVE MadeInv'
  <2>1. Head(buffer) \in Stock /\ Stock' = Stock \ {Head(buffer)}
    BY <1>0, <1>4, PopItems
  <2>2. /\ consumed' = Append(consumed, Head(buffer)) /\ buffer # <<>> /\ buffer' = Tail(buffer)
        /\ count' = count
    BY <1>4 DEF Pop, MayPop
  <2>3. buffer \in Seq(Nat) /\ consumed \in Seq(Nat)
    BY <1>0 DEF TypeInv
  <2>4. Head(buffer) \in Nat /\ Len(buffer') = Len(buffer) - 1
    BY <2>2, <2>3
  <2>5. Len(consumed') = Len(consumed) + 1
    BY <2>2, <2>3, <2>4
  <2>6. ToSet(consumed') = ToSet(consumed) \cup {Head(buffer)}
    BY <2>2, <2>3, <2>4, ToSetAppends
  <2>7. UNCHANGED Holders
    BY <1>0, <1>1, <1>4 DEF Pop, Goto, Holders
  <2>8. \A n \in 0..count' - 1 : n \in Stock' \cup ToSet(consumed')
    BY <2>1, <2>2, <2>6 DEF MadeInv
  <2>9. count' = Cardinality(Holders') + Len(buffer') + Len(consumed')
    <3>1. count = Cardinality(Holders) + Len(buffer) + Len(consumed)
      BY DEF MadeInv
    <3> QED
      BY <1>0, <2>2, <2>4, <2>5, <2>7, <3>1, Lengths
  <2> QED
    BY <2>8, <2>9 DEF MadeInv
<1>5. ASSUME NEW t \in Threads, Enter(t) PROVE MadeInv'
  <2>1. UNCHANGED Holders
    BY <1>0, <1>1, <1>5 DEF Enter, Goto, Holders
  <2> QED
    BY <1>0, <1>5, <2>1, MadeStays DEF Enter
<1>6. ASSUME NEW p \in Producers, BlockProducer(p) \/ ProducerNotifies(p) PROVE MadeInv'
  <2>1. UNCHANGED Holders
    BY <1>0, <1>1, <1>6 DEF BlockProducer, ProducerNotifies, Goto, Holders
  <2> QED
    BY <1>0, <1>6, <2>1, MadeStays DEF BlockProducer, ProducerNotifies
<1>7. ASSUME NEW c \in Consumers, BlockConsumer(c) \/ ConsumerNotifies(c) PROVE MadeInv'
  <2>1. UNCHANGED Holders
    BY <1>0, <1>1, <1>7 DEF BlockConsumer, ConsumerNotifies, Goto, Holders
  <2> QED
    BY <1>0, <1>7, <2>1, MadeStays DEF BlockConsumer, ConsumerNotifies
<1>8. ASSUME UNCHANGED <<pc, buffer, item, count, consumed>> PROVE MadeInv'
  <2>1. UNCHANGED Holders
    BY <1>1, <1>8 DEF Holders
  <2> QED
    BY <1>0, <1>8, <2>1, MadeStays
<1> QED
  BY <1>2, <1>3, <1>4, <1>5, <1>6, <1>7, <1>8 DEF Next, Step, SpuriousWakeup, Join, vars, threadVars

(* What a consumer will take, and all of them together.                     *)
LEMMA DemandFacts ==
  ASSUME program \in Programs, Quota # Forever
  PROVE  /\ Quota \in Nat \ {0} /\ IsFiniteSet(Demand)
         /\ IsFiniteSet(Served) /\ Served \subseteq Demand
<1>1. Quota \in Nat \ {0}
  BY BufferAssumption DEF BufferAssumption, Quota
<1>2. Demand = Consumers \X (1..Quota)
  BY DEF Demand
<1>3. IsFiniteSet(1..Quota) /\ IsFiniteSet(Consumers)
  BY <1>1, FS_Interval, ProgramFacts
<1>4. IsFiniteSet(Demand)
  BY <1>2, <1>3, FS_Product
<1>5. Served \subseteq Demand
  BY DEF Served
<1> QED
  BY <1>1, <1>4, <1>5, FS_Subset

(* Steps that take nothing and end nothing.                                 *)
LEMMA EndStays ==
  ASSUME TypeInv, EndInv, UNCHANGED <<program, consumed>>,
         \A p \in Producers : pc'[p] = "ended" => pc[p] = "ended" /\ rounds'[p] = rounds[p],
         \A c \in Consumers : /\ Serves(c)' = Serves(c) /\ rounds'[c] = rounds[c]
                              /\ pc'[c] = "ended" <=> pc[c] = "ended"
  PROVE  EndInv'
<1>1. UNCHANGED <<Producers, Consumers, Threads, MAXBUFF, Share, Quota>>
  BY ProgramStays
<1>2. Demand' = Demand
  BY <1>1 DEF Demand
<1>3. Served' = Served
  BY <1>2 DEF Served, Demand
<1> QED
  BY <1>1, <1>3 DEF EndInv

(* A loop's counter tells how many items its thread has taken, and the      *)
(* thread ends when the counter says so.                                    *)
LEMMA EndStep == TypeInv /\ CountInv /\ EndInv /\ [Next]_vars => EndInv'
<1> SUFFICES ASSUME TypeInv, CountInv, EndInv, [Next]_vars PROVE EndInv'
  OBVIOUS
<1>0. /\ program' = program /\ program \in Programs
      /\ pc \in [Threads -> Places] /\ rounds \in [Threads -> Nat]
      /\ Producers \subseteq Threads /\ Consumers \subseteq Threads /\ Producers \cap Consumers = {}
  BY ProgramFacts DEF Next, vars, TypeInv, Threads
<1>1. UNCHANGED <<Producers, Consumers, Threads, MAXBUFF, Share, Quota>>
  BY <1>0, ProgramStays
<1>2. ASSUME NEW p \in Producers, Claim(p) PROVE EndInv'
  <2>1. CASE rounds[p] < Share[p]
    BY <1>0, <1>2, <2>1, EndStays DEF Claim, Goto, Serves
  <2>2. CASE rounds[p] = Share[p]
    <3>1. /\ \A q \in Producers : pc'[q] = "ended" => pc[q] = "ended" \/ q = p
          /\ \A c \in Consumers : pc'[c] = pc[c]
          /\ UNCHANGED <<rounds, consumed>>
      BY <1>0, <1>2 DEF Claim, Goto
    <3>2. Demand' = Demand /\ \A c \in Consumers : Serves(c)' = Serves(c)
      BY <1>1, <3>1 DEF Demand, Serves
    <3>3. Served' = Served
      BY <3>2 DEF Served, Demand
    <3> QED
      BY <1>1, <2>2, <3>1, <3>2, <3>3 DEF EndInv
  <2> QED
    BY <1>2, <2>1, <2>2 DEF Claim
<1>3. ASSUME NEW t \in Threads, Enter(t) PROVE EndInv'
  BY <1>0, <1>3, EndStays DEF Enter, Goto, Serves
<1>4. ASSUME NEW p \in Producers, BlockProducer(p) \/ Push(p) PROVE EndInv'
  BY <1>0, <1>4, EndStays DEF BlockProducer, Push, Goto, Serves
<1>5. ASSUME NEW p \in Producers, ProducerNotifies(p) PROVE EndInv'
  BY <1>0, <1>5, EndStays DEF ProducerNotifies, Goto, Serves
<1>6. ASSUME NEW c \in Consumers, BlockConsumer(c) PROVE EndInv'
  BY <1>0, <1>6, EndStays DEF BlockConsumer, Goto, Serves
<1>7. ASSUME NEW c \in Consumers, Pop(c) PROVE EndInv'
  <2>1. /\ pc[c] = "check" /\ pc' = [pc EXCEPT ![c] = "notify"] /\ rounds' = rounds
        /\ consumed' = Append(consumed, Head(buffer)) /\ buffer # <<>>
    BY <1>7 DEF Pop, Goto, MayPop
  <2>2. Len(consumed') = Len(consumed) + 1 /\ Len(consumed) \in Nat
    BY <2>1 DEF TypeInv
  <2>3. /\ \A p \in Producers : pc'[p] = pc[p]
        /\ \A d \in Consumers \ {c} : pc'[d] = pc[d] /\ Serves(d)' = Serves(d)
        /\ Serves(c)' = rounds[c] + 1 /\ Serves(c) = rounds[c] /\ rounds[c] \in Nat
        /\ pc'[c] = "notify"
    BY <1>0, <2>1 DEF Serves
  <2>4. CASE Quota = Forever
    BY <1>1, <2>1, <2>3, <2>4 DEF EndInv
  <2>5. CASE Quota # Forever
    <3> DEFINE x == <<c, rounds[c] + 1>>
    <3>1. Quota \in Nat /\ IsFiniteSet(Served)
      BY <1>0, <2>5, DemandFacts
    <3>2. rounds[c] + 1 <= Quota
      BY <2>1, <2>3, <2>5, <3>1 DEF EndInv
    <3>3. x \in Demand /\ x \notin Served /\ Demand' = Demand
      BY <1>1, <2>3, <3>1, <3>2 DEF Demand, Served
    <3>4. Served' = Served \cup {x}
      <4>1. ASSUME NEW y \in Demand PROVE y \in Served' <=> y \in Served \cup {x}
        <5>1. PICK d \in Consumers : \E i \in 1..Quota : y = <<d, i>>
          BY DEF Demand
        <5>2. PICK i \in 1..Quota : y = <<d, i>>
          BY <5>1
        <5>3. y[1] = d /\ y[2] = i /\ i \in Int
          BY <3>1, <5>2
        <5>4. CASE d # c
          BY <2>3, <3>3, <5>2, <5>3, <5>4 DEF Served
        <5>5. CASE d = c
          <6>1. i <= rounds[c] + 1 <=> i <= rounds[c] \/ i = rounds[c] + 1
            BY <2>3, <5>3
          <6> QED
            BY <2>3, <3>3, <5>2, <5>3, <5>5, <6>1 DEF Served
        <5> QED
          BY <5>4, <5>5
      <4> QED
        BY <3>3, <4>1 DEF Served
    <3>5. Cardinality(Served') = Cardinality(Served) + 1
      BY <3>1, <3>3, <3>4, FS_AddElement
    <3>6. \A d \in Consumers : /\ Serves(d)' <= Quota
                               /\ pc'[d] = "ended" <=> rounds[d] = Quota
      BY <2>1, <2>3, <2>5, <3>1, <3>2 DEF EndInv
    <3> QED
      BY <1>1, <2>1, <2>2, <2>3, <2>5, <3>5, <3>6 DEF EndInv
  <2> QED
    BY <2>4, <2>5
<1>8. ASSUME NEW c \in Consumers, ConsumerNotifies(c) PROVE EndInv'
  <2>1. pc[c] = "notify" /\ consumed' = consumed
    BY <1>8 DEF ConsumerNotifies
  <2>2. CASE Quota = Forever
    <3>1. Forever \notin Nat
      BY BufferAssumption DEF BufferAssumption
    <3>2. rounds' = rounds /\ pc' = [pc EXCEPT ![c] = "lock"]
      BY <1>0, <1>8, <2>2, <3>1 DEF ConsumerNotifies, Goto
    <3>3. /\ \A p \in Producers : pc'[p] = pc[p]
          /\ \A d \in Consumers : pc'[d] = "ended" => pc[d] = "ended"
      BY <1>0, <3>2
    <3> QED
      BY <1>1, <2>2, <3>2, <3>3 DEF EndInv
  <2>3. CASE Quota # Forever
    <3>1. /\ rounds' = [rounds EXCEPT ![c] = @ + 1] /\ rounds'[c] = rounds[c] + 1
          /\ pc' = [pc EXCEPT ![c] = IF rounds[c] + 1 = Quota THEN "ended" ELSE "lock"]
      BY <1>0, <1>8, <2>3 DEF ConsumerNotifies, Goto
    <3>2. /\ pc'[c] = (IF rounds[c] + 1 = Quota THEN "ended" ELSE "lock")
          /\ \A t \in Threads \ {c} : pc'[t] = pc[t] /\ rounds'[t] = rounds[t]
      BY <1>0, <3>1
    <3>3. \A d \in Consumers : Serves(d)' = Serves(d)
      BY <1>0, <2>1, <3>1, <3>2 DEF Serves
    <3>4. Demand' = Demand
      BY <1>1 DEF Demand
    <3>5. Served' = Served
      BY <3>3, <3>4 DEF Served, Demand
    <3>6. \A d \in Consumers : pc'[d] = "ended" <=> rounds'[d] = Quota
      BY <1>0, <2>3, <3>1, <3>2 DEF EndInv
    <3>7. \A p \in Producers : pc'[p] = pc[p] /\ rounds'[p] = rounds[p]
      BY <1>0, <3>2
    <3> QED
      BY <1>1, <2>1, <2>3, <3>3, <3>5, <3>6, <3>7 DEF EndInv
  <2> QED
    BY <2>2, <2>3
<1>9. ASSUME UNCHANGED <<pc, rounds, consumed>> PROVE EndInv'
  BY <1>0, <1>9, EndStays DEF Serves
<1> QED
  BY <1>2, <1>3, <1>4, <1>5, <1>6, <1>7, <1>8, <1>9
     DEF Next, Step, SpuriousWakeup, Join, vars, threadVars

(* At the start nothing is drawn, taken or ended.                           *)
LEMMA InitEnd == Init => MadeInv /\ EndInv
<1> SUFFICES ASSUME Init PROVE MadeInv /\ EndInv
  OBVIOUS
<1>1. Holders = {} /\ count = 0 /\ buffer = <<>> /\ consumed = <<>> /\ program \in Programs
  BY DEF Init, Holders, Threads
<1>2. MadeInv
  BY <1>1, FS_EmptySet DEF MadeInv
<1>3. /\ \A p \in Producers : pc[p] = "loop"
      /\ \A c \in Consumers : pc[c] = "lock" /\ rounds[c] = 0 /\ Serves(c) = 0
  BY <1>1, ProgramFacts DEF Init, Threads, Serves
<1>4. ASSUME Quota # Forever PROVE Quota \in Nat \ {0} /\ Served = {}
  <2>1. Quota \in Nat \ {0}
    BY <1>1, <1>4, DemandFacts
  <2> QED
    BY <1>3, <2>1 DEF Served, Demand
<1> QED
  <2>1. Quota # Forever =>
          /\ Len(consumed) = Cardinality(Served)
          /\ \A c \in Consumers : /\ Serves(c) <= Quota
                                  /\ pc[c] = "ended" <=> rounds[c] = Quota
    <3> SUFFICES ASSUME Quota # Forever
                 PROVE  /\ Len(consumed) = Cardinality(Served)
                        /\ \A c \in Consumers : /\ Serves(c) <= Quota
                                                /\ pc[c] = "ended" <=> rounds[c] = Quota
      OBVIOUS
    <3>1. Len(consumed) = Cardinality(Served)
      BY <1>1, <1>4, FS_EmptySet
    <3> QED
      BY <1>3, <1>4, <3>1
  <2> QED
    BY <1>2, <1>3, <2>1 DEF EndInv

(* With nobody on the way and no notification owed, only one side sleeps,   *)
(* and that side sleeps with reason.                                        *)
LEMMA AsleepSides ==
  ASSUME WakeInv, AllAsleep
  PROVE  /\ (\E c \in Consumers : Blocked(c)) => buffer = <<>>
         /\ (\E p \in Producers : Blocked(p)) => Len(buffer) = MAXBUFF
         /\ Holders = {p \in Producers : Blocked(p)}
<1>1. \A t \in Threads : Blocked(t) => pc[t] = "woken"
  BY DEF WakeInv, WaitInv, Blocked, Cvs
<1>2. /\ Coming(Producers) = {} /\ Coming(Consumers) = {}
      /\ Owing(Producers) = {} /\ Owing(Consumers) = {}
  BY <1>1 DEF AllAsleep, Coming, Owing, Threads
<1>3. Cardinality({}) = 0
  BY FS_EmptySet
<1>4. /\ Len(buffer) \in Nat /\ MAXBUFF \in Nat /\ Len(buffer) <= MAXBUFF /\ buffer \in Seq(Nat)
  BY ProgramFacts DEF WakeInv, TypeInv
<1>5. (\E c \in Consumers : Blocked(c)) => buffer = <<>>
  <2>1. (\E c \in Consumers : Blocked(c)) => Len(buffer) <= 0
    BY <1>2, <1>3 DEF WakeInv, ElementsCovered, Covered
  <2> QED
    BY <1>4, <2>1
<1>6. (\E p \in Producers : Blocked(p)) => Len(buffer) = MAXBUFF
  <2>1. (\E p \in Producers : Blocked(p)) => MAXBUFF - Len(buffer) <= 0
    BY <1>2, <1>3 DEF WakeInv, PlacesCovered, Covered
  <2> QED
    BY <1>4, <2>1
<1>7. Holders = {p \in Producers : Blocked(p)}
  BY <1>1 DEF AllAsleep, Holders, Threads
<1> QED
  BY <1>5, <1>6, <1>7

(* Producers that have all ended have drawn every number.                   *)
LEMMA AllDrawn ==
  ASSUME TypeInv, CountInv, EndInv, \A p \in Producers : pc[p] = "ended" PROVE count = Total
<1>1. \A p \in Producers : Begun(p) = Share[p] /\ Share[p] \in Nat
  BY ProgramFacts DEF EndInv, Begun, Busy, TypeInv, Threads
<1>2. \A x \in Iterations : x \in Started
  <2> SUFFICES ASSUME NEW x \in Iterations PROVE x \in Started
    OBVIOUS
  <2>1. PICK p \in Producers : \E i \in 1..Share[p] : x = <<p, i>>
    BY DEF Iterations
  <2> QED
    BY <1>1, <2>1 DEF Started
<1>3. Started = Iterations
  BY <1>2 DEF Started
<1> QED
  BY <1>3 DEF CountInv, Total

(* Of consumers that know their quota: one that has not ended leaves a part *)
(* of the demand, and when all have ended nothing is left of it.            *)
LEMMA AllServed ==
  ASSUME TypeInv, EndInv, Quota # Forever
  PROVE  /\ (\A c \in Consumers : pc[c] = "ended") => Len(consumed) = Cardinality(Demand)
         /\ (\E c \in Consumers : pc[c] = "woken") => Len(consumed) < Cardinality(Demand)
<1>1. /\ Quota \in Nat \ {0} /\ IsFiniteSet(Demand) /\ Served \subseteq Demand
      /\ Len(consumed) = Cardinality(Served)
  BY DemandFacts DEF EndInv, TypeInv
<1>2. ASSUME \A c \in Consumers : pc[c] = "ended" PROVE Served = Demand
  <2>1. \A c \in Consumers : Serves(c) = Quota
    BY <1>1, <1>2 DEF EndInv, Serves
  <2>2. \A x \in Demand : x[1] \in Consumers /\ x[2] \in 1..Quota
    BY DEF Demand
  <2> QED
    BY <1>1, <2>1, <2>2 DEF Served
<1>3. ASSUME NEW c \in Consumers, pc[c] = "woken" PROVE Cardinality(Served) < Cardinality(Demand)
  <2>1. rounds[c] \in Nat /\ Serves(c) = rounds[c] /\ rounds[c] # Quota /\ rounds[c] <= Quota
    BY <1>3 DEF TypeInv, Threads, Serves, EndInv
  <2>2. Quota \in 1..Quota /\ ~(Quota <= rounds[c])
    BY <1>1, <2>1
  <2>3. <<c, Quota>> \in Demand /\ <<c, Quota>> \notin Served
    BY <2>1, <2>2 DEF Demand, Served
  <2>4. /\ Served \subseteq Demand \ {<<c, Quota>>} /\ IsFiniteSet(Demand \ {<<c, Quota>>})
        /\ Cardinality(Demand \ {<<c, Quota>>}) = Cardinality(Demand) - 1
    BY <1>1, <2>3, FS_RemoveElement
  <2>5. Cardinality(Served) <= Cardinality(Demand) - 1
    BY <2>4, FS_Subset
  <2>6. Cardinality(Served) \in Nat /\ Cardinality(Demand) \in Nat
    BY <1>1, FS_Subset, FS_CardinalityType
  <2> QED
    BY <2>5, <2>6
<1> QED
  BY <1>1, <1>2, <1>3

(* So nobody sleeps for ever beside something that is missing.              *)
LEMMA AsleepIsComplete ==
  ASSUME IInv, WakeInv, TakenInv, MadeInv, EndInv PROVE CompleteWhenAsleep
<1> SUFFICES ASSUME IF Quota = Forever THEN Consumers # {} ELSE Cardinality(Demand) = Total,
                    AllAsleep
             PROVE  /\ ToSet(consumed) = Items
                    /\ Quota # Forever => \A t \in Threads : pc[t] = "ended"
  BY DEF CompleteWhenAsleep
<1>0. /\ TypeInv /\ CountInv /\ program \in Programs
      /\ MAXBUFF \in Nat \ {0} /\ count \in 0..Total /\ Total \in Nat
      /\ Cardinality(Holders) \in Nat /\ Len(consumed) \in Nat
      /\ count = Cardinality(Holders) + Len(buffer) + Len(consumed)
      /\ \A t \in Threads : Blocked(t) => pc[t] = "woken"
  BY Lengths, ProgramFacts, CountBound, IterationsFinite
     DEF IInv, TypeInv, MadeInv, WakeInv, WaitInv, Blocked, Cvs
(* A producer that sleeps would leave the buffer full, with all consumers   *)
(* ended: more would have been made than there is.                          *)
<1>1. ASSUME NEW p \in Producers, Blocked(p) PROVE FALSE
  <2>1. Len(buffer) = MAXBUFF
    BY <1>1, AsleepSides
  <2>2. \A c \in Consumers : ~Blocked(c)
    <3>1. Len(<<>>) = 0
      OBVIOUS
    <3> QED
      BY <1>0, <2>1, <3>1, AsleepSides
  <2>3. \A c \in Consumers : pc[c] = "ended"
    BY <2>2 DEF AllAsleep, Threads
  <2>4. CASE Quota = Forever
    BY <2>3, <2>4 DEF EndInv
  <2>5. CASE Quota # Forever
    <3>1. Len(consumed) = Total
      BY <1>0, <2>3, <2>5, AllServed
    <3> QED
      BY <1>0, <2>1, <3>1
  <2> QED
    BY <2>4, <2>5
<1>2. \A p \in Producers : pc[p] = "ended"
  BY <1>1 DEF AllAsleep, Threads
<1>3. count = Total /\ Holders = {} /\ InHand = {}
  BY <1>0, <1>2, AllDrawn DEF Holders, InHand
<1>4. Cardinality(Holders) = 0
  BY <1>3, FS_EmptySet
(* Nor does a consumer that knows its quota sleep: beside an empty buffer   *)
(* everything would have been taken, and its own share be missing.          *)
<1>5. ASSUME Quota # Forever PROVE \A c \in Consumers : pc[c] = "ended"
  <2> SUFFICES ASSUME NEW c \in Consumers, pc[c] # "ended" PROVE FALSE
    OBVIOUS
  <2>1. Blocked(c) /\ pc[c] = "woken"
    BY <1>0 DEF AllAsleep, Threads
  <2>2. Len(consumed) < Total
    BY <1>0, <1>5, <2>1, AllServed
  <2>3. Len(buffer) = 0
    BY <2>1, AsleepSides
  <2> QED
    BY <1>0, <1>3, <1>4, <2>2, <2>3
<1>6. buffer = <<>>
  <2>1. CASE Quota = Forever
    <3>1. PICK c \in Consumers : TRUE
      BY <2>1
    <3>2. Blocked(c)
      BY <2>1 DEF AllAsleep, Threads, EndInv
    <3> QED
      BY <3>2, AsleepSides
  <2>2. CASE Quota # Forever
    <3>1. Len(consumed) = Total
      BY <1>0, <1>5, <2>2, AllServed
    <3>2. Len(buffer) = 0 /\ buffer \in Seq(Nat)
      BY <1>0, <1>3, <1>4, <3>1, Lengths DEF TypeInv
    <3> QED
      BY <3>2
  <2> QED
    BY <2>1, <2>2
<1>7. Items \subseteq ToSet(consumed)
  <2>1. ToSet(buffer) = {}
    BY <1>6 DEF ToSet
  <2> QED
    BY <1>3, <2>1 DEF MadeInv, Stock, Items
<1>8. ToSet(consumed) \subseteq Items
  <2>1. \A k \in 1..Len(consumed) : consumed[k] \in Nat /\ consumed[k] < Total
    <3>1. \A k \in 1..Len(consumed) : consumed[k] < Total
      BY <1>3 DEF TakenInv
    <3>2. consumed \in Seq(Nat)
      BY <1>0 DEF TypeInv
    <3> QED
      BY <3>1, <3>2
  <2>2. \A k \in 1..Len(consumed) : consumed[k] \in Items
    BY <1>0, <2>1 DEF Items
  <2> QED
    BY <1>0, <2>2 DEF ToSet, TypeInv
<1> QED
  BY <1>2, <1>5, <1>7, <1>8 DEF Threads

(* main cannot have joined a thread that never ends.                         *)
LEMMA JoinStep == TypeInv /\ EndInv /\ NeverJoined /\ [Next]_vars => NeverJoined'
<1> SUFFICES ASSUME TypeInv, EndInv, NeverJoined, [Next]_vars PROVE NeverJoined'
  OBVIOUS
<1>1. UNCHANGED <<Quota, Consumers>> /\ Consumers \subseteq Threads
  BY ProgramStays DEF Next, vars, Threads
<1>2. CASE Join
  BY <1>1, <1>2 DEF Join, NeverJoined, EndInv
<1>3. CASE UNCHANGED main
  BY <1>1, <1>3 DEF NeverJoined
<1>4. ASSUME NEW t \in Threads, Step(t) \/ SpuriousWakeup(t) PROVE UNCHANGED main
  BY <1>4 DEF Step, SpuriousWakeup, Enter, Claim, BlockProducer, Push, ProducerNotifies,
    BlockConsumer, Pop, ConsumerNotifies
<1> QED
  BY <1>2, <1>3, <1>4 DEF Next, vars, threadVars

(* The numbers drawn, in hand, stored and taken, and who has ended.         *)
LEMMA CompleteInvariance == Spec => [](MadeInv /\ EndInv /\ NeverJoined)
<1>1. Init => MadeInv /\ EndInv /\ NeverJoined
  BY InitEnd DEF Init, NeverJoined
<1>2. IInv /\ MadeInv /\ EndInv /\ NeverJoined /\ [Next]_vars
        => MadeInv' /\ EndInv' /\ NeverJoined'
  BY MadeStep, EndStep, JoinStep DEF IInv
<1> QED
  BY <1>1, <1>2, Invariance, PTL DEF Spec

(* The safety part of ExchangeCompletes, for any number of threads: if every*)
(* thread has ended or sleeps and would sleep on, all items have been made  *)
(* and taken; consumers that take their quotas have then ended, and so have *)
(* their producers, provided the quotas add up to the shares.               *)
THEOREM AsleepOnlyWhenComplete == Spec => []CompleteWhenAsleep
<1>1. Init => TakenInv
  BY DEF Init, TakenInv
<1>2. IInv /\ WakeInv /\ TakenInv /\ MadeInv /\ EndInv => CompleteWhenAsleep
  BY AsleepIsComplete
<1> QED
  BY <1>1, <1>2, TakenStep, Invariance, WakeInvariance, CompleteInvariance, PTL DEF Spec

(* multiple_cons_work.cpp never gets past its joins: the flag that would end*)
(* its consumers is never set.  The other part of ExchangeCompletes.        *)
THEOREM MainNeverEnds == Spec => []NeverJoined
BY CompleteInvariance, PTL
=============================================================================
