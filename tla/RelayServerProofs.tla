------------------------- MODULE RelayServerProofs -------------------------
(***************************************************************************)
(* What the relay watches, and what can harm it, for any number of clients *)
(* and any capacities.                                                     *)
(***************************************************************************)
EXTENDS RelayServer, FiniteSetTheorems, SequenceTheorems, WellFoundedInduction, TLAPS

Open == {f \in ClientFds : owner[f] # NoClient}

TypeInv ==
  /\ TypeOK
  /\ pipe \in Seq(Messages) /\ fifo \in Seq(Messages)
  /\ server = "relay" => written < Len(hand)

(* A descriptor belongs to one client, and the open clients have one.       *)
OwnerInv ==
  /\ \A f, g \in Open : owner[f] = owner[g] => f = g
  /\ \A c \in Clients : conn[c] = "open" <=> \E f \in ClientFds : owner[f] = c
  /\ server \in {"forkReceiver", "forkLogger", "bind"} => Open = {}

WatchInv ==
  server \in Serving =>
    /\ masterSet = {Listener} \cup Open
    /\ \A f \in masterSet : f <= maxFd

(* What the scan has still to look at is open, and ready unless the loss of *)
(* the logger interrupted select.                                           *)
ToCome == {f \in readSet : IF server = "scan" THEN fd <= f ELSE fd < f}

ScanInv ==
  server \in Serving \ {"select"} =>
    \A f \in ToCome : f \in masterSet /\ (f \in Ready \/ logger = "exited")

(* Who is missing at which place of the server.                             *)
ChildInv ==
  /\ chld => logger = "exited"
  /\ server = "forkReceiver" => receiver = "unborn" /\ logger = "unborn"
  /\ server = "forkLogger" => receiver \in {"running", "none"} /\ logger = "unborn"
  /\ server \in Serving \cup {"bind"} =>
       receiver \in {"running", "none"} /\ logger # "unborn"
  /\ server \in {"writeFifo", "closeFifo"} => logger \in {"reading", "ending", "exited"}
  /\ server = "killed" => receiver = "none" \/ logger = "exited"

IInv == TypeInv /\ OwnerInv /\ WatchInv /\ ScanInv /\ ChildInv
-----------------------------------------------------------------------------
(* There is a descriptor for each client.                                   *)
LEMMA FdsFinite ==
  /\ Cardinality(Clients) \in Nat /\ IsFiniteSet(ClientFds)
  /\ Cardinality(ClientFds) = Cardinality(Clients) /\ ClientFds \subseteq Nat \ {0}
<1>1. Cardinality(Clients) \in Nat
  BY RelayAssumption, FS_CardinalityType DEF RelayAssumption
<1>2. 1..Cardinality(Clients) \subseteq Nat \ {0}
  BY <1>1
<1> QED
  BY <1>1, <1>2, FS_Interval DEF ClientFds

(* A set of numbers that is not empty has a least one.                      *)
LEMMA Least ==
  ASSUME NEW T, T \subseteq Nat, T # {} PROVE \E n \in T : \A m \in T : n <= m
<1> DEFINE R == OpToRel(<, Nat)
<1>1. IsWellFoundedOn(R, Nat)
  BY NatLessThanWellFounded
<1>2. \A x, y \in Nat : <<y, x>> \in R <=> y < x
  BY DEF OpToRel
<1> HIDE DEF R
<1>3. PICK n \in T : \A m \in T : ~(<<m, n>> \in R)
  BY <1>1, WFMin
<1>4. \A m \in T : ~(m < n)
  BY <1>2, <1>3
<1> QED
  BY <1>4

(* A client in the backlog finds a descriptor: the others own at most as    *)
(* many as there are, and each owns one.                                    *)
LEMMA SomeFdFree ==
  ASSUME TypeInv, OwnerInv, NEW c \in Clients, conn[c] = "queued"
  PROVE  LowestFree \in ClientFds /\ owner[LowestFree] = NoClient
<1>1. \E f \in ClientFds : owner[f] = NoClient
  <2> DEFINE Others == Clients \ {c}
  <2> SUFFICES ASSUME \A f \in ClientFds : owner[f] # NoClient PROVE FALSE
    OBVIOUS
  <2>1. owner \in [ClientFds -> Others]
    <3>1. \A f \in ClientFds : owner[f] # c
      BY DEF OwnerInv
    <3>2. owner \in [ClientFds -> Clients \cup {NoClient}]
      BY DEF TypeInv, TypeOK
    <3> QED
      BY <3>1, <3>2
  <2>2. IsFiniteSet(Others) /\ Cardinality(Others) < Cardinality(ClientFds)
    <3>1. IsFiniteSet(Clients)
      BY RelayAssumption DEF RelayAssumption
    <3>2. IsFiniteSet(Others) /\ Cardinality(Others) = Cardinality(Clients) - 1
      BY <3>1, FS_RemoveElement
    <3> QED
      BY <3>2, FdsFinite
  <2>3. \A f, g \in ClientFds : owner[f] = owner[g] => f = g
    BY DEF OwnerInv, Open
  <2> HIDE DEF Others
  <2>4. owner \in Injection(ClientFds, Others)
    BY <2>1, <2>3 DEF Injection, IsInjective
  <2>5. Cardinality(ClientFds) <= Cardinality(Others)
    BY <2>2, <2>4, FS_Injection
  <2> QED
    BY <2>2, <2>5, FdsFinite, FS_CardinalityType
<1>2. \E n \in {f \in ClientFds : owner[f] = NoClient} :
        \A m \in {f \in ClientFds : owner[f] = NoClient} : n <= m
  BY <1>1, FdsFinite, Least
<1> QED
  BY <1>2 DEF LowestFree
-----------------------------------------------------------------------------
LEMMA InitIInv == Init => IInv
<1> SUFFICES ASSUME Init PROVE IInv
  OBVIOUS
<1>1. TypeInv
  <2>1. /\ conn \in [Clients -> {"off", "queued", "open", "closed"}]
        /\ owner \in [ClientFds -> Clients \cup {NoClient}]
        /\ sent \in [Clients -> 0..MaxMsgs]
        /\ inbox \in [Clients -> Seq(Messages)]
    BY RelayAssumption DEF Init, RelayAssumption
  <2>2. /\ pipe \in Seq(Messages) /\ fifo \in Seq(Messages) /\ relayed \in Seq(Messages)
        /\ received \in Seq(Messages) /\ log \in Seq(Messages)
        /\ Len(pipe) <= PipeCap /\ Len(fifo) <= FifoCap
        /\ hand \in Seq(Messages) /\ Len(hand) <= ReadMax /\ written \in 0..Len(hand)
    BY RelayAssumption DEF Init, RelayAssumption
  <2> QED
    BY <2>1, <2>2 DEF Init, TypeInv, TypeOK, Listener
<1>2. OwnerInv
  BY RelayAssumption DEF Init, OwnerInv, Open, RelayAssumption
<1>3. WatchInv /\ ScanInv /\ ChildInv
  BY DEF Init, WatchInv, ScanInv, ChildInv, Serving
<1> QED
  BY <1>1, <1>2, <1>3 DEF IInv
-----------------------------------------------------------------------------
(* The scan is at a descriptor that is open, if it is not the listener.     *)
LEMMA AtOpenFd ==
  ASSUME TypeInv, WatchInv, ScanInv, NEW f \in ClientFds, AtFd(f)
  PROVE  /\ f \in ToCome /\ f \in Open /\ owner[f] \in Clients
         /\ server = "scan" /\ fd <= f /\ fd \in Nat /\ f \in Nat
         /\ \A g \in ToCome : g > f => g \in masterSet /\ (g \in Ready \/ logger = "exited")
<1>1. f \in Nat \ {0} /\ fd \in Nat
  BY FdsFinite DEF TypeInv, TypeOK
<1>2. f \in ToCome /\ server = "scan" /\ fd <= f
  BY DEF AtFd, Pending, ToCome
<1>3. f \in masterSet
  BY <1>2 DEF ScanInv, Serving
<1>4. f \in Open
  BY <1>1, <1>2, <1>3 DEF WatchInv, Serving, Listener
<1> QED
  BY <1>1, <1>2, <1>4 DEF Open, TypeInv, TypeOK, ScanInv, Serving

(* A read takes the first of what is there and leaves the rest.             *)
LEMMA Taken ==
  ASSUME NEW s \in Seq(Messages), NEW k \in Nat, k <= Len(s)
  PROVE  /\ SubSeq(s, 1, k) \in Seq(Messages) /\ Len(SubSeq(s, 1, k)) = k
         /\ \A i \in 1..k : SubSeq(s, 1, k)[i] = s[i]
         /\ SubSeq(s, k + 1, Len(s)) \in Seq(Messages)
         /\ Len(SubSeq(s, k + 1, Len(s))) = Len(s) - k
         /\ \A i \in 1..(Len(s) - k) : SubSeq(s, k + 1, Len(s))[i] = s[k + i]
<1>1. Len(s) \in Nat /\ \A i \in 1..Len(s) : s[i] \in Messages
  OBVIOUS
<1>2. /\ SubSeq(s, 1, k) \in Seq(Messages)
      /\ Len(SubSeq(s, 1, k)) = IF 1 <= k THEN k - 1 + 1 ELSE 0
      /\ \A i \in 1..(k - 1 + 1) : SubSeq(s, 1, k)[i] = s[1 + i - 1]
  <2>1. \A i \in 1..k : s[i] \in Messages
    BY <1>1
  <2> QED
    BY <2>1, SubSeqProperties
<1>3. /\ SubSeq(s, k + 1, Len(s)) \in Seq(Messages)
      /\ Len(SubSeq(s, k + 1, Len(s))) = IF k + 1 <= Len(s) THEN Len(s) - (k + 1) + 1 ELSE 0
      /\ \A i \in 1..(Len(s) - (k + 1) + 1) : SubSeq(s, k + 1, Len(s))[i] = s[(k + 1) + i - 1]
  <2>1. \A i \in (k + 1)..Len(s) : s[i] \in Messages
    BY <1>1
  <2>2. k + 1 \in Int /\ Len(s) \in Int
    BY <1>1
  <2> QED
    BY <2>1, <2>2, SubSeqProperties
<1>4. ASSUME NEW i \in 1..k PROVE SubSeq(s, 1, k)[i] = s[i]
  <2>1. i \in 1..(k - 1 + 1) /\ 1 + i - 1 = i
    OBVIOUS
  <2> QED
    BY <1>2, <2>1
<1>5. ASSUME NEW i \in 1..(Len(s) - k) PROVE SubSeq(s, k + 1, Len(s))[i] = s[k + i]
  <2>1. i \in 1..(Len(s) - (k + 1) + 1) /\ (k + 1) + i - 1 = k + i
    BY <1>1
  <2> QED
    BY <1>3, <2>1
<1>6. /\ (IF 1 <= k THEN k - 1 + 1 ELSE 0) = k
      /\ (IF k + 1 <= Len(s) THEN Len(s) - (k + 1) + 1 ELSE 0) = Len(s) - k
  BY <1>1
<1> QED
  BY <1>2, <1>3, <1>4, <1>5, <1>6

(* What the FIFO takes of a chunk is its beginning, and fits.               *)
LEMMA FitsFifo ==
  ASSUME TypeInv
  PROVE  /\ Fitting \in 0..Len(hand) /\ Len(fifo) + Fitting <= FifoCap /\ Len(fifo) \in Nat
         /\ SubSeq(hand, 1, Fitting) \in Seq(Messages) /\ Len(SubSeq(hand, 1, Fitting)) = Fitting
         /\ \A i \in 1..Fitting : SubSeq(hand, 1, Fitting)[i] = hand[i]
<1>1. /\ hand \in Seq(Messages) /\ fifo \in Seq(Messages) /\ Len(fifo) <= FifoCap
      /\ FifoCap \in Nat
  BY RelayAssumption DEF TypeInv, TypeOK, RelayAssumption
<1>2. Len(hand) \in Nat /\ Len(fifo) \in Nat
  BY <1>1
<1>3. Fitting \in Nat /\ Fitting <= Len(hand) /\ Len(fifo) + Fitting <= FifoCap
  BY <1>1, <1>2 DEF Fitting
<1> QED
  BY <1>1, <1>2, <1>3, Taken

LEMMA TypeStep == TypeInv /\ OwnerInv /\ WatchInv /\ ScanInv /\ [Next]_vars => TypeInv'
<1> SUFFICES ASSUME TypeInv, OwnerInv, WatchInv, ScanInv, [Next]_vars PROVE TypeInv'
  OBVIOUS
<1> USE DEF TypeInv, TypeOK
<1>1. CASE ForkReceiver \/ ForkLogger \/ InitFails \/ Bind
  BY <1>1 DEF ForkReceiver, ForkLogger, InitFails, Bind, Serving, Dead, procVars, netVars,
              loopVars, chanVars, buffer
<1>2. CASE Select \/ SelectInterrupted \/ ScanEnds
  <2>1. CASE Select
    BY <2>1 DEF Select, Serving, procVars, netVars, chanVars, buffer, Listener
  <2>2. CASE SelectInterrupted
    BY <2>2 DEF SelectInterrupted, Serving, netVars, chanVars, buffer, Listener
  <2>3. CASE ScanEnds
    BY <2>3 DEF ScanEnds, Serving, procVars, netVars, loopVars, chanVars, buffer
  <2> QED
    BY <1>2, <2>1, <2>2, <2>3
<1>3. CASE Accept
  <2>1. LowestFree \in ClientFds
    BY <1>3, SomeFdFree DEF Accept
  <2>2. /\ server = "scan" /\ UNCHANGED <<server, procVars, sent, inbox, hungUp, readSet, buffer, chanVars>>
        /\ fd' = 1
    BY <1>3 DEF Accept, AtFd, Listener
  <2>3. /\ conn' \in [Clients -> {"off", "queued", "open", "closed"}]
        /\ owner' \in [ClientFds -> Clients \cup {NoClient}]
    <3>1. PICK c \in Clients : /\ conn' = [conn EXCEPT ![c] = "open"]
                              /\ owner' = [owner EXCEPT ![LowestFree] = c]
      BY <1>3 DEF Accept
    <3> QED
      BY <2>1, <3>1
  <2>4. /\ masterSet' \subseteq {Listener} \cup ClientFds
        /\ maxFd' \in {Listener} \cup ClientFds
    BY <1>3, <2>1 DEF Accept
  <2> QED
    BY <2>2, <2>3, <2>4 DEF procVars, chanVars, buffer
<1>4. ASSUME NEW f \in ClientFds, ReadMessage(f) PROVE TypeInv'
  <2>1. owner[f] \in Clients /\ f \in Nat
    BY <1>4, AtOpenFd DEF ReadMessage
  <2>2. PICK k \in 1..ReadMax :
          /\ k <= Len(inbox[owner[f]])
          /\ hand' = SubSeq(inbox[owner[f]], 1, k)
          /\ inbox' = [inbox EXCEPT ![owner[f]] = SubSeq(@, k + 1, Len(@))]
    BY <1>4 DEF ReadMessage
  <2>3. /\ hand' \in Seq(Messages) /\ Len(hand') = k
        /\ SubSeq(inbox[owner[f]], k + 1, Len(inbox[owner[f]])) \in Seq(Messages)
    BY <2>1, <2>2, RelayAssumption, Taken DEF RelayAssumption
  <2>4. Len(hand') <= ReadMax /\ written' = 0 /\ 0 \in 0..Len(hand') /\ 0 < Len(hand')
    BY <1>4, <2>2, <2>3, RelayAssumption DEF ReadMessage, RelayAssumption
  <2>5. inbox' \in [Clients -> Seq(Messages)]
    BY <2>1, <2>2, <2>3
  <2> QED
    BY <1>4, <2>1, <2>3, <2>4, <2>5 DEF ReadMessage, Serving, procVars, loopVars, chanVars
<1>5. ASSUME NEW f \in ClientFds, ReadEnd(f) PROVE TypeInv'
  <2>1. f \in Nat /\ server = "scan"
    BY <1>5, AtOpenFd DEF ReadEnd
  <2> QED
    BY <1>5, <2>1 DEF ReadEnd, Serving, procVars, chanVars, buffer
<1>6. CASE WritePipe
  <2> DEFINE m == hand[written + 1]
  <2>0. hand \in Seq(Messages) /\ written \in 0..Len(hand) /\ written < Len(hand)
    BY <1>6 DEF WritePipe
  <2>1. m \in Messages /\ pipe \in Seq(Messages) /\ Len(pipe) < PipeCap
    BY <1>6, <2>0 DEF WritePipe
  <2>2. /\ Append(pipe, m) \in Seq(Messages) /\ Append(relayed, m) \in Seq(Messages)
        /\ Len(Append(pipe, m)) = Len(pipe) + 1 /\ Len(pipe) \in Nat
    <3> HIDE DEF m
    <3> QED
      BY <2>1
  <2>3. Len(Append(pipe, m)) <= PipeCap
    <3> HIDE DEF m
    <3> QED
      BY <2>1, <2>2, RelayAssumption DEF RelayAssumption
  <2>4. /\ pipe' = Append(pipe, m) /\ relayed' = Append(relayed, m) /\ written' = written + 1
        /\ server' = IF written + 1 = Len(hand) THEN "openFifo" ELSE "relay"
        /\ UNCHANGED <<procVars, netVars, loopVars, fd, hand, fifo, lost, received, log>>
    BY <1>6 DEF WritePipe
  <2>5. /\ hand' \in Seq(Messages) /\ Len(hand') <= ReadMax /\ written' \in 0..Len(hand')
        /\ server' = "relay" => written' < Len(hand')
        /\ server' \in {"openFifo", "relay"}
    BY <2>0, <2>4
  <2>6. pipe' \in Seq(Messages) /\ Len(pipe') <= PipeCap /\ relayed' \in Seq(Messages)
    BY <2>2, <2>3, <2>4
  <2>7. UNCHANGED <<procVars, netVars, loopVars, fd, fifo, lost, received, log>>
    BY <2>4
  <2>8. /\ UNCHANGED <<receiver, logger, chld, conn, sent, inbox, hungUp, fd, fifo, lost, received, log>>
        /\ UNCHANGED <<masterSet, readSet, maxFd, owner>>
    BY <2>7 DEF procVars, netVars, loopVars
  <2> HIDE DEF m
  <2> QED
    BY <2>5, <2>6, <2>8 DEF Serving
<1>7. CASE BrokenPipe \/ OpenFifo \/ OpenFifoFails \/ BrokenFifo \/ CloseFifo \/ SelectFails
  <2>1. <<>> \in Seq(Messages) /\ Len(<<>>) <= ReadMax /\ 0 \in 0..Len(<<>>)
    BY RelayAssumption DEF RelayAssumption
  <2>2. CASE OpenFifoFails \/ CloseFifo
    <3>3. hand' = <<>> /\ written' = 0 /\ server' = "scan" /\ fd' = fd + 1
      BY <2>2 DEF OpenFifoFails, CloseFifo
    <3>1. /\ hand' \in Seq(Messages) /\ Len(hand') <= ReadMax /\ written' \in 0..Len(hand')
          /\ server' = "scan" /\ fd' \in Nat
      <4>1. fd \in Nat
        OBVIOUS
      <4> QED
        BY ONLY <2>1, <3>3, <4>1
    <3>2. UNCHANGED <<procVars, netVars, loopVars, chanVars>>
      BY <2>2 DEF OpenFifoFails, CloseFifo
    <3> QED
      BY <3>1, <3>2 DEF Serving, procVars, netVars, loopVars, chanVars
  <2>3. CASE BrokenPipe \/ BrokenFifo \/ SelectFails
    BY <2>3 DEF BrokenPipe, BrokenFifo, SelectFails, Dead, procVars, netVars, loopVars, chanVars,
                buffer
  <2>4. CASE OpenFifo
    BY <2>4 DEF OpenFifo, Serving, netVars, loopVars, chanVars, buffer
  <2> QED
    BY <1>7, <2>2, <2>3, <2>4
<1>15. CASE WriteCut
  <2>1. lost' \subseteq Messages
    BY <1>15 DEF WriteCut
  <2> QED
    BY <1>15, <2>1 DEF WriteCut, Serving, netVars, loopVars, buffer
<1>8. CASE WriteFifo
  <2>1. /\ Fitting \in 0..Len(hand) /\ Len(fifo) + Fitting <= FifoCap /\ Len(fifo) \in Nat
        /\ SubSeq(hand, 1, Fitting) \in Seq(Messages) /\ Len(SubSeq(hand, 1, Fitting)) = Fitting
    BY FitsFifo
  <2>2. /\ fifo \o SubSeq(hand, 1, Fitting) \in Seq(Messages)
        /\ Len(fifo \o SubSeq(hand, 1, Fitting)) = Len(fifo) + Fitting
    BY <2>1, ConcatProperties
  <2>3. fifo' \in Seq(Messages) /\ Len(fifo') <= FifoCap
    BY <1>8, <2>1, <2>2 DEF WriteFifo
  <2> QED
    BY <1>8, <2>3 DEF WriteFifo, Serving, procVars, netVars, loopVars, buffer
<1>9. CASE ReapZombie \/ ReceiverEnd \/ LoggerOpens \/ LoggerEnds
  BY <1>9 DEF ReapZombie, ReceiverEnd, LoggerOpens, LoggerEnds, netVars, loopVars, chanVars, buffer
<1>10. CASE ReceiverRead
  <2>1. received \o pipe \in Seq(Messages) /\ Len(<<>>) <= PipeCap /\ <<>> \in Seq(Messages)
    BY RelayAssumption DEF RelayAssumption
  <2>2. /\ received' = received \o pipe /\ pipe' = <<>>
        /\ UNCHANGED <<server, procVars, netVars, loopVars, fd, buffer, fifo, relayed, lost, log>>
    BY <1>10 DEF ReceiverRead
  <2> QED
    BY <2>1, <2>2 DEF procVars, netVars, loopVars, buffer
<1>11. CASE LoggerRead \/ LoggerExits
  <2>1. log \o fifo \in Seq(Messages) /\ Len(<<>>) <= FifoCap /\ <<>> \in Seq(Messages)
    BY RelayAssumption DEF RelayAssumption
  <2>2. CASE LoggerRead
    BY <2>1, <2>2 DEF LoggerRead, procVars, netVars, loopVars, buffer
  <2>3. CASE LoggerExits
    BY <2>1, <2>3 DEF LoggerExits, netVars, loopVars, buffer
  <2> QED
    BY <1>11, <2>2, <2>3
<1>12. ASSUME NEW c \in Clients, Connect(c) \/ HangUp(c) PROVE TypeInv'
  <2>1. CASE Connect(c)
    BY <2>1 DEF Connect, procVars, loopVars, chanVars, buffer
  <2>2. CASE HangUp(c)
    BY <2>2 DEF HangUp, procVars, loopVars, chanVars, buffer
  <2> QED
    BY <1>12, <2>1, <2>2
<1>13. ASSUME NEW c \in Clients, Send(c) PROVE TypeInv'
  <2>1. sent[c] + 1 \in 1..MaxMsgs /\ <<c, sent[c] + 1>> \in Messages
    BY <1>13, RelayAssumption DEF Send, RelayAssumption, Messages
  <2>2. sent' \in [Clients -> 0..MaxMsgs] /\ inbox' \in [Clients -> Seq(Messages)]
    BY <1>13, <2>1 DEF Send
  <2> QED
    BY <1>13, <2>2 DEF Send, procVars, loopVars, chanVars, buffer
<1>14. CASE UNCHANGED vars
  BY <1>14 DEF vars, procVars, netVars, loopVars, chanVars, buffer
<1> QED
  BY <1>1, <1>2, <1>3, <1>4, <1>5, <1>6, <1>7, <1>8, <1>9, <1>10, <1>11, <1>12, <1>13, <1>14, <1>15
     DEF Next, ServerStep, ReceiverStep, LoggerStep, ClientStep
-----------------------------------------------------------------------------
(* A child is missing only where ChildInv says so.                          *)
LEMMA ChildStep == TypeInv /\ ChildInv /\ [Next]_vars => ChildInv'
<1> SUFFICES ASSUME TypeInv, ChildInv, [Next]_vars PROVE ChildInv'
  OBVIOUS
<1> USE DEF ChildInv, Serving
<1>1. CASE ForkReceiver \/ ForkLogger \/ InitFails \/ Bind
  BY <1>1 DEF ForkReceiver, ForkLogger, InitFails, Bind, procVars
<1>2. CASE Select \/ SelectInterrupted \/ ScanEnds \/ ReapZombie \/ SelectFails
  BY <1>2 DEF Select, SelectInterrupted, ScanEnds, ReapZombie, SelectFails, procVars
<1>3. CASE Accept \/ \E f \in ClientFds : ReadMessage(f) \/ ReadEnd(f)
  BY <1>3 DEF Accept, ReadMessage, ReadEnd, AtFd, procVars
<1>4. CASE WritePipe \/ WriteCut \/ BrokenPipe
  BY <1>4 DEF WritePipe, WriteCut, BrokenPipe, procVars
<1>5. CASE OpenFifo \/ OpenFifoFails \/ WriteFifo \/ BrokenFifo \/ CloseFifo
  BY <1>5 DEF OpenFifo, OpenFifoFails, WriteFifo, BrokenFifo, CloseFifo, FifoHasReader, procVars
<1>6. CASE ReceiverStep
  BY <1>6 DEF ReceiverStep, ReceiverRead, ReceiverEnd, Dead, procVars
<1>7. CASE LoggerStep
  BY <1>7 DEF LoggerStep, LoggerOpens, LoggerRead, LoggerEnds, LoggerExits, procVars
<1>8. CASE ClientStep \/ UNCHANGED vars
  BY <1>8 DEF ClientStep, Connect, Send, HangUp, vars, procVars
<1> QED
  BY <1>1, <1>2, <1>3, <1>4, <1>5, <1>6, <1>7, <1>8 DEF Next, ServerStep

(* Accept opens a free descriptor for a client that had none.               *)
LEMMA AcceptKeeps ==
  ASSUME TypeInv, OwnerInv, WatchInv, ScanInv, Accept
  PROVE  OwnerInv' /\ WatchInv' /\ ScanInv'
<1>1. PICK c \in Clients : /\ conn[c] = "queued"
                           /\ conn' = [conn EXCEPT ![c] = "open"]
                           /\ owner' = [owner EXCEPT ![LowestFree] = c]
  BY DEF Accept
<1> DEFINE f == LowestFree
<1>2. f \in ClientFds /\ owner[f] = NoClient /\ f \in Nat \ {0}
  BY <1>1, SomeFdFree, FdsFinite
<1> HIDE DEF f
<1>3. /\ server = "scan" /\ UNCHANGED <<server, inbox, hungUp, readSet, logger>>
      /\ fd' = 1 /\ fd <= 0 /\ masterSet' = masterSet \cup {f}
      /\ maxFd' = IF f > maxFd THEN f ELSE maxFd
  BY DEF Accept, AtFd, Pending, Listener, procVars, f
<1>4. /\ conn \in [Clients -> {"off", "queued", "open", "closed"}]
      /\ owner \in [ClientFds -> Clients \cup {NoClient}] /\ NoClient \notin Clients
      /\ maxFd \in Nat /\ readSet \subseteq {0} \cup ClientFds /\ fd \in Nat
      /\ masterSet \subseteq Nat
  BY FdsFinite, RelayAssumption DEF TypeInv, TypeOK, RelayAssumption, Listener
<1>5. Open' = Open \cup {f} /\ f \notin Open
  BY <1>1, <1>2, <1>4 DEF Open, f
<1>6. OwnerInv'
  <2>1. \A g \in Open : owner[g] # c
    BY <1>1 DEF OwnerInv, Open
  <2>2. \A g, h \in Open' : owner'[g] = owner'[h] => g = h
    BY <1>1, <1>2, <1>4, <1>5, <2>1 DEF OwnerInv, Open, f
  <2>3. \A d \in Clients : conn'[d] = "open" <=> \E g \in ClientFds : owner'[g] = d
    BY <1>1, <1>2, <1>4 DEF OwnerInv, f
  <2> QED
    BY <1>3, <2>2, <2>3 DEF OwnerInv
<1>7. WatchInv'
  <2>1. masterSet = {Listener} \cup Open /\ \A g \in masterSet : g <= maxFd
    BY <1>3 DEF WatchInv, Serving
  <2>2. masterSet' = {Listener} \cup Open'
    BY <1>3, <1>5, <2>1
  <2>3. \A g \in masterSet' : g <= maxFd'
    BY <1>2, <1>3, <1>4, <2>1
  <2> QED
    BY <2>2, <2>3 DEF WatchInv
<1>8. ScanInv'
  <2>1. ToCome' = {g \in readSet : 1 <= g} /\ ToCome = {g \in readSet : fd <= g}
    BY <1>3 DEF ToCome
  <2>2. ToCome' \subseteq ToCome
    <3>1. \A g \in readSet : g \in Nat
      BY <1>4, FdsFinite
    <3>2. \A g \in readSet : fd <= g
      BY <1>3, <1>4, <3>1
    <3> QED
      BY <2>1, <3>2
  <2>3. ASSUME NEW g \in ToCome' PROVE g \in masterSet' /\ (g \in Ready' \/ logger' = "exited")
    <3>1. /\ g \in masterSet /\ g \in ClientFds
          /\ g \in Ready \/ logger = "exited"
      BY <1>3, <1>4, <2>1, <2>2, <2>3 DEF ScanInv, Serving
    <3>2. g # f /\ g # Listener
      BY <1>2, <1>3, <1>5, <2>1, <2>3, <3>1 DEF WatchInv, Serving, Listener
    <3>3. owner'[g] = owner[g]
      BY <1>1, <1>2, <1>4, <3>1, <3>2 DEF f
    <3> QED
      BY <1>3, <3>1, <3>2, <3>3 DEF Ready
  <2> QED
    BY <2>3 DEF ScanInv
<1> QED
  BY <1>6, <1>7, <1>8

(* handleClientData takes from the inbox of the one client it is at.        *)
LEMMA ReadKeeps ==
  ASSUME TypeInv, OwnerInv, WatchInv, ScanInv, NEW f \in ClientFds, ReadMessage(f)
  PROVE  OwnerInv' /\ WatchInv' /\ ScanInv'
<1>1. /\ AtFd(f) /\ (\E x : inbox' = [inbox EXCEPT ![owner[f]] = x]) /\ fd' = f
      /\ server' = "relay" /\ UNCHANGED <<conn, owner, masterSet, maxFd, readSet, hungUp, logger>>
  BY DEF ReadMessage, loopVars, procVars
<1>2. /\ f \in ToCome /\ f \in Open /\ owner[f] \in Clients /\ server = "scan"
      /\ fd <= f /\ fd \in Nat /\ f \in Nat
      /\ \A g \in ToCome : g > f => g \in masterSet /\ (g \in Ready \/ logger = "exited")
  BY <1>1, AtOpenFd
<1>3. OwnerInv' /\ WatchInv'
  BY <1>1, <1>2 DEF OwnerInv, WatchInv, Open, Serving
<1>4. ASSUME NEW g \in ToCome' PROVE g \in masterSet' /\ (g \in Ready' \/ logger' = "exited")
  <2>1. g \in readSet /\ f < g /\ g \in Nat
    <3>1. readSet \subseteq Nat
      BY FdsFinite DEF TypeInv, TypeOK, Listener
    <3> QED
      BY <1>1, <1>4, <3>1 DEF ToCome
  <2>2. g \in ToCome
    BY <1>2, <2>1 DEF ToCome
  <2>3. g \in masterSet /\ (g \in Ready \/ logger = "exited")
    BY <1>2, <2>1, <2>2
  <2>4. CASE g \in Ready
    <3>1. g \in ClientFds /\ owner[g] # NoClient /\ (inbox[owner[g]] # <<>> \/ owner[g] \in hungUp)
      BY <1>2, <2>1, <2>4 DEF Ready, Listener
    <3>2. owner[g] # owner[f]
      BY <1>2, <2>1, <3>1 DEF OwnerInv, Open
    <3>3. inbox'[owner[g]] = inbox[owner[g]]
      BY <1>1, <3>1, <3>2 DEF TypeInv, TypeOK
    <3>4. g \in Ready'
      BY <1>1, <3>1, <3>3 DEF Ready
    <3> QED
      BY <1>1, <2>3, <3>4
  <2> QED
    BY <1>1, <2>3, <2>4
<1> QED
  BY <1>3, <1>4 DEF ScanInv

(* ... and closes the one descriptor it is at.                              *)
LEMMA EndKeeps ==
  ASSUME TypeInv, OwnerInv, WatchInv, ScanInv, NEW f \in ClientFds, ReadEnd(f)
  PROVE  OwnerInv' /\ WatchInv' /\ ScanInv'
<1>1. /\ AtFd(f) /\ conn' = [conn EXCEPT ![owner[f]] = "closed"]
      /\ owner' = [owner EXCEPT ![f] = NoClient] /\ masterSet' = masterSet \ {f}
      /\ fd' = f + 1 /\ UNCHANGED <<server, maxFd, readSet, inbox, hungUp, logger>>
  BY DEF ReadEnd, procVars
<1>2. /\ f \in ToCome /\ f \in Open /\ owner[f] \in Clients /\ server = "scan"
      /\ fd <= f /\ fd \in Nat /\ f \in Nat \ {0}
      /\ \A g \in ToCome : g > f => g \in masterSet /\ (g \in Ready \/ logger = "exited")
  BY <1>1, AtOpenFd, FdsFinite
<1>3. /\ conn \in [Clients -> {"off", "queued", "open", "closed"}]
      /\ owner \in [ClientFds -> Clients \cup {NoClient}] /\ NoClient \notin Clients
  BY RelayAssumption DEF TypeInv, TypeOK, RelayAssumption
<1>4. Open' = Open \ {f} /\ \A g \in ClientFds \ {f} : owner'[g] = owner[g]
  BY <1>1, <1>3 DEF Open
<1>5. OwnerInv'
  <2>1. \A g, h \in Open' : owner'[g] = owner'[h] => g = h
    BY <1>4 DEF OwnerInv, Open
  <2>2. \A g \in ClientFds : owner[g] = owner[f] => g = f
    BY <1>2 DEF OwnerInv, Open
  <2>3. \A d \in Clients : conn'[d] = "open" <=> \E g \in ClientFds : owner'[g] = d
    BY <1>1, <1>2, <1>3, <1>4, <2>2 DEF OwnerInv
  <2> QED
    BY <1>1, <1>2, <2>1, <2>3 DEF OwnerInv
<1>6. WatchInv'
  BY <1>1, <1>2, <1>4 DEF WatchInv, Listener, Serving
<1>7. ASSUME NEW g \in ToCome' PROVE g \in masterSet' /\ (g \in Ready' \/ logger' = "exited")
  <2>1. g \in readSet /\ f < g /\ g \in Nat
    <3>1. readSet \subseteq Nat
      BY FdsFinite DEF TypeInv, TypeOK, Listener
    <3> QED
      BY <1>1, <1>2, <1>7, <3>1 DEF ToCome
  <2>2. g \in ToCome
    BY <1>2, <2>1 DEF ToCome
  <2>3. g \in masterSet /\ (g \in Ready \/ logger = "exited")
    BY <1>2, <2>1, <2>2
  <2>4. g \in Ready => g \in Ready'
    BY <1>1, <1>2, <1>4, <2>1 DEF Ready, Listener
  <2> QED
    BY <1>1, <2>1, <2>3, <2>4
<1> QED
  BY <1>5, <1>6, <1>7 DEF ScanInv

(* Steps that leave descriptors and sockets alone, and at most go on to the *)
(* next descriptor.                                                         *)
LEMMA OthersKeep ==
  ASSUME TypeInv, OwnerInv, WatchInv, ScanInv,
         UNCHANGED <<conn, owner, inbox, hungUp, masterSet, maxFd, readSet>>,
         logger = "exited" => logger' = "exited",
         \/ server' = server /\ fd' = fd
         \/ server' \in Dead
         \/ /\ server \in Serving \ {"select", "scan"}
            /\ \/ server' \in Serving \ {"select", "scan"} /\ fd' = fd
               \/ server' = "scan" /\ fd' = fd + 1
         \/ server = "scan" /\ server' = "select"
  PROVE  OwnerInv' /\ WatchInv' /\ ScanInv'
<1>1. OwnerInv' /\ WatchInv'
  BY DEF OwnerInv, WatchInv, Open, Serving, Dead
<1>2. Ready' = Ready
  BY DEF Ready
<1>3. fd \in Nat /\ \A g \in readSet : g \in Nat
  BY FdsFinite DEF TypeInv, TypeOK, Listener
<1>4. ScanInv'
  BY <1>2, <1>3 DEF ScanInv, ToCome, Serving, Dead
<1> QED
  BY <1>1, <1>4

LEMMA LoopStep ==
  TypeInv /\ OwnerInv /\ WatchInv /\ ScanInv /\ ChildInv /\ [Next]_vars
    => OwnerInv' /\ WatchInv' /\ ScanInv'
<1> SUFFICES ASSUME TypeInv, OwnerInv, WatchInv, ScanInv, ChildInv, [Next]_vars
             PROVE  OwnerInv' /\ WatchInv' /\ ScanInv'
  OBVIOUS
<1>1. CASE ForkReceiver \/ ForkLogger \/ InitFails
  BY <1>1 DEF ForkReceiver, ForkLogger, InitFails, OwnerInv, WatchInv, ScanInv, Open, Serving,
              netVars, loopVars
<1>2. CASE Bind
  BY <1>2, FdsFinite DEF Bind, OwnerInv, WatchInv, ScanInv, Open, Serving, netVars, TypeInv, TypeOK,
                         Listener
<1>3. ASSUME server = "select", server' = "scan", fd' = Listener,
             readSet' = Ready \cap masterSet \/ (readSet' = masterSet /\ logger' = "exited"),
             UNCHANGED <<logger, netVars, masterSet, maxFd, owner>>
      PROVE  OwnerInv' /\ WatchInv' /\ ScanInv'
  <2>1. OwnerInv' /\ WatchInv'
    BY <1>3 DEF OwnerInv, WatchInv, Open, Serving, netVars
  <2>2. Ready' = Ready
    BY <1>3 DEF Ready, netVars
  <2> QED
    BY <1>3, <2>1, <2>2 DEF ScanInv, ToCome
<1>4. CASE Select \/ SelectInterrupted
  BY <1>3, <1>4 DEF Select, SelectInterrupted, ChildInv, procVars
<1>5. CASE Accept
  BY <1>5, AcceptKeeps
<1>6. ASSUME NEW f \in ClientFds, ReadMessage(f) \/ ReadEnd(f)
      PROVE  OwnerInv' /\ WatchInv' /\ ScanInv'
  BY <1>6, ReadKeeps, EndKeeps
<1>7. CASE ScanEnds \/ WritePipe \/ WriteCut \/ BrokenPipe \/ BrokenFifo \/ SelectFails
  BY <1>7, OthersKeep DEF ScanEnds, WritePipe, WriteCut, BrokenPipe, BrokenFifo, SelectFails,
                          netVars, loopVars, procVars, Serving, Dead
<1>8. CASE OpenFifo \/ OpenFifoFails \/ WriteFifo \/ CloseFifo
  BY <1>8, OthersKeep DEF OpenFifo, OpenFifoFails, WriteFifo, CloseFifo, FifoHasReader,
                          netVars, loopVars, procVars, Serving, Dead
<1>9. CASE ReapZombie \/ ReceiverStep \/ LoggerStep \/ UNCHANGED vars
  BY <1>9, OthersKeep
     DEF ReapZombie, ReceiverStep, ReceiverRead, ReceiverEnd, LoggerStep, LoggerOpens,
         LoggerRead, LoggerEnds, LoggerExits, vars, netVars, loopVars, procVars
<1>10. ASSUME NEW c \in Clients, Connect(c) \/ Send(c) \/ HangUp(c)
       PROVE  OwnerInv' /\ WatchInv' /\ ScanInv'
  <2>1. UNCHANGED <<server, logger, owner, masterSet, maxFd, readSet, fd>>
    BY <1>10 DEF Connect, Send, HangUp, loopVars, procVars
  <2>2. OwnerInv'
    <3>1. \A d \in Clients : conn'[d] = "open" <=> conn[d] = "open"
      BY <1>10 DEF Connect, Send, HangUp, TypeInv, TypeOK
    <3> QED
      BY <2>1, <3>1 DEF OwnerInv, Open
  <2>3. WatchInv'
    BY <2>1 DEF WatchInv, Open
  <2>4. Ready \subseteq Ready'
    <3>1. \A d \in Clients : /\ conn[d] = "queued" => conn'[d] = "queued"
                             /\ inbox[d] # <<>> => inbox'[d] # <<>>
                             /\ d \in hungUp => d \in hungUp'
      <4>1. CASE Connect(c)
        BY <4>1 DEF Connect, TypeInv, TypeOK
      <4>2. CASE Send(c)
        <5>1. \A d \in Clients : d # c => inbox'[d] = inbox[d]
          BY <4>2 DEF Send, TypeInv, TypeOK
        <5>2. inbox'[c] = Append(inbox[c], <<c, sent[c] + 1>>) /\ inbox[c] \in Seq(Messages)
          BY <4>2 DEF Send, TypeInv, TypeOK
        <5>3. sent[c] + 1 \in 1..MaxMsgs
          BY <4>2, RelayAssumption DEF Send, TypeInv, TypeOK, RelayAssumption
        <5>4. <<c, sent[c] + 1>> \in Messages
          BY <5>3 DEF Messages
        <5>5. Append(inbox[c], <<c, sent[c] + 1>>) # <<>>
          <6> DEFINE x == <<c, sent[c] + 1>>
          <6>1. inbox[c] \in Seq(Messages) /\ x \in Messages
            BY <5>2, <5>4
          <6> HIDE DEF x
          <6>2. Append(inbox[c], x) # <<>>
            BY <6>1, AppendProperties
          <6> QED
            BY <6>2 DEF x
        <5> QED
          BY <4>2, <5>1, <5>2, <5>5 DEF Send
      <4>3. CASE HangUp(c)
        BY <4>3 DEF HangUp
      <4> QED
        BY <1>10, <4>1, <4>2, <4>3
    <3>2. \A f \in ClientFds : owner[f] # NoClient => owner[f] \in Clients
      BY DEF TypeInv, TypeOK
    <3> QED
      BY <2>1, <3>1, <3>2 DEF Ready
  <2> QED
    BY <2>1, <2>2, <2>3, <2>4 DEF ScanInv, ToCome
<1> QED
  BY <1>1, <1>2, <1>4, <1>5, <1>6, <1>7, <1>8, <1>9, <1>10 DEF Next, ServerStep, ClientStep
-----------------------------------------------------------------------------
(* What was read of the clients, and what became of it: the pipe and the    *)
(* receiver have all that was relayed, nothing twice.                       *)
InHand == IF server = "relay" THEN SubSeq(hand, written + 1, Len(hand)) ELSE <<>>

Unread(c) ==
  /\ Len(inbox[c]) <= sent[c]
  /\ \A k \in DOMAIN inbox[c] : inbox[c][k] = <<c, sent[c] - Len(inbox[c]) + k>>

(* The chunk in hand are messages of one client, one after the other.       *)
OneChunk ==
  \E c \in Clients : \E a \in Nat :
    a + Len(hand) <= MaxMsgs /\ \A i \in 1..Len(hand) : hand[i] = <<c, a + i>>

(* There is one signal, and so one write that it may cut.                   *)
CutInv == lost # {} => logger = "exited" /\ ~chld /\ OneGap(lost)

StreamInv ==
  /\ relayed = received \o pipe
  /\ \A i, j \in DOMAIN relayed : relayed[i] = relayed[j] => i = j
  /\ server \notin Dead =>
       \A c \in Clients :
         Unread(c) /\ HoldsFirst(relayed \o InHand, lost, c, sent[c] - Len(inbox[c]))
  /\ CutInv
  /\ server = "relay" => OneChunk

(* Until it is in the FIFO, the chunk in hand is the last one relayed and   *)
(* not logged; one that was cut finds nobody at the FIFO.                   *)
Logged == log \o fifo

Underway == server \in {"relay", "openFifo", "writeFifo"}

LogInv ==
  /\ LogInRelayOrder
  /\ Underway =>
       /\ written <= Len(relayed)
       /\ \A i \in 1..written : relayed[Len(relayed) - written + i] = hand[i]
       /\ \A i \in DOMAIN Logged : \A h \in DOMAIN hand : Logged[i] # hand[h]
  /\ server \in {"openFifo", "writeFifo"} /\ logger # "exited" => written = Len(hand)

(* A chunk of client d's next messages.                                     *)
LEMMA ConcatHolds ==
  ASSUME NEW s \in Seq(Messages), NEW t \in Seq(Messages), NEW gone,
         NEW c \in Clients, NEW d \in Clients, NEW n \in Nat, NEW m \in Nat,
         \A i \in 1..Len(t) : t[i] = <<d, m + i>>,
         HoldsFirst(s, gone, c, n), d = c => m = n
  PROVE  HoldsFirst(s \o t, gone, c, IF d = c THEN n + Len(t) ELSE n)
<1> DEFINE u == s \o t
           p == Len(s)
           q == Len(t)
           r == IF d = c THEN n + q ELSE n
<1>1. p \in Nat /\ q \in Nat /\ DOMAIN s = 1..p /\ DOMAIN t = 1..q /\ DOMAIN u = 1..(p + q)
  <2>1. u \in Seq(Messages) /\ Len(u) = p + q
    BY ConcatProperties
  <2> QED
    BY <2>1
<1>2. \A i \in 1..p : u[i] = s[i]
  BY <1>1, ConcatProperties
<1>3. ASSUME NEW i \in (p + 1)..(p + q) PROVE u[i] = <<d, m + (i - p)>> /\ i - p \in 1..q
  <2>1. u[i] = IF i <= p THEN s[i] ELSE t[i - p]
    <3>1. i \in 1..(p + q)
      BY <1>1
    <3> QED
      BY <3>1, ConcatProperties
  <2>2. i - p \in 1..q /\ ~(i <= p)
    BY <1>1
  <2> QED
    BY <2>1, <2>2
<1> HIDE DEF u, p, q
<1>4. \A i \in DOMAIN u : i \in 1..p \/ i \in (p + 1)..(p + q)
  BY <1>1
<1>5. \A i \in 1..p : s[i][1] = c => s[i][2] \in 1..n
  BY <1>1 DEF HoldsFirst
<1>6. ASSUME NEW i \in DOMAIN u, u[i][1] = c PROVE u[i][2] \in 1..r
  <2>1. CASE i \in 1..p
    BY <1>1, <1>2, <1>5, <1>6, <2>1
  <2>2. CASE i \in (p + 1)..(p + q)
    <3>1. u[i] = <<d, m + (i - p)>> /\ i - p \in 1..q
      BY <1>3, <2>2
    <3>2. d = c /\ m = n /\ u[i][2] = n + (i - p)
      BY <1>6, <3>1
    <3> QED
      BY <1>1, <3>1, <3>2
  <2> QED
    BY <1>4, <2>1, <2>2
<1>7. ASSUME NEW h \in 1..r, <<c, h>> \notin gone PROVE \E i \in DOMAIN u : u[i] = <<c, h>>
  <2>1. CASE h \in 1..n
    <3>1. PICK i \in 1..p : s[i] = <<c, h>>
      BY <1>1, <1>7, <2>1 DEF HoldsFirst
    <3>2. i \in DOMAIN u /\ u[i] = <<c, h>>
      BY <1>1, <1>2, <3>1
    <3> QED
      BY <3>2
  <2>2. CASE h \notin 1..n
    <3>1. d = c /\ m = n /\ h - n \in 1..q
      BY <1>1, <2>2
    <3>2. p + (h - n) \in (p + 1)..(p + q) /\ (p + (h - n)) - p = h - n /\ n + (h - n) = h
      BY <1>1, <3>1
    <3>3. u[p + (h - n)] = <<c, h>>
      BY <1>3, <3>1, <3>2
    <3>4. p + (h - n) \in DOMAIN u
      BY <1>1, <3>2
    <3> QED
      BY <3>3, <3>4
  <2> QED
    BY <2>1, <2>2
<1>8. ASSUME NEW i \in DOMAIN u, NEW j \in DOMAIN u, i < j, u[i][1] = c, u[j][1] = c
      PROVE  u[i][2] < u[j][2]
  <2>1. CASE j \in 1..p
    <3>1. i \in 1..p
      BY <1>1, <1>8, <2>1
    <3> QED
      BY <1>1, <1>2, <1>8, <2>1, <3>1 DEF HoldsFirst
  <2>2. CASE j \in (p + 1)..(p + q)
    <3>1. u[j] = <<d, m + (j - p)>> /\ j - p \in 1..q
      BY <1>3, <2>2
    <3>2. m = n /\ d = c /\ u[j][2] = n + (j - p)
      BY <1>8, <3>1
    <3>3. CASE i \in 1..p
      <4>1. u[i][2] \in 1..n
        BY <1>2, <1>5, <1>8, <3>3
      <4> QED
        BY <1>1, <3>1, <3>2, <4>1
    <3>4. CASE i \in (p + 1)..(p + q)
      <4>1. u[i][2] = n + (i - p)
        BY <1>3, <3>2, <3>4
      <4> QED
        BY <1>1, <1>8, <2>2, <3>2, <3>4, <4>1
    <3> QED
      BY <1>4, <3>3, <3>4
  <2> QED
    BY <1>4, <2>1, <2>2
<1>9. HoldsFirst(u, gone, c, r)
  BY <1>6, <1>7, <1>8 DEF HoldsFirst
<1> QED
  BY <1>9 DEF u, q

(* What is cut off is gone, and the rest is as it was.                      *)
LEMMA CutHolds ==
  ASSUME NEW s \in Seq(Messages), NEW t \in Seq(Messages), NEW gone,
         NEW c \in Clients, NEW n, HoldsFirst(s \o t, gone, c, n)
  PROVE  HoldsFirst(s, gone \cup {t[i] : i \in 1..Len(t)}, c, n)
<1> DEFINE u == s \o t
           p == Len(s)
           q == Len(t)
<1>1. p \in Nat /\ q \in Nat /\ DOMAIN s = 1..p /\ DOMAIN u = 1..(p + q)
  <2>1. u \in Seq(Messages) /\ Len(u) = p + q
    BY ConcatProperties
  <2> QED
    BY <2>1
<1>2. \A i \in 1..p : u[i] = s[i] /\ i \in DOMAIN u
  BY <1>1, ConcatProperties
<1>3. ASSUME NEW i \in DOMAIN u, i \notin 1..p PROVE i - p \in 1..q /\ u[i] = t[i - p]
  <2>1. i \in 1..(p + q) /\ ~(i <= p) /\ i - p \in 1..q
    BY <1>1, <1>3
  <2>2. u[i] = IF i <= p THEN s[i] ELSE t[i - p]
    BY <2>1, ConcatProperties
  <2> QED
    BY <2>1, <2>2
<1>4. HoldsFirst(u, gone, c, n)
  OBVIOUS
<1> HIDE DEF u, p, q
<1>5. \A i \in DOMAIN s : s[i][1] = c => s[i][2] \in 1..n
  BY <1>1, <1>2, <1>4 DEF HoldsFirst
<1>6. ASSUME NEW k \in 1..n
      PROVE  <<c, k>> \in gone \cup {t[i] : i \in 1..q} \/ \E i \in DOMAIN s : s[i] = <<c, k>>
  <2>1. <<c, k>> \in gone \/ \E i \in DOMAIN u : u[i] = <<c, k>>
    BY <1>4 DEF HoldsFirst
  <2>2. ASSUME NEW i \in DOMAIN u, u[i] = <<c, k>>, i \notin 1..p
        PROVE  <<c, k>> \in {t[j] : j \in 1..q}
    BY <1>3, <2>2
  <2> QED
    BY <1>1, <1>2, <2>1, <2>2
<1>7. \A i, j \in DOMAIN s : i < j /\ s[i][1] = c /\ s[j][1] = c => s[i][2] < s[j][2]
  BY <1>1, <1>2, <1>4 DEF HoldsFirst
<1> QED
  BY <1>5, <1>6, <1>7 DEF HoldsFirst, q

(* What is still in hand is the rest of the chunk, from its next message.   *)
LEMMA Rest ==
  ASSUME TypeInv, server = "relay"
  PROVE  /\ hand \in Seq(Messages) /\ Len(hand) \in Nat /\ written \in Nat /\ written < Len(hand)
         /\ hand[written + 1] \in Messages /\ relayed \in Seq(Messages)
         /\ InHand \in Seq(Messages) /\ Len(InHand) = Len(hand) - written
         /\ \A i \in 1..(Len(hand) - written) : InHand[i] = hand[written + i]
<1>1. /\ hand \in Seq(Messages) /\ Len(hand) \in Nat /\ written \in Nat /\ written < Len(hand)
      /\ relayed \in Seq(Messages)
  BY DEF TypeInv, TypeOK
<1>2. written + 1 \in 1..Len(hand)
  BY <1>1
<1>3. hand[written + 1] \in Messages
  BY <1>1, <1>2, ElementOfSeq
<1>4. InHand = SubSeq(hand, written + 1, Len(hand))
  BY DEF InHand
<1> QED
  BY <1>1, <1>3, <1>4, Taken

(* The messages in hand have not been relayed yet.                          *)
LEMMA HandIsNew ==
  TypeInv /\ StreamInv /\ server = "relay" =>
    \A i \in DOMAIN relayed : \A j \in (written + 1)..Len(hand) : relayed[i] # hand[j]
<1> SUFFICES ASSUME TypeInv, StreamInv, server = "relay",
                    NEW i \in DOMAIN relayed, NEW j \in (written + 1)..Len(hand),
                    relayed[i] = hand[j]
             PROVE  FALSE
  OBVIOUS
<1> DEFINE s == relayed \o InHand
           m == hand[j]
           n == sent[m[1]] - Len(inbox[m[1]])
           p == Len(relayed)
           b == p + (j - written)
<1>1. /\ hand \in Seq(Messages) /\ Len(hand) \in Nat /\ written \in Nat
      /\ relayed \in Seq(Messages) /\ InHand \in Seq(Messages)
      /\ Len(InHand) = Len(hand) - written
      /\ \A h \in 1..(Len(hand) - written) : InHand[h] = hand[written + h]
  BY Rest
<1>2. j \in 1..Len(hand)
  BY <1>1
<1>3. m \in Messages
  BY <1>1, <1>2, ElementOfSeq
<1>4. m[1] \in Clients /\ m[2] \in Int
  BY <1>3, RelayAssumption DEF Messages, RelayAssumption
<1>5. HoldsFirst(s, lost, m[1], n)
  <2> HIDE DEF m
  <2> QED
    BY <1>4 DEF StreamInv, Dead
<1>6. /\ p \in Nat /\ i \in 1..p /\ s \in Seq(Messages) /\ Len(s) = p + (Len(hand) - written)
      /\ \A h \in 1..(p + (Len(hand) - written)) :
           s[h] = IF h <= p THEN relayed[h] ELSE InHand[h - p]
  <2>1. /\ s \in Seq(Messages) /\ Len(s) = p + Len(InHand)
        /\ \A h \in 1..(p + Len(InHand)) : s[h] = IF h <= p THEN relayed[h] ELSE InHand[h - p]
    BY <1>1, ConcatProperties
  <2>2. p \in Nat /\ i \in 1..p
    BY <1>1
  <2> HIDE DEF s, p
  <2> QED
    BY <1>1, <2>1, <2>2
<1>7. /\ b \in 1..(p + (Len(hand) - written)) /\ ~(b <= p) /\ b - p = j - written
      /\ j - written \in 1..(Len(hand) - written) /\ written + (j - written) = j
      /\ i < b /\ i \in 1..(p + (Len(hand) - written)) /\ i <= p
  BY <1>1, <1>6
<1>8. s[b] = m
  BY <1>1, <1>6, <1>7
<1>9. s[i] = m
  BY <1>6, <1>7
<1>10. i \in DOMAIN s /\ b \in DOMAIN s
  BY <1>6, <1>7
<1> HIDE DEF s, m, n, b
<1>11. s[i][2] < s[b][2]
  BY <1>5, <1>7, <1>8, <1>9, <1>10 DEF HoldsFirst
<1> QED
  BY <1>4, <1>8, <1>9, <1>11

LEMMA StreamInit == Init => StreamInv /\ LogInv
<1> SUFFICES ASSUME Init PROVE StreamInv /\ LogInv
  OBVIOUS
<1>1. /\ relayed = <<>> /\ received = <<>> /\ pipe = <<>> /\ server = "forkReceiver"
      /\ log = <<>> /\ fifo = <<>> /\ lost = {}
      /\ \A c \in Clients : sent[c] = 0 /\ inbox[c] = <<>>
  BY DEF Init
<1>2. <<>> \o <<>> = <<>> /\ DOMAIN <<>> = {} /\ Len(<<>>) = 0
  OBVIOUS
<1>3. \A c \in Clients : HoldsFirst(<<>>, {}, c, 0)
  BY <1>2 DEF HoldsFirst
<1>4. StreamInv
  BY <1>1, <1>2, <1>3 DEF StreamInv, CutInv, Unread, InHand
<1>5. LogInv
  BY <1>1, <1>2 DEF LogInv, LogInRelayOrder, Logged, Underway
<1> QED
  BY <1>4, <1>5
-----------------------------------------------------------------------------
(* handleClientData takes a client's first unread messages in hand.         *)
LEMMA ReadStreams ==
  ASSUME IInv, StreamInv, NEW f \in ClientFds, ReadMessage(f)
  PROVE  StreamInv'
<1>1. PICK c \in Clients : c = owner[f] /\ server = "scan"
  BY AtOpenFd DEF IInv, ReadMessage
<1>2. PICK k \in 1..ReadMax :
        /\ k <= Len(inbox[c]) /\ hand' = SubSeq(inbox[c], 1, k) /\ written' = 0
        /\ inbox' = [inbox EXCEPT ![c] = SubSeq(inbox[c], k + 1, Len(inbox[c]))]
        /\ server' = "relay" /\ UNCHANGED <<sent, relayed, received, pipe, lost, logger, chld>>
  BY <1>1 DEF ReadMessage, chanVars, procVars
<1>3. /\ inbox \in [Clients -> Seq(Messages)] /\ sent \in [Clients -> 0..MaxMsgs]
      /\ relayed \in Seq(Messages) /\ MaxMsgs \in Nat /\ k \in Nat
  BY RelayAssumption DEF IInv, TypeInv, TypeOK, RelayAssumption
<1>4. ASSUME NEW d \in Clients
      PROVE  /\ Len(inbox[d]) \in 0..sent[d] /\ sent[d] \in Nat /\ sent[d] <= MaxMsgs
             /\ DOMAIN inbox[d] = 1..Len(inbox[d]) /\ inbox[d] \in Seq(Messages)
             /\ \A i \in 1..Len(inbox[d]) : inbox[d][i] = <<d, sent[d] - Len(inbox[d]) + i>>
             /\ HoldsFirst(relayed, lost, d, sent[d] - Len(inbox[d]))
             /\ sent[d] - Len(inbox[d]) \in Nat
  <2>1. InHand = <<>> /\ relayed \o <<>> = relayed
    BY <1>1, <1>3 DEF InHand
  <2>2. Unread(d) /\ HoldsFirst(relayed, lost, d, sent[d] - Len(inbox[d]))
    BY <1>1, <2>1 DEF StreamInv, Dead
  <2>3. inbox[d] \in Seq(Messages) /\ sent[d] \in 0..MaxMsgs
    BY <1>3
  <2>4. Len(inbox[d]) \in Nat /\ DOMAIN inbox[d] = 1..Len(inbox[d])
    BY <2>3
  <2>5. /\ Len(inbox[d]) <= sent[d]
        /\ \A i \in 1..Len(inbox[d]) : inbox[d][i] = <<d, sent[d] - Len(inbox[d]) + i>>
    BY <2>2, <2>4 DEF Unread
  <2>6. /\ Len(inbox[d]) \in 0..sent[d] /\ sent[d] \in Nat /\ sent[d] <= MaxMsgs
        /\ sent[d] - Len(inbox[d]) \in Nat
    BY <1>3, <2>3, <2>4, <2>5
  <2> QED
    BY <2>2, <2>3, <2>4, <2>5, <2>6
<1> DEFINE l == Len(inbox[c])
           n == sent[c] - l
<1>5. /\ l \in Nat /\ n \in Nat /\ k <= l /\ n + l = sent[c] /\ n + k <= MaxMsgs
      /\ inbox[c] \in Seq(Messages) /\ \A i \in 1..l : inbox[c][i] = <<c, n + i>>
  BY <1>2, <1>3, <1>4
<1>6. /\ hand' \in Seq(Messages) /\ Len(hand') = k
      /\ \A i \in 1..k : hand'[i] = inbox[c][i]
      /\ inbox'[c] \in Seq(Messages) /\ Len(inbox'[c]) = l - k
      /\ \A i \in 1..(l - k) : inbox'[c][i] = inbox[c][k + i]
  <2>1. inbox'[c] = SubSeq(inbox[c], k + 1, Len(inbox[c])) /\ hand' = SubSeq(inbox[c], 1, k)
    BY <1>2, <1>3
  <2>2. k <= Len(inbox[c]) /\ k \in Nat /\ inbox[c] \in Seq(Messages)
    BY <1>2, <1>3, <1>5
  <2> QED
    BY <2>1, <2>2, Taken
<1> HIDE DEF l, n
<1>7. ASSUME NEW i \in 1..k PROVE hand'[i] = <<c, n + i>>
  <2>1. i \in 1..l
    BY <1>3, <1>5
  <2> QED
    BY <1>5, <1>6, <2>1
<1>8. (relayed \o InHand)' = relayed \o hand'
  <2>1. InHand' = SubSeq(hand', 0 + 1, Len(hand'))
    BY <1>2 DEF InHand
  <2>2. SubSeq(hand', 0 + 1, Len(hand')) = hand'
    BY <1>6, SubSeqFull
  <2> QED
    BY <1>2, <2>1, <2>2
<1>9. (sent[c] - Len(inbox[c]))' = n + k /\ Len(inbox'[c]) <= sent'[c]
  <2>1. sent'[c] = sent[c] /\ Len(inbox'[c]) = l - k
    BY <1>2, <1>6
  <2> QED
    BY <1>3, <1>5, <2>1
<1>10. Unread(c)'
  <2>1. ASSUME NEW i \in 1..(l - k) PROVE inbox'[c][i] = <<c, (n + k) + i>>
    <3>1. k + i \in 1..l /\ n + (k + i) = (n + k) + i
      BY <1>3, <1>5
    <3>2. inbox[c][k + i] = <<c, n + (k + i)>>
      BY <1>5, <3>1
    <3> QED
      BY <1>6, <3>1, <3>2
  <2>2. DOMAIN inbox'[c] = 1..(l - k)
    BY <1>6, LenProperties
  <2> QED
    BY <1>9, <2>1, <2>2 DEF Unread
<1>11. ASSUME NEW d \in Clients
       PROVE  (Unread(d) /\ HoldsFirst(relayed \o InHand, lost, d, sent[d] - Len(inbox[d])))'
  <2>1. CASE d = c
    <3>1. HoldsFirst(relayed, lost, c, n)
      BY <1>4 DEF n, l
    <3>2. HoldsFirst(relayed \o hand', lost, c, n + Len(hand'))
      BY <1>3, <1>5, <1>6, <1>7, <3>1, ConcatHolds
    <3> QED
      BY <1>2, <1>6, <1>8, <1>9, <1>10, <2>1, <3>2
  <2>2. CASE d # c
    <3>1. inbox'[d] = inbox[d] /\ sent'[d] = sent[d] /\ lost' = lost
      BY <1>2, <1>3, <2>2
    <3>2. HoldsFirst(relayed \o hand', lost, d, sent[d] - Len(inbox[d]))
      <4> DEFINE e == sent[d] - Len(inbox[d])
      <4>1. e \in Nat /\ HoldsFirst(relayed, lost, d, e)
        BY <1>4
      <4> HIDE DEF e
      <4>2. \A i \in 1..Len(hand') : hand'[i] = <<c, n + i>>
        BY <1>6, <1>7
      <4>3. HoldsFirst(relayed \o hand', lost, d, IF c = d THEN e + Len(hand') ELSE e)
        BY <1>3, <1>5, <1>6, <2>2, <4>1, <4>2, ConcatHolds
      <4> QED
        BY <2>2, <4>3 DEF e
    <3>3. Unread(d)'
      BY <1>4, <3>1 DEF Unread
    <3>4. (sent[d] - Len(inbox[d]))' = sent[d] - Len(inbox[d])
      BY <3>1
    <3> QED
      BY <1>8, <3>1, <3>2, <3>3, <3>4
  <2> QED
    BY <2>1, <2>2
<1>12. OneChunk'
  <2>1. n + Len(hand') <= MaxMsgs /\ \A i \in 1..Len(hand') : hand'[i] = <<c, n + i>>
    BY <1>5, <1>6, <1>7
  <2> QED
    BY <1>5, <2>1 DEF OneChunk
<1>13. CutInv'
  BY <1>2 DEF StreamInv, CutInv
<1>14. relayed' = received' \o pipe' /\ \A i, j \in DOMAIN relayed' : relayed'[i] = relayed'[j] => i = j
  BY <1>2 DEF StreamInv
<1> QED
  BY <1>11, <1>12, <1>13, <1>14 DEF StreamInv

(* The pipe takes the next message in hand.                                 *)
LEMMA WriteStreams ==
  ASSUME IInv, StreamInv, WritePipe
  PROVE  StreamInv'
<1> DEFINE m == hand[written + 1]
<1>1. /\ server = "relay" /\ relayed' = Append(relayed, m) /\ pipe' = Append(pipe, m)
      /\ written' = written + 1 /\ server' = IF written + 1 = Len(hand) THEN "openFifo" ELSE "relay"
      /\ UNCHANGED <<received, sent, inbox, hand, lost, logger, chld>>
  BY DEF WritePipe, netVars, procVars
<1>2. /\ hand \in Seq(Messages) /\ Len(hand) \in Nat /\ written \in Nat /\ written < Len(hand)
      /\ m \in Messages /\ relayed \in Seq(Messages)
  BY <1>1, Rest DEF IInv
<1>3. pipe \in Seq(Messages) /\ received \in Seq(Messages)
  BY DEF IInv, TypeInv, TypeOK
<1>4. \A i \in DOMAIN relayed : relayed[i] # m
  <2>1. written + 1 \in (written + 1)..Len(hand)
    BY <1>2
  <2> QED
    BY <1>1, <2>1, HandIsNew DEF IInv
<1>5. InHand = <<m>> \o InHand' /\ InHand' \in Seq(Messages)
  <2>1. InHand = SubSeq(hand, written + 1, Len(hand))
    BY <1>1 DEF InHand
  <2>2. SubSeq(hand, written + 1, Len(hand)) = <<m>> \o SubSeq(hand, (written + 1) + 1, Len(hand))
    <3>1. written + 1 \in 1..Len(hand) /\ Len(hand) \in (written + 1)..Len(hand)
      BY <1>2
    <3> QED
      BY <1>2, <3>1, SubSeqRecursiveFirst
  <2>3. InHand' = SubSeq(hand, (written + 1) + 1, Len(hand))
    <3>1. CASE written + 1 = Len(hand)
      <4>1. SubSeq(hand, (written + 1) + 1, Len(hand)) = <<>>
        <5>1. (written + 1) + 1 \in Int /\ Len(hand) \in Int /\ Len(hand) < (written + 1) + 1
          BY <1>2, <3>1
        <5> QED
          BY <5>1, SubSeqEmpty
      <4> QED
        BY <1>1, <3>1, <4>1 DEF InHand
    <3>2. CASE written + 1 # Len(hand)
      BY <1>1, <3>2 DEF InHand
    <3> QED
      BY <3>1, <3>2
  <2>4. SubSeq(hand, (written + 1) + 1, Len(hand)) \in Seq(Messages)
    <3>1. written + 1 \in Nat /\ written + 1 <= Len(hand)
      BY <1>2
    <3> QED
      BY <1>2, <3>1, Taken
  <2> QED
    BY <2>1, <2>2, <2>3, <2>4
<1> HIDE DEF m
<1>6. (relayed \o InHand)' = relayed \o InHand
  <2>1. Append(relayed, m) = relayed \o <<m>> /\ <<m>> \in Seq(Messages)
    BY <1>2, AppendIsConcat
  <2>2. (relayed \o <<m>>) \o InHand' = relayed \o (<<m>> \o InHand')
    BY <1>2, <1>5, <2>1, ConcatAssociative
  <2> QED
    BY <1>1, <1>5, <2>1, <2>2
<1>7. relayed' = received' \o pipe'
  <2>1. /\ Append(received \o pipe, m) = (received \o pipe) \o <<m>>
        /\ received \o Append(pipe, m) = received \o (pipe \o <<m>>)
    <3>1. received \o pipe \in Seq(Messages)
      BY <1>3
    <3> QED
      BY <1>2, <1>3, <3>1, AppendIsConcat
  <2>2. (received \o pipe) \o <<m>> = received \o (pipe \o <<m>>)
    <3>1. <<m>> \in Seq(Messages)
      BY <1>2
    <3> QED
      BY <1>3, <3>1, ConcatAssociative
  <2> QED
    BY <1>1, <2>1, <2>2 DEF StreamInv
<1>8. \A i, j \in DOMAIN relayed' : relayed'[i] = relayed'[j] => i = j
  <2>1. /\ Len(relayed) \in Nat /\ DOMAIN relayed = 1..Len(relayed)
        /\ DOMAIN relayed' = 1..(Len(relayed) + 1) /\ relayed'[Len(relayed) + 1] = m
        /\ \A i \in 1..Len(relayed) : relayed'[i] = relayed[i]
    BY <1>1, <1>2
  <2>2. \A i, j \in DOMAIN relayed : relayed[i] = relayed[j] => i = j
    BY DEF StreamInv
  <2> QED
    BY <1>4, <2>1, <2>2
<1>9. \A c \in Clients :
        (Unread(c) /\ HoldsFirst(relayed \o InHand, lost, c, sent[c] - Len(inbox[c])))'
  BY <1>1, <1>6 DEF StreamInv, Unread, Dead
<1>10. CutInv' /\ (server' = "relay" => OneChunk')
  BY <1>1 DEF StreamInv, CutInv, OneChunk
<1> QED
  BY <1>7, <1>8, <1>9, <1>10 DEF StreamInv

(* The signal of the logger's end cuts a write short.                       *)
LEMMA CutStreams ==
  ASSUME IInv, StreamInv, WriteCut
  PROVE  StreamInv'
<1> DEFINE gap == {hand[i] : i \in (written + 1)..Len(hand)}
<1>1. /\ server = "relay" /\ server' = "openFifo" /\ written > 0 /\ chld /\ ~chld'
      /\ lost' = lost \cup gap /\ UNCHANGED <<relayed, received, pipe, sent, inbox, logger>>
  BY DEF WriteCut, netVars
<1>2. lost = {} /\ logger = "exited"
  BY <1>1 DEF StreamInv, CutInv, IInv, ChildInv
<1>3. /\ hand \in Seq(Messages) /\ Len(hand) \in Nat /\ written \in Nat /\ written < Len(hand)
      /\ relayed \in Seq(Messages) /\ InHand \in Seq(Messages) /\ Len(InHand) = Len(hand) - written
      /\ \A i \in 1..(Len(hand) - written) : InHand[i] = hand[written + i]
  BY <1>1, Rest DEF IInv
<1>4. gap = {InHand[i] : i \in 1..Len(InHand)}
  <2>1. ASSUME NEW i \in (written + 1)..Len(hand)
        PROVE  i - written \in 1..Len(InHand) /\ InHand[i - written] = hand[i]
    <3>1. i - written \in 1..(Len(hand) - written) /\ written + (i - written) = i
      BY <1>3
    <3> QED
      BY <1>3, <3>1
  <2>2. ASSUME NEW i \in 1..Len(InHand)
        PROVE  written + i \in (written + 1)..Len(hand) /\ hand[written + i] = InHand[i]
    <3>1. i \in 1..(Len(hand) - written) /\ written + i \in (written + 1)..Len(hand)
      BY <1>3
    <3> QED
      BY <1>3, <3>1
  <2>3. gap \subseteq {InHand[i] : i \in 1..Len(InHand)}
    BY <2>1
  <2>4. {InHand[i] : i \in 1..Len(InHand)} \subseteq gap
    BY <2>2
  <2> QED
    BY <2>3, <2>4
<1>5. (relayed \o InHand)' = relayed
  <2>1. relayed \o <<>> = relayed
    BY <1>3, ConcatEmptySeq
  <2> QED
    BY <1>1, <2>1 DEF InHand
<1>6. \A c \in Clients :
        (Unread(c) /\ HoldsFirst(relayed \o InHand, lost, c, sent[c] - Len(inbox[c])))'
  <2> SUFFICES ASSUME NEW c \in Clients
               PROVE  (Unread(c) /\ HoldsFirst(relayed \o InHand, lost, c, sent[c] - Len(inbox[c])))'
    OBVIOUS
  <2>1. Unread(c) /\ HoldsFirst(relayed \o InHand, lost, c, sent[c] - Len(inbox[c]))
    BY <1>1 DEF StreamInv, Dead
  <2>2. HoldsFirst(relayed, lost', c, sent[c] - Len(inbox[c]))
    <3> HIDE DEF gap
    <3> QED
      BY <1>1, <1>3, <1>4, <2>1, CutHolds
  <2> QED
    BY <1>1, <1>5, <2>1, <2>2 DEF Unread
<1>7. OneGap(lost')
  <2>1. PICK c \in Clients, a \in Nat :
          a + Len(hand) <= MaxMsgs /\ \A i \in 1..Len(hand) : hand[i] = <<c, a + i>>
    BY <1>1 DEF StreamInv, OneChunk
  <2>2. MaxMsgs \in Nat /\ ReadMax \in Nat /\ Len(hand) <= ReadMax
    BY RelayAssumption DEF IInv, TypeInv, TypeOK, RelayAssumption
  <2>3. /\ a + written \in 0..MaxMsgs /\ a + Len(hand) \in 0..MaxMsgs
        /\ a + Len(hand) < (a + written) + ReadMax
    BY <1>1, <1>3, <2>1, <2>2
  <2>4. gap = {<<c, k>> : k \in ((a + written) + 1)..(a + Len(hand))}
    <3>1. ASSUME NEW i \in (written + 1)..Len(hand)
          PROVE  hand[i] = <<c, a + i>> /\ a + i \in ((a + written) + 1)..(a + Len(hand))
      BY <1>3, <2>1
    <3>2. ASSUME NEW k \in ((a + written) + 1)..(a + Len(hand))
          PROVE  k - a \in (written + 1)..Len(hand) /\ hand[k - a] = <<c, k>>
      <4>1. k - a \in (written + 1)..Len(hand) /\ k - a \in 1..Len(hand) /\ a + (k - a) = k
        BY <1>3
      <4> QED
        BY <2>1, <4>1
    <3> QED
      BY <3>1, <3>2
  <2>5. lost' = {<<c, k>> : k \in ((a + written) + 1)..(a + Len(hand))}
    BY <1>1, <1>2, <2>4
  <2> QED
    BY <2>3, <2>5 DEF OneGap
<1>8. CutInv'
  BY <1>1, <1>2, <1>7 DEF CutInv
<1>9. relayed' = received' \o pipe' /\ \A i, j \in DOMAIN relayed' : relayed'[i] = relayed'[j] => i = j
  BY <1>1 DEF StreamInv
<1> QED
  BY <1>1, <1>6, <1>8, <1>9 DEF StreamInv

(* Steps that leave what is under way alone.                                *)
LEMMA StreamsStay ==
  ASSUME StreamInv, UNCHANGED <<relayed, sent, inbox, lost>>,
         received' \o pipe' = received \o pipe,
         server' \notin Dead => server \notin Dead /\ InHand' = InHand,
         logger = "exited" => logger' = "exited" /\ (chld' => chld),
         server' = "relay" => server = "relay" /\ hand' = hand
  PROVE  StreamInv'
<1>1. CutInv'
  BY DEF StreamInv, CutInv
<1>2. ASSUME server' = "relay" PROVE OneChunk'
  <2>1. hand' = hand /\ OneChunk
    BY <1>2 DEF StreamInv
  <2> QED
    BY <2>1 DEF OneChunk
<1> QED
  BY <1>1, <1>2 DEF StreamInv, Unread

LEMMA StreamStep == IInv /\ StreamInv /\ [Next]_vars => StreamInv'
<1> SUFFICES ASSUME IInv, StreamInv, [Next]_vars PROVE StreamInv'
  OBVIOUS
<1>1. CASE ForkReceiver \/ ForkLogger \/ InitFails \/ Bind
  <2>1. logger # "exited" \/ logger' = logger
    BY <1>1 DEF ForkReceiver, ForkLogger, InitFails, Bind, IInv, ChildInv, procVars
  <2> QED
    BY <1>1, <2>1, StreamsStay
       DEF ForkReceiver, ForkLogger, InitFails, Bind, InHand, Dead, netVars, chanVars, procVars
<1>2. CASE Select \/ SelectInterrupted \/ ScanEnds \/ ReapZombie
  BY <1>2, StreamsStay
     DEF Select, SelectInterrupted, ScanEnds, ReapZombie, InHand, Dead, netVars, chanVars,
         procVars, buffer
<1>3. CASE Accept
  BY <1>3, StreamsStay DEF Accept, InHand, chanVars, procVars, buffer
<1>4. ASSUME NEW f \in ClientFds, ReadMessage(f) PROVE StreamInv'
  BY <1>4, ReadStreams
<1>5. ASSUME NEW f \in ClientFds, ReadEnd(f) PROVE StreamInv'
  BY <1>5, StreamsStay DEF ReadEnd, InHand, chanVars, procVars, buffer
<1>6. CASE WritePipe \/ WriteCut
  BY <1>6, WriteStreams, CutStreams
<1>7. CASE BrokenPipe \/ BrokenFifo \/ SelectFails
  BY <1>7, StreamsStay DEF BrokenPipe, BrokenFifo, SelectFails, Dead, netVars, chanVars, procVars
<1>8. CASE OpenFifo \/ OpenFifoFails \/ WriteFifo \/ CloseFifo
  BY <1>8, StreamsStay
     DEF OpenFifo, OpenFifoFails, WriteFifo, CloseFifo, InHand, Dead, netVars, chanVars, procVars
<1>9. CASE ReceiverRead
  <2>1. (received \o pipe) \o <<>> = received \o pipe
    BY DEF IInv, TypeInv, TypeOK
  <2> QED
    BY <1>9, <2>1, StreamsStay DEF ReceiverRead, InHand, netVars, procVars, buffer
<1>10. CASE ReceiverEnd \/ LoggerStep \/ UNCHANGED vars
  BY <1>10, StreamsStay
     DEF ReceiverEnd, LoggerStep, LoggerOpens, LoggerRead, LoggerEnds, LoggerExits, InHand,
         vars, netVars, chanVars, procVars, buffer
<1>11. ASSUME NEW c \in Clients, Connect(c) \/ HangUp(c) PROVE StreamInv'
  BY <1>11, StreamsStay DEF Connect, HangUp, InHand, chanVars, procVars, buffer
<1>12. ASSUME NEW c \in Clients, Send(c) PROVE StreamInv'
  <2>1. /\ UNCHANGED <<server, hand, written, relayed, received, pipe, lost, logger, chld>>
        /\ sent' = [sent EXCEPT ![c] = sent[c] + 1]
        /\ inbox' = [inbox EXCEPT ![c] = Append(inbox[c], <<c, sent[c] + 1>>)]
    BY <1>12 DEF Send, chanVars, procVars, buffer
  <2>2. /\ inbox \in [Clients -> Seq(Messages)] /\ sent \in [Clients -> 0..MaxMsgs]
        /\ <<c, sent[c] + 1>> \in Messages /\ MaxMsgs \in Nat
    <3>1. /\ inbox \in [Clients -> Seq(Messages)] /\ sent \in [Clients -> 0..MaxMsgs]
          /\ MaxMsgs \in Nat
      BY RelayAssumption DEF IInv, TypeInv, TypeOK, RelayAssumption
    <3>2. sent[c] < MaxMsgs
      BY <1>12 DEF Send
    <3>3. sent[c] + 1 \in 1..MaxMsgs
      BY <3>1, <3>2
    <3> QED
      BY <3>1, <3>3 DEF Messages
  <2>3. ASSUME NEW d \in Clients, Unread(d)
        PROVE  Unread(d)' /\ (sent[d] - Len(inbox[d]))' = sent[d] - Len(inbox[d])
    <3>1. sent[d] \in Int /\ Len(inbox[d]) \in Nat
      BY <2>2
    <3>2. CASE d = c
      <4>1. /\ sent'[c] = sent[c] + 1 /\ Len(inbox'[c]) = Len(inbox[c]) + 1
            /\ DOMAIN inbox[c] = 1..Len(inbox[c]) /\ DOMAIN inbox'[c] = 1..(Len(inbox[c]) + 1)
            /\ inbox'[c][Len(inbox[c]) + 1] = <<c, sent[c] + 1>>
            /\ \A k \in 1..Len(inbox[c]) : inbox'[c][k] = inbox[c][k]
        BY <2>1, <2>2
      <4> DEFINE l == Len(inbox[c])
                 n == sent[c] - l
      <4>2. /\ n \in Int /\ l \in Int /\ n = sent'[c] - Len(inbox'[c]) /\ n + (l + 1) = sent[c] + 1
            /\ Len(inbox'[c]) <= sent'[c]
        <5>1. sent[c] \in Int /\ l \in Int /\ l <= sent[c]
          BY <2>3, <3>1, <3>2 DEF Unread
        <5>2. sent'[c] = sent[c] + 1 /\ Len(inbox'[c]) = l + 1
          BY <4>1
        <5> HIDE DEF l
        <5> QED
          BY <5>1, <5>2
      <4>3. \A k \in 1..l : inbox[c][k] = <<c, n + k>>
        BY <2>3, <3>2, <4>1 DEF Unread
      <4>4. \A k \in 1..(l + 1) : k \in 1..l \/ k = l + 1
        BY <4>2
      <4> HIDE DEF l, n
      <4>5. \A k \in DOMAIN inbox'[c] : inbox'[c][k] = <<c, n + k>>
        BY <4>1, <4>2, <4>3, <4>4 DEF l
      <4>6. Unread(c)'
        BY <4>2, <4>5 DEF Unread
      <4> QED
        BY <3>2, <4>2, <4>6 DEF n, l
    <3>3. CASE d # c
      BY <2>1, <2>2, <2>3, <3>3 DEF Unread
    <3> QED
      BY <3>2, <3>3
  <2>4. (relayed \o InHand)' = relayed \o InHand
    BY <2>1 DEF InHand
  <2>5. CutInv' /\ (server' = "relay" => OneChunk')
    BY <2>1 DEF StreamInv, CutInv, OneChunk
  <2> QED
    BY <2>1, <2>3, <2>4, <2>5 DEF StreamInv
<1> QED
  BY <1>1, <1>2, <1>3, <1>4, <1>5, <1>6, <1>7, <1>8, <1>9, <1>10, <1>11, <1>12
     DEF Next, ServerStep, ReceiverStep, ClientStep
-----------------------------------------------------------------------------
LEMMA LogStays ==
  ASSUME LogInv, UNCHANGED <<relayed, log, fifo>>,
         server' \in {"relay", "openFifo", "writeFifo"} => Underway /\ UNCHANGED <<hand, written>>,
         server' \in {"openFifo", "writeFifo"} /\ logger' # "exited" =>
           server \in {"openFifo", "writeFifo"} /\ logger # "exited"
  PROVE  LogInv'
<1>1. LogInRelayOrder' /\ Logged' = Logged
  BY DEF LogInv, LogInRelayOrder, Logged
<1>2. Underway' => Underway /\ UNCHANGED <<hand, written>>
  BY DEF Underway
<1> QED
  BY <1>1, <1>2 DEF LogInv, Underway

(* What is read has not been relayed, nor logged.                           *)
LEMMA ReadLogs ==
  ASSUME IInv', StreamInv', LogInv, NEW f \in ClientFds, ReadMessage(f)
  PROVE  LogInv'
<1>1. /\ server' = "relay" /\ written' = 0 /\ UNCHANGED <<relayed, log, fifo>>
  BY DEF ReadMessage, chanVars
<1>2. \A i \in DOMAIN relayed' : \A j \in (written' + 1)..Len(hand') : relayed'[i] # hand'[j]
  <2>1. (TypeInv /\ StreamInv /\ server = "relay" =>
          \A i \in DOMAIN relayed : \A j \in (written + 1)..Len(hand) : relayed[i] # hand[j])'
    BY HandIsNew, PTL
  <2> QED
    BY <1>1, <2>1 DEF IInv
<1>3. relayed' \in Seq(Messages) /\ hand' \in Seq(Messages)
  BY DEF IInv, TypeInv, TypeOK
<1>4. DOMAIN hand' = (written' + 1)..Len(hand') /\ Len(relayed') \in Nat
  BY <1>1, <1>3
<1>5. LogInRelayOrder' /\ Logged' = Logged
  BY <1>1 DEF LogInv, LogInRelayOrder, Logged
<1>6. \A i \in DOMAIN Logged' : \E j \in DOMAIN relayed' : Logged'[i] = relayed'[j]
  BY <1>5 DEF LogInRelayOrder, Logged
<1>7. \A i \in DOMAIN Logged' : \A h \in DOMAIN hand' : Logged'[i] # hand'[h]
  BY <1>2, <1>4, <1>6
<1>8. written' <= Len(relayed') /\ \A i \in 1..written' : relayed'[Len(relayed') - written' + i] = hand'[i]
  BY <1>1, <1>4
<1> QED
  BY <1>1, <1>5, <1>7, <1>8 DEF LogInv, Underway

(* The pipe takes the next message in hand.                                 *)
LEMMA WriteLogs ==
  ASSUME IInv, LogInv, WritePipe
  PROVE  LogInv'
<1> DEFINE m == hand[written + 1]
           p == Len(relayed)
<1>1. /\ server = "relay" /\ relayed' = Append(relayed, m) /\ written' = written + 1
      /\ server' = IF written + 1 = Len(hand) THEN "openFifo" ELSE "relay"
      /\ UNCHANGED <<log, fifo, hand>>
  BY DEF WritePipe
<1>2. /\ hand \in Seq(Messages) /\ Len(hand) \in Nat /\ written \in Nat /\ written < Len(hand)
      /\ m \in Messages /\ relayed \in Seq(Messages)
  BY <1>1, Rest DEF IInv
<1>3. /\ p \in Nat /\ DOMAIN relayed = 1..p /\ DOMAIN relayed' = 1..(p + 1)
      /\ relayed'[p + 1] = m /\ Len(relayed') = p + 1
      /\ \A i \in 1..p : relayed'[i] = relayed[i]
  BY <1>1, <1>2
<1>4. /\ written <= p /\ \A i \in 1..written : relayed[p - written + i] = hand[i]
      /\ \A i \in DOMAIN Logged : \A h \in DOMAIN hand : Logged[i] # hand[h]
  BY <1>1 DEF LogInv, Underway
<1>5. Logged' = Logged /\ \A i \in DOMAIN Logged : Logged[i] # m
  <2>1. written + 1 \in DOMAIN hand
    BY <1>2
  <2> QED
    BY <1>1, <1>4, <2>1 DEF Logged
<1>6. /\ \A i \in DOMAIN Logged : \E j \in DOMAIN relayed : Logged[i] = relayed[j]
      /\ \A i, j \in DOMAIN Logged : \A k, l \in DOMAIN relayed :
           i < j /\ Logged[i] = relayed[k] /\ Logged[j] = relayed[l] => k < l
  BY DEF LogInv, LogInRelayOrder, Logged
<1> HIDE DEF m, p
<1>7. ASSUME NEW i \in 1..(written + 1) PROVE relayed'[Len(relayed') - (written + 1) + i] = hand[i]
  <2>1. Len(relayed') - (written + 1) + i = p - written + i
    BY <1>2, <1>3
  <2>2. CASE i = written + 1
    <3>1. p - written + i = p + 1
      BY <1>2, <1>3, <2>2
    <3> QED
      BY <1>3, <2>1, <2>2, <3>1 DEF m
  <2>3. CASE i # written + 1
    <3>1. i \in 1..written /\ p - written + i \in 1..p
      BY <1>2, <1>3, <1>4, <2>3
    <3> QED
      BY <1>3, <1>4, <2>1, <3>1
  <2> QED
    BY <2>2, <2>3
<1>8. \A i \in DOMAIN Logged : \A k \in DOMAIN relayed' :
        Logged[i] = relayed'[k] => k \in DOMAIN relayed /\ Logged[i] = relayed[k]
  BY <1>3, <1>5
<1>9. \A i \in DOMAIN Logged : \E j \in DOMAIN relayed' : Logged[i] = relayed'[j]
  BY <1>3, <1>6
<1>10. \A i, j \in DOMAIN Logged : \A k, l \in DOMAIN relayed' :
         i < j /\ Logged[i] = relayed'[k] /\ Logged[j] = relayed'[l] => k < l
  BY <1>6, <1>8
<1>11. LogInRelayOrder'
  BY <1>5, <1>9, <1>10 DEF LogInRelayOrder, Logged
<1>12. written' <= Len(relayed')
  BY <1>1, <1>2, <1>3, <1>4
<1>13. \A i \in 1..written' : relayed'[Len(relayed') - written' + i] = hand'[i]
  BY <1>1, <1>7
<1>14. \A i \in DOMAIN Logged' : \A h \in DOMAIN hand' : Logged'[i] # hand'[h]
  BY <1>1, <1>4, <1>5
<1>15. server' \in {"openFifo", "writeFifo"} => written' = Len(hand')
  BY <1>1
<1> QED
  BY <1>11, <1>12, <1>13, <1>14, <1>15 DEF LogInv

(* The FIFO takes the beginning of a chunk that was relayed whole.          *)
LEMMA FifoLogs ==
  ASSUME IInv, StreamInv, LogInv, WriteFifo
  PROVE  LogInv'
<1> DEFINE t == SubSeq(hand, 1, Fitting)
           h == Len(hand)
           p == Len(relayed)
           q == Len(Logged)
<1>1. /\ server = "writeFifo" /\ server' = "closeFifo" /\ UNCHANGED <<relayed, log>>
      /\ fifo' = fifo \o t /\ logger # "exited"
  BY DEF WriteFifo, FifoHasReader
<1>2. /\ log \in Seq(Messages) /\ fifo \in Seq(Messages) /\ hand \in Seq(Messages)
      /\ relayed \in Seq(Messages) /\ p \in Nat /\ h \in Nat /\ DOMAIN relayed = 1..p
      /\ DOMAIN hand = 1..h
  BY DEF IInv, TypeInv, TypeOK
<1>3. /\ t \in Seq(Messages) /\ Len(t) \in 0..h /\ \A i \in 1..Len(t) : t[i] = hand[i]
  BY FitsFifo DEF IInv
<1>4. /\ h <= p /\ \A i \in 1..h : relayed[p - h + i] = hand[i]
      /\ \A i \in DOMAIN Logged : \A j \in 1..h : Logged[i] # hand[j]
  BY <1>1, <1>2 DEF LogInv, Underway
<1>5. \A i \in 1..h : p - h + i \in DOMAIN relayed
  BY <1>2, <1>4
<1>6. Logged \in Seq(Messages) /\ Logged' = Logged \o t
  <2> HIDE DEF t
  <2>1. log \o (fifo \o t) = (log \o fifo) \o t
    <3>1. log \in Seq(Messages) /\ fifo \in Seq(Messages) /\ t \in Seq(Messages)
      BY <1>2, <1>3
    <3> QED
      BY ONLY <3>1, ConcatAssociative
  <2>2. log \o fifo \in Seq(Messages)
    BY <1>2
  <2> QED
    BY <1>1, <2>1, <2>2 DEF Logged
<1>7. /\ q \in Nat /\ DOMAIN Logged = 1..q /\ DOMAIN Logged' = 1..(q + Len(t))
      /\ \A i \in 1..(q + Len(t)) : Logged'[i] = IF i <= q THEN Logged[i] ELSE t[i - q]
  <2>1. /\ Logged \o t \in Seq(Messages) /\ Len(Logged \o t) = q + Len(t)
        /\ \A i \in 1..(q + Len(t)) : (Logged \o t)[i] = IF i <= q THEN Logged[i] ELSE t[i - q]
    BY <1>3, <1>6, ConcatProperties
  <2> QED
    BY <1>6, <2>1
<1>8. /\ \A i \in DOMAIN Logged : \E j \in DOMAIN relayed : Logged[i] = relayed[j]
      /\ \A i, j \in DOMAIN Logged : \A k, l \in DOMAIN relayed :
           i < j /\ Logged[i] = relayed[k] /\ Logged[j] = relayed[l] => k < l
  BY DEF LogInv, LogInRelayOrder, Logged
<1>9. \A i, j \in DOMAIN relayed : relayed[i] = relayed[j] => i = j
  BY DEF StreamInv
<1> HIDE DEF t, h, p, q
<1>10. ASSUME NEW i \in DOMAIN Logged', i \notin 1..q
       PROVE  /\ i - q \in 1..h /\ i \in Int /\ i > q /\ Logged'[i] = relayed[p - h + (i - q)]
              /\ p - h + (i - q) \in DOMAIN relayed
  <2>1. i \in 1..(q + Len(t)) /\ ~(i <= q) /\ i - q \in 1..Len(t) /\ i - q \in 1..h
    BY <1>2, <1>3, <1>7, <1>10
  <2>2. Logged'[i] = hand[i - q] /\ i \in Int /\ i > q
    BY <1>3, <1>7, <2>1
  <2> QED
    BY <1>4, <1>5, <2>1, <2>2
<1>11. ASSUME NEW i \in 1..q PROVE Logged'[i] = Logged[i] /\ i \in DOMAIN Logged
  <2>1. i \in 1..(q + Len(t)) /\ i <= q
    BY <1>3, <1>7
  <2> QED
    BY <1>7, <2>1
<1>12. \A i \in DOMAIN Logged' : \E j \in DOMAIN relayed : Logged'[i] = relayed[j]
  BY <1>8, <1>10, <1>11
<1>13. ASSUME NEW i \in DOMAIN Logged', NEW j \in DOMAIN Logged', i < j,
              NEW k \in DOMAIN relayed, NEW l \in DOMAIN relayed,
              Logged'[i] = relayed[k], Logged'[j] = relayed[l]
       PROVE  k < l
  <2>1. i \in Int /\ j \in Int /\ k \in 1..p /\ l \in 1..p /\ q \in Nat /\ h \in Nat /\ p \in Nat
    BY <1>2, <1>3, <1>7
  <2>2. CASE j \in 1..q
    <3>1. i \in 1..q
      BY <1>7, <1>13, <2>1, <2>2
    <3> QED
      BY <1>8, <1>11, <1>13, <2>2, <3>1
  <2>3. CASE j \notin 1..q
    <3>1. l = p - h + (j - q) /\ j - q \in 1..h
      BY <1>9, <1>10, <1>13, <2>3
    <3>2. CASE i \in 1..q
      <4>1. ASSUME k > p - h PROVE FALSE
        <5>1. k - (p - h) \in 1..h /\ p - h + (k - (p - h)) = k
          BY <1>4, <2>1, <4>1
        <5>2. relayed[k] = hand[k - (p - h)]
          BY <1>4, <5>1
        <5> QED
          BY <1>4, <1>11, <1>13, <3>2, <5>1, <5>2
      <4> QED
        BY <2>1, <3>1, <4>1
    <3>3. CASE i \notin 1..q
      <4>1. k = p - h + (i - q)
        BY <1>9, <1>10, <1>13, <3>3
      <4> QED
        BY <1>13, <2>1, <3>1, <4>1
    <3> QED
      BY <3>2, <3>3
  <2> QED
    BY <2>2, <2>3
<1>14. LogInRelayOrder'
  <2>1. relayed' = relayed
    BY <1>1
  <2> QED
    BY <2>1, <1>12, <1>13 DEF LogInRelayOrder, Logged
<1> QED
  BY <1>1, <1>14 DEF LogInv, Underway

LEMMA LogStep ==
  IInv /\ StreamInv /\ LogInv /\ [Next]_vars /\ IInv' /\ StreamInv' => LogInv'
<1> SUFFICES ASSUME IInv, StreamInv, LogInv, [Next]_vars, IInv', StreamInv' PROVE LogInv'
  OBVIOUS
<1>1. CASE ForkReceiver \/ ForkLogger \/ InitFails \/ Bind
  BY <1>1, LogStays DEF ForkReceiver, ForkLogger, InitFails, Bind, chanVars
<1>2. CASE Select \/ SelectInterrupted \/ ScanEnds
  BY <1>2, LogStays DEF Select, SelectInterrupted, ScanEnds, chanVars
<1>3. CASE Accept \/ \E f \in ClientFds : ReadEnd(f)
  BY <1>3, LogStays DEF Accept, ReadEnd, AtFd, chanVars
<1>4. ASSUME NEW f \in ClientFds, ReadMessage(f) PROVE LogInv'
  BY <1>4, ReadLogs
<1>5. CASE WritePipe \/ WriteFifo
  BY <1>5, WriteLogs, FifoLogs
<1>6. CASE WriteCut
  <2>1. logger' = "exited" /\ server = "relay" /\ UNCHANGED <<relayed, log, fifo, hand, written>>
    BY <1>6 DEF WriteCut, IInv, ChildInv, buffer
  <2> QED
    BY <2>1, LogStays DEF Underway
<1>7. CASE BrokenPipe \/ BrokenFifo \/ OpenFifoFails \/ CloseFifo \/ SelectFails
  BY <1>7, LogStays DEF BrokenPipe, BrokenFifo, OpenFifoFails, CloseFifo, SelectFails, chanVars
<1>8. CASE OpenFifo
  BY <1>8, LogStays DEF OpenFifo, FifoHasReader, chanVars, buffer, Underway
<1>9. CASE LoggerRead
  <2>1. log' \o fifo' = log \o fifo
    BY <1>9 DEF LoggerRead, IInv, TypeInv, TypeOK
  <2>2. UNCHANGED <<relayed, server, hand, written, logger>>
    BY <1>9 DEF LoggerRead, buffer, procVars
  <2> QED
    BY <2>1, <2>2 DEF LogInv, LogInRelayOrder, Logged, Underway
<1>10. CASE LoggerExits
  <2>1. /\ log' = log /\ fifo' = <<>> /\ UNCHANGED <<relayed, server, hand, written>>
        /\ log \in Seq(Messages) /\ fifo \in Seq(Messages) /\ logger' = "exited"
    BY <1>10 DEF LoggerExits, IInv, TypeInv, TypeOK, buffer
  <2>2. /\ DOMAIN Logged' \subseteq DOMAIN Logged /\ \A i \in DOMAIN Logged' : Logged'[i] = Logged[i]
    BY <2>1 DEF Logged
  <2>3. LogInRelayOrder'
    BY <2>1, <2>2 DEF LogInv, LogInRelayOrder, Logged
  <2> QED
    BY <2>1, <2>2, <2>3 DEF LogInv, Underway
<1>11. CASE LoggerOpens \/ LoggerEnds \/ ReceiverEnd \/ ReapZombie \/ UNCHANGED vars
  BY <1>11, LogStays
     DEF LoggerOpens, LoggerEnds, ReceiverEnd, ReapZombie, vars, chanVars, buffer, procVars, Underway
<1>12. CASE ReceiverRead
  BY <1>12, LogStays DEF ReceiverRead, buffer, procVars, Underway
<1>13. CASE ClientStep
  BY <1>13, LogStays DEF ClientStep, Connect, Send, HangUp, chanVars, buffer, procVars, Underway
<1> QED
  BY <1>1, <1>2, <1>3, <1>4, <1>5, <1>6, <1>7, <1>8, <1>9, <1>10, <1>11, <1>12, <1>13
     DEF Next, ServerStep, ReceiverStep, LoggerStep
-----------------------------------------------------------------------------
(* The invariant is inductive.                                              *)
LEMMA StepIInv == IInv /\ [Next]_vars => IInv'
BY TypeStep, ChildStep, LoopStep DEF IInv

(* Hence it holds in every reachable state.                                 *)
LEMMA Invariance == Spec => []IInv
BY InitIInv, StepIInv, PTL DEF Spec

(* So do those of the streams and of the log.                               *)
LEMMA StreamInvariance == Spec => [](IInv /\ StreamInv /\ LogInv)
<1>1. IInv /\ StreamInv /\ LogInv /\ [Next]_vars => IInv' /\ StreamInv' /\ LogInv'
  BY StepIInv, StreamStep, LogStep
<1> QED
  BY <1>1, InitIInv, StreamInit, PTL DEF Spec

(* The types hold: in particular a client that connects always finds a      *)
(* descriptor, and the channels never exceed their capacities.              *)
THEOREM TypeCorrect == Spec => []TypeOK
<1>1. IInv => TypeOK
  BY DEF IInv, TypeInv
<1> QED
  BY <1>1, Invariance, PTL

(* select watches exactly the listener and the open connections, and maxFd  *)
(* covers them, whoever comes and goes in the middle of a scan.             *)
THEOREM WatchedFds == Spec => []WatchesOpenFds
<1>1. IInv => WatchesOpenFds
  BY DEF IInv, WatchInv, OwnerInv, WatchesOpenFds, Open
<1> QED
  BY <1>1, Invariance, PTL

(* The server hangs, or is killed, only when one of its children is missing.*)
THEOREM HarmlessClients == Spec => []HarmedOnlyByChildren
<1>1. IInv => HarmedOnlyByChildren
  <2> SUFFICES ASSUME IInv PROVE HarmedOnlyByChildren
    OBVIOUS
  <2>1. ASSUME Stalled PROVE logger = "exited"
    <3>1. PICK f \in Pending : AtFd(f) /\ f \notin Ready
      BY <2>1 DEF Stalled
    <3>2. f \in ToCome /\ server = "scan"
      BY <3>1 DEF AtFd, Pending, ToCome
    <3> QED
      BY <3>1, <3>2 DEF IInv, ScanInv, Serving
  <2> QED
    BY <2>1 DEF HarmedOnlyByChildren, IInv, ChildInv
<1> QED
  BY <1>1, Invariance, PTL

(* While the server lives, what was read of each client is on its way to    *)
(* the receiver or there, once and in order, and the rest of what it sent   *)
(* is unread: all of it, but for the end of at most one chunk, whose        *)
(* write() the signal of the logger's end cut short.                        *)
THEOREM StreamsKept == Spec => []StreamIntact
<1>1. IInv /\ StreamInv => StreamIntact
  <2> SUFFICES ASSUME IInv, StreamInv PROVE StreamIntact
    OBVIOUS
  <2>1. Passed = relayed \o InHand
    BY DEF StreamInv, Passed, InHand
  <2> QED
    BY <2>1 DEF StreamInv, CutInv, StreamIntact, Unread
<1> QED
  BY <1>1, StreamInvariance, PTL

(* The log keeps the order of relaying, whatever the FIFO dropped and       *)
(* whenever the logger left.                                                *)
THEOREM LogOrdered == Spec => []LogInRelayOrder
<1>1. LogInv => LogInRelayOrder
  BY DEF LogInv
<1> QED
  BY <1>1, StreamInvariance, PTL
-----------------------------------------------------------------------------
(* The receiver reads what was relayed and no more, and ends only when      *)
(* nobody can write to its pipe any more, which it has emptied.             *)
ReceiverInv ==
  /\ receiver = "unborn" => server = "forkReceiver" /\ relayed = <<>> /\ received = <<>> /\ pipe = <<>>
  /\ receiver \in {"running", "exited"} => received \o pipe = relayed
  /\ receiver = "exited" =>
       server \in Dead /\ logger \in {"none", "exited"} /\ received = relayed

(* Steps of others, once the receiver has ended, find the server dead and   *)
(* leave the logger where it was.                                           *)
LEMMA ReceiverStays ==
  ASSUME ReceiverInv, UNCHANGED <<receiver, pipe, relayed, received>>, receiver # "unborn",
         server \in Dead => server' = server,
         logger \in {"none", "exited"} /\ server \in Dead => logger' = logger
  PROVE  ReceiverInv'
BY DEF ReceiverInv

(* Who can write to the pipe is alive as long as the receiver reads it.     *)
LEMMA ReceiverStepInv == TypeInv /\ ChildInv /\ ReceiverInv /\ [Next]_vars => ReceiverInv'
<1> SUFFICES ASSUME TypeInv, ChildInv, ReceiverInv, [Next]_vars PROVE ReceiverInv'
  OBVIOUS
<1> USE DEF Dead
<1>0. received \in Seq(Messages) /\ pipe \in Seq(Messages) /\ relayed \in Seq(Messages)
  BY DEF TypeInv, TypeOK
<1>1. CASE ForkReceiver
  <2>1. receiver = "unborn" /\ <<>> \o <<>> = <<>>
    BY <1>1 DEF ForkReceiver, ChildInv
  <2> QED
    BY <1>1, <2>1 DEF ForkReceiver, ReceiverInv, chanVars
<1>2. CASE InitFails
  <2>1. receiver # "exited"
    BY <1>2 DEF InitFails, ReceiverInv
  <2>2. CASE receiver = "unborn"
    BY <1>2, <2>2 DEF InitFails, ReceiverInv, chanVars
  <2>3. CASE receiver # "unborn"
    BY <1>2, <2>1, <2>3 DEF InitFails, ReceiverInv, chanVars
  <2> QED
    BY <2>2, <2>3
<1>3. CASE ForkLogger \/ Bind
  <2>1. receiver # "unborn" /\ server \notin Dead
    BY <1>3 DEF ForkLogger, Bind, ReceiverInv
  <2> QED
    BY <1>3, <2>1, ReceiverStays DEF ForkLogger, Bind, procVars, chanVars
<1>4. CASE Select \/ SelectInterrupted \/ SelectFails \/ ScanEnds
  <2>1. receiver # "unborn" /\ server \notin Dead
    BY <1>4 DEF Select, SelectInterrupted, SelectFails, ScanEnds, ReceiverInv
  <2> QED
    BY <1>4, <2>1, ReceiverStays
       DEF Select, SelectInterrupted, SelectFails, ScanEnds, procVars, chanVars
<1>5. CASE Accept \/ \E f \in ClientFds : ReadMessage(f) \/ ReadEnd(f)
  <2>1. receiver # "unborn" /\ server = "scan"
    BY <1>5 DEF Accept, ReadMessage, ReadEnd, AtFd, ReceiverInv
  <2> QED
    BY <1>5, <2>1, ReceiverStays DEF Accept, ReadMessage, ReadEnd, procVars, chanVars
<1>6. CASE WritePipe
  <2> DEFINE m == hand[written + 1]
  <2>1. /\ receiver = "running" /\ UNCHANGED <<receiver, received>>
        /\ pipe' = Append(pipe, m) /\ relayed' = Append(relayed, m)
    BY <1>6 DEF WritePipe, procVars
  <2>2. m \in Messages
    BY <1>6, Rest DEF WritePipe
  <2> HIDE DEF m
  <2>3. received \o Append(pipe, m) = Append(received \o pipe, m)
    BY <1>0, <2>2
  <2> QED
    BY <2>1, <2>3 DEF ReceiverInv
<1>7. CASE WriteCut \/ BrokenPipe \/ OpenFifo \/ OpenFifoFails \/ WriteFifo \/ BrokenFifo \/ CloseFifo
  <2>1. receiver # "unborn" /\ server \notin Dead
    BY <1>7 DEF WriteCut, BrokenPipe, OpenFifo, OpenFifoFails, WriteFifo, BrokenFifo, CloseFifo, ReceiverInv
  <2> QED
    BY <1>7, <2>1, ReceiverStays DEF WriteCut, BrokenPipe, OpenFifo, OpenFifoFails, WriteFifo,
      BrokenFifo, CloseFifo, procVars, chanVars
<1>8. CASE ReceiverStep
  <2>1. CASE ReceiverRead
    <3>1. (received \o pipe) \o <<>> = received \o pipe
      BY <1>0
    <3> QED
      BY <2>1, <3>1 DEF ReceiverRead, ReceiverInv, procVars
  <2>2. CASE ReceiverEnd
    <3>1. received \o <<>> = received
      BY <1>0
    <3> QED
      BY <2>2, <3>1 DEF ReceiverEnd, ReceiverInv, chanVars
  <2> QED
    BY <1>8, <2>1, <2>2 DEF ReceiverStep
<1>9. CASE LoggerStep
  BY <1>9 DEF LoggerStep, LoggerOpens, LoggerRead, LoggerEnds, LoggerExits, ReceiverInv, procVars, chanVars
<1>10. CASE ClientStep \/ ReapZombie \/ UNCHANGED vars
  BY <1>10 DEF ClientStep, Connect, Send, HangUp, ReapZombie, vars, ReceiverInv, procVars, chanVars
<1> QED
  BY <1>1, <1>2, <1>3, <1>4, <1>5, <1>6, <1>7, <1>8, <1>9, <1>10 DEF Next, ServerStep

(* The safety part of ChildrenEnd: the receiver ends only after the server  *)
(* and the logger, which has the pipe's write end as well, and has then     *)
(* read everything that was relayed, in its order.  Of what it read, what   *)
(* its stdout still holds is dropped by _exit().                            *)
THEOREM ReceiverEndsLast ==
  Spec => [](receiver = "exited" =>
               server \in Dead /\ logger \in {"none", "exited"} /\ received = relayed)
<1>1. Init => ReceiverInv
  BY DEF Init, ReceiverInv
<1>2. IInv /\ ReceiverInv /\ [Next]_vars => ReceiverInv'
  BY ReceiverStepInv DEF IInv
<1>3. ReceiverInv => (receiver = "exited" =>
               server \in Dead /\ logger \in {"none", "exited"} /\ received = relayed)
  BY DEF ReceiverInv
<1> QED
  BY <1>1, <1>2, <1>3, Invariance, PTL DEF Spec
=============================================================================
